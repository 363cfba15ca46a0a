---------------------------- MODULE StatusTracker ---------------------------
(* StatusTracker (web/packages/react/src/StatusTracker.tsx): a respondent's *)
(* view of one submission, which polls until the submission ends.          *)
EXTENDS SubmissionDesk, Filters

CONSTANTS
    Links,          \* [id, right]: a submission and whether the token is its own
    MaxLinks        \* changes of the properties

ASSUME LinksAssumption ==
    /\ Links \subseteq [id : Submissions, right : BOOLEAN]
    /\ Terminal \subseteq StateNames

VARIABLES
    tracker,   \* the properties, the run of the effect, its state and timer
    polls,     \* getPublicStatus calls under way
    lost       \* polls that failed

trackerVars == <<tracker, polls, lost>>

NoStatus == [id |-> "none", state |-> "none", history |-> << >>]
Unread   == "unread"

Poll(run, link) == [run |-> run, id |-> link.id, right |-> link.right,
                    row |-> Unread, history |-> << >>]

(* The effect: a run is over when the next one begins; its timer goes.     *)
effect(run, link) ==
    /\ tracker' = [run |-> run, link |-> link, status |-> NoStatus, error |-> "none", timer |-> FALSE]
    /\ polls' = polls \cup {Poll(run, link)}

Mounted(link) == [run |-> 1, link |-> link, status |-> NoStatus, error |-> "none", timer |-> FALSE]

TrackerInit(link) ==
    /\ tracker = Mounted(link)
    /\ polls = {Poll(1, link)}
    /\ lost = 0

NotMounted ==
    /\ tracker = [Mounted([id |-> "none", right |-> FALSE]) EXCEPT !.run = 0]
    /\ polls = {}
    /\ lost = 0

changeLink ==
    /\ tracker.run \in 1..MaxLinks
    /\ \E l \in Links \ {tracker.link} : effect(tracker.run + 1, l)
    /\ UNCHANGED lost

-----------------------------------------------------------------------------
(* public_status reads the row, then the history. *)

readRow ==
    /\ \E p \in polls :
        /\ p.row = Unread
        /\ polls' = (polls \ {p}) \cup
                        {[p EXCEPT !.row = IF p.right THEN desk[p.id].state ELSE "not_found"]}
    /\ UNCHANGED <<tracker, lost>>

HasRead(p) == p.row = "not_found" \/ p.history # << >>

readHistory ==
    /\ \E p \in polls :
        /\ p.row # Unread /\ ~HasRead(p)
        /\ polls' = (polls \ {p}) \cup {[p EXCEPT !.history = desk[p.id].history]}
    /\ UNCHANGED <<tracker, lost>>

Status(p) == [id |-> p.id, state |-> p.row, history |-> p.history]

(* Mutant: an answer is shown whatever was asked since. *)
CurrentAlways(p) == TRUE

Current(p) == p.run = tracker.run

GoesOn(state) == state \notin Terminal

answers ==
    /\ \E p \in polls :
        /\ HasRead(p)
        /\ polls' = polls \ {p}
        /\ tracker' =
              IF ~Current(p) THEN tracker
              ELSE IF p.row = "not_found" THEN [tracker EXCEPT !.error = "not_found"]
              ELSE [tracker EXCEPT !.status = Status(p), !.error = "none", !.timer = GoesOn(p.row)]
    /\ UNCHANGED lost

(* Mutant: the tracker gives up when a poll fails. *)
RetriesNever == FALSE

Retries == TRUE

fails ==
    /\ lost' = lost + 1
    /\ \E p \in polls :
        /\ polls' = polls \ {p}
        /\ tracker' = IF Current(p) THEN [tracker EXCEPT !.error = "other", !.timer = Retries]
                      ELSE tracker

Fired(t) == [t EXCEPT !.timer = FALSE]

tick ==
    /\ tracker.timer
    /\ tracker' = Fired(tracker)
    /\ polls' = polls \cup {Poll(tracker.run, tracker.link)}
    /\ UNCHANGED lost

TrackerStep == readRow \/ readHistory \/ answers \/ fails \/ tick

-----------------------------------------------------------------------------
(* The page that is rendered. *)

View == IF tracker.error = "not_found" THEN "not_found"
        ELSE IF tracker.status = NoStatus THEN "loading" ELSE "status"

(* The states that are not final, in order, and the current one. *)
visibleSteps(status) ==
    LET steps == Kept(Workflow.states, (StateNames \ Terminal) \cup {status.state})
    IN  IF Contains(steps, status.state) THEN steps ELSE Append(steps, status.state)

mark(status, step) ==
    IF step = status.state THEN "current"
    ELSE IF Contains(status.history, step) THEN "done" ELSE "ahead"

-----------------------------------------------------------------------------

(* What is shown is the submission of the link, and only for its token;    *)
(* "We couldn't find" is never the answer to an earlier link.              *)
ShowsLinked ==
    /\ tracker.status # NoStatus => tracker.status.id = tracker.link.id /\ tracker.link.right
    /\ tracker.error = "not_found" => ~tracker.link.right

(* The tracker either waits for one answer or has one timer set, until it  *)
(* shows a final state or the link is wrong; then it stops.                *)
OnePoll ==
    LET waiting == Cardinality({p \in polls : p.run = tracker.run})
        ended   == tracker.error = "not_found" \/ tracker.status.state \in Terminal
    IN  tracker.run > 0 => waiting + (IF tracker.timer THEN 1 ELSE 0) = (IF ended THEN 0 ELSE 1)

(* The respondent never sees a submission go back.                         *)
NeverBack ==
    [][tracker'.run = tracker.run => IsPrefix(tracker.status.history, tracker'.status.history)]_tracker

(* A submission that has ended is shown as ended, although polls fail.     *)
EndIsShown ==
    <>[](tracker.run > 0 /\ tracker.link.right =>
            LET d == desk[tracker.link.id]
            IN  d.state \in Terminal => tracker.status.state = d.state /\ tracker.status.history = d.history)

(* The chain of steps has one current step, no step twice, and marks each  *)
(* state the history tells that is not final; the history, which is read   *)
(* after the row, always tells of the current state.                       *)
OneStory ==
    View = "status" =>
        LET status == tracker.status
            steps  == visibleSteps(status)
        IN  /\ Cardinality({i \in DOMAIN steps : mark(status, steps[i]) = "current"}) = 1
            /\ IsInjective(steps)
            /\ Contains(status.history, status.state)
            /\ \A i \in DOMAIN status.history :
                  status.history[i] \notin Terminal =>
                      Contains(steps, status.history[i]) /\ mark(status, status.history[i]) # "ahead"

(* The tracker shows what its link names, and keeps polling as it should. *)
TrackerSound == ShowsLinked /\ OnePoll /\ OneStory
=============================================================================
