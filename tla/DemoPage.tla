------------------------------ MODULE DemoPage ------------------------------
(* The demo page (web/apps/demo/src/): it asks whether the demo is there,  *)
(* a visitor submits the form, then tracks the submission on the left and  *)
(* plays its reviewers on the right (ReviewerPanel).  All personas share   *)
(* the browser's one session cookie.                                       *)
EXTENDS StatusTracker

CONSTANTS
    Personas,       \* persona -> roles
    First,          \* PERSONAS[0]
    Ours,           \* the visitor's submission
    MaxRuns,        \* transitions the visitor starts
    MaxSwitches     \* changes of persona

ASSUME DemoAssumption == First \in DOMAIN Personas /\ Ours \in Submissions

VARIABLES
    demo,      \* useDemoStatus, and whether the form was submitted
    panel,     \* the panel's state
    cookie,    \* the persona whose session the browser holds
    tasks,     \* the load() and run() calls under way
    did        \* how often the visitor ran and switched, and what failed

demoVars == <<demo, panel, cookie, tasks, did>>

NoDetail  == [state |-> "none", fields |-> << >>, updatedAt |-> 0, transitions |-> << >>]
NoPersona == "none"

NotOpened ==
    /\ demo = [status |-> "closed", demoMode |-> FALSE, submitted |-> FALSE]
    /\ panel = [persona |-> First, detail |-> NoDetail, values |-> << >>, busy |-> Blank, error |-> FALSE]
    /\ cookie = NoPersona
    /\ tasks = {}
    /\ did = [tasks |-> 0, runs |-> 0, switches |-> 0, failures |-> 0]

DemoInit ==
    /\ demo = [status |-> "loading", demoMode |-> FALSE, submitted |-> FALSE]
    /\ panel = [persona |-> First, detail |-> NoDetail, values |-> << >>, busy |-> Blank, error |-> FALSE]
    /\ cookie = NoPersona
    /\ tasks = {}
    /\ did = [tasks |-> 0, runs |-> 0, switches |-> 0, failures |-> 0]

-----------------------------------------------------------------------------
(* The page *)

(* useDemoStatus: the configuration, then the form; both may fail. *)
configured ==
    /\ demo.status = "loading"
    /\ \E status \in {"offline", "not-seeded", "ready"}, demoMode \in BOOLEAN :
        demo' = [demo EXCEPT !.status = status, !.demoMode = status # "offline" /\ demoMode]
    /\ UNCHANGED <<panel, cookie, tasks, did, trackerVars>>

NewTask(kind, after, persona) ==
    [n |-> did.tasks + 1, kind |-> kind, pc |-> "login", persona |-> persona, as |-> NoPersona,
     after |-> after, t |-> Blank, fields |-> << >>, expected |-> Blank, seen |-> Blank, code |-> Blank, answer |-> NoDetail]

(* CollectSection's form is confirmed: TrackSection mounts both halves,    *)
(* and the panel loads if the server is in demo mode.                      *)
submitted ==
    /\ demo.status = "ready" /\ ~demo.submitted
    /\ demo' = [demo EXCEPT !.submitted = TRUE]
    /\ effect(1, [id |-> Ours, right |-> TRUE])
    /\ IF demo.demoMode
       THEN /\ tasks' = {NewTask("load", Blank, panel.persona)}
            /\ did' = [did EXCEPT !.tasks = @ + 1]
       ELSE UNCHANGED <<tasks, did>>
    /\ UNCHANGED <<panel, cookie, lost>>

Playing == demo.submitted /\ demo.demoMode

-----------------------------------------------------------------------------
(* The panel *)

(* Another persona: load changes, and its effect runs. *)
setPersona ==
    /\ Playing
    /\ did.switches < MaxSwitches
    /\ \E p \in DOMAIN Personas \ {panel.persona} :
        /\ panel' = [panel EXCEPT !.persona = p, !.error = FALSE]
        /\ tasks' = tasks \cup {NewTask("load", Blank, p)}
    /\ did' = [did EXCEPT !.switches = @ + 1, !.tasks = @ + 1]
    /\ UNCHANGED <<demo, cookie, trackerVars>>

(* A value typed for a required field of an offered transition. *)
missingFields(t) == Workflow.transitions[t].requireFields \ DOMAIN panel.detail.fields

setValues ==
    /\ Playing
    /\ panel.detail.state \notin Terminal
    /\ \E t \in DOMAIN panel.detail.transitions, v \in Values :
        /\ panel.detail.transitions[t]
        /\ \E k \in missingFields(t) :
            panel' = [panel EXCEPT !.values = With(@, k, v)]
    /\ UNCHANGED <<demo, cookie, tasks, did, trackerVars>>

Offered(t) ==
    /\ panel.detail.transitions[t]
    /\ missingFields(t) \subseteq DOMAIN panel.values
    /\ panel.busy = Blank

expectedState == panel.detail.state

(* run(): its load() is the one of the persona it was started under. *)
run ==
    /\ Playing
    /\ did.runs < MaxRuns
    /\ panel.detail.state \notin Terminal
    /\ \E t \in DOMAIN panel.detail.transitions :
        /\ Offered(t)
        /\ panel' = [panel EXCEPT !.busy = t, !.error = FALSE]
        /\ tasks' = tasks \cup
              {[NewTask("run", "transitioned", panel.persona) EXCEPT
                    !.pc = "move", !.as = cookie, !.t = t, !.expected = expectedState,
                    !.seen = panel.detail.state,
                    !.fields = [k \in Workflow.transitions[t].requireFields \cap DOMAIN panel.values
                                    |-> panel.values[k]]]}
    /\ did' = [did EXCEPT !.runs = @ + 1, !.tasks = @ + 1]
    /\ UNCHANGED <<demo, cookie, trackerVars>>

Becomes(k, next) == tasks' = (tasks \ {k}) \cup {next}

(* The server decides on a transition. *)
decide ==
    /\ \E k \in tasks :
        /\ k.pc = "move"
        /\ LET d    == desk[Ours]
               code == Refusal(Workflow, d.state, d.fields, Personas[k.as], k.t, k.fields, k.expected)
           IN  /\ desk' = IF code = "ok" THEN [desk EXCEPT ![Ours] = Moved(d, k.t, k.fields)] ELSE desk
               /\ Becomes(k, [k EXCEPT !.pc = "moved", !.code = code])
    /\ UNCHANGED <<othersDid, demo, panel, cookie, did, trackerVars>>

(* The answer: a refusal is set as the error, and load() clears it again.  *)
moved ==
    /\ \E k \in tasks :
        /\ k.pc = "moved"
        /\ panel' = [panel EXCEPT !.values = IF k.code = "ok" THEN << >> ELSE @, !.error = FALSE]
        /\ Becomes(k, [k EXCEPT !.pc = "login", !.after = IF k.code = "ok" THEN @ ELSE "refused"])
    /\ UNCHANGED <<demo, cookie, did, trackerVars>>

(* load(): login, then the submission as the cookie's persona. *)
loggedIn ==
    /\ \E k \in tasks :
        /\ k.pc = "login"
        /\ cookie' = k.persona
        /\ Becomes(k, [k EXCEPT !.pc = "get", !.as = k.persona])
    /\ UNCHANGED <<demo, panel, did, trackerVars>>

read ==
    /\ \E k \in tasks :
        /\ k.pc = "get"
        /\ Becomes(k, [k EXCEPT !.pc = "got", !.answer = Detail(Ours, Personas[k.as])])
    /\ UNCHANGED <<demo, panel, cookie, did, trackerVars>>

(* What follows load() in run(): onTransitioned remounts the tracker, and  *)
(* finally the panel is not busy any more.                                 *)
Afterwards(k, p) == IF k.kind = "run" THEN [p EXCEPT !.busy = Blank] ELSE p

Ends(k) ==
    /\ tasks' = tasks \ {k}
    /\ IF k.after = "transitioned" THEN effect(tracker.run + 1, tracker.link) ELSE UNCHANGED <<tracker, polls>>

loaded ==
    /\ \E k \in tasks :
        /\ k.pc = "got"
        /\ panel' = Afterwards(k, [panel EXCEPT !.detail = k.answer])
        /\ Ends(k)
    /\ UNCHANGED <<demo, cookie, did, lost>>

(* A request of load() fails, or one of run(): its load() follows. *)
requestFails ==
    /\ did' = [did EXCEPT !.failures = @ + 1]
    /\ \E k \in tasks :
        \/ /\ k.pc \in {"login", "get", "got"}
           /\ panel' = Afterwards(k, [panel EXCEPT !.error = TRUE])
           /\ Ends(k)
        \/ /\ k.pc \in {"move", "moved"}
           /\ panel' = [panel EXCEPT !.error = FALSE]
           /\ Becomes(k, [k EXCEPT !.pc = "login", !.after = "refused"])
           /\ UNCHANGED <<tracker, polls>>
    /\ UNCHANGED <<demo, cookie, lost>>

Answered == loggedIn \/ read \/ loaded \/ moved \/ requestFails

DemoStep == configured \/ submitted \/ setPersona \/ setValues \/ run

-----------------------------------------------------------------------------

(* One transition is under way at a time, also across changes of persona,  *)
(* and the panel is busy with it no longer than that: refused, failed or   *)
(* applied, its buttons come back.                                         *)
OneRun ==
    LET runs == {k \in tasks : k.kind = "run"}
    IN  Cardinality(runs) <= 1 /\ (panel.busy # Blank <=> runs # {})

(* What the visitor moves was, when it moved, in the state the panel       *)
(* showed at the click, although others work on the same submission.       *)
MovesWhatIsShown ==
    [][\A k \in tasks : \A l \in tasks' :
        (k.n = l.n /\ k.pc = "move" /\ l.pc = "moved" /\ l.code = "ok")
            => desk[Ours].state = k.seen]_<<desk, tasks>>

=============================================================================
