------------------------ MODULE SubmissionViewsProofs -----------------------
(***************************************************************************)
(* Proofs about SubmissionViews: the tracker, the demo page and the        *)
(* console's page over one server, for any workflow, links, personas,      *)
(* roles and bounds.  The server only ever moves a submission forward      *)
(* (Later), so that what a page has read stays a part of the history or an *)
(* earlier version; the rest is bookkeeping of what each page waits for.   *)
(***************************************************************************)
EXTENDS SubmissionViews, DataInduction, SequenceTheorems, FiniteSetTheorems, TLAPS

(* s is the beginning of t. *)
Begins(s, t) == Len(s) <= Len(t) /\ \A i \in 1..Len(s) : s[i] = t[i]

Tells(history, state) == \E i \in 1..Len(history) : history[i] = state

(* ------------------------------ The server ---------------------------- *)

Well(d) ==
    /\ DOMAIN d = {"state", "fields", "history", "updatedAt"}
    /\ d.state \in StateNames /\ d.history \in Seq(StateNames) /\ d.updatedAt \in Nat
    /\ d.history # << >> /\ d.history[Len(d.history)] = d.state
    /\ d.updatedAt >= Len(d.history)
    /\ DOMAIN d.fields \subseteq Workflow.fields

DeskWell ==
    /\ desk = [s \in Submissions |-> desk[s]]
    /\ \A s \in Submissions : Well(desk[s])

(* A row d may become e. *)
Later(d, e) ==
    /\ Begins(d.history, e.history)
    /\ d.updatedAt <= e.updatedAt
    /\ d.updatedAt = e.updatedAt => d = e

DeskLater == \A s \in Submissions : Later(desk[s], desk'[s])

(* ------------------------------ The tracker --------------------------- *)

Statuses == [id : Submissions, state : StateNames, history : Seq(StateNames)]

PollSet == [run : Nat \ {0}, id : Submissions, right : BOOLEAN,
            row : StateNames \cup {Unread, "not_found"}, history : Seq(StateNames)]

Ended == tracker.error = "not_found" \/ tracker.status.state \in Terminal

Mine == {p \in polls : p.run = tracker.run}

(* What the tracker waits for: nothing any more, its timer, or one poll. *)
Waits ==
    IF tracker.run = 0 THEN ~tracker.timer /\ polls = {} /\ tracker.status = NoStatus /\ tracker.error = "none"
    ELSE \/ Ended /\ ~tracker.timer /\ Mine = {}
         \/ ~Ended /\ tracker.timer /\ Mine = {}
         \/ ~Ended /\ ~tracker.timer /\ \E p \in polls : Mine = {p}

TrackerShape ==
    /\ DOMAIN tracker = {"run", "link", "status", "error", "timer"}
    /\ tracker.run \in Nat /\ tracker.status \in Statuses \cup {NoStatus}
    /\ tracker.error \in {"none", "other", "not_found"} /\ tracker.timer \in BOOLEAN
    /\ tracker.run > 0 => tracker.link \in [id : Submissions, right : BOOLEAN]
    /\ polls \subseteq PollSet

(* What a poll has read, and of what.                                      *)
PollSound(p) ==
    /\ p.run <= tracker.run
    /\ p.row = Unread => p.history = << >>
    /\ p.row = "not_found" => ~p.right /\ p.history = << >>
    /\ p.row \in StateNames => p.right /\ Tells(desk[p.id].history, p.row)
    /\ p.history # << >> => Tells(p.history, p.row) /\ Begins(p.history, desk[p.id].history)
    /\ p.run = tracker.run =>
        /\ p.id = tracker.link.id /\ p.right = tracker.link.right
        /\ p.history # << >> => Begins(tracker.status.history, p.history)

StatusSound ==
    /\ tracker.status # NoStatus =>
        /\ tracker.status.id = tracker.link.id /\ tracker.link.right
        /\ Tells(tracker.status.history, tracker.status.state)
        /\ Begins(tracker.status.history, desk[tracker.link.id].history)
    /\ tracker.error = "not_found" => ~tracker.link.right

TrackerInv == TrackerShape /\ Waits /\ StatusSound /\ \A p \in polls : PollSound(p)

(* ----------------------------- The demo page -------------------------- *)

DetailWell(x) ==
    /\ x.state \in StateNames /\ x.updatedAt \in Nat \ {0}
    /\ DOMAIN x.transitions \subseteq DOMAIN Workflow.transitions

TaskShape(k, n) ==
    /\ DOMAIN k = {"n", "kind", "pc", "persona", "as", "after", "t", "fields", "expected", "seen",
                   "code", "answer"}
    /\ k.n \in 1..n /\ k.kind \in {"load", "run"} /\ k.persona \in DOMAIN Personas
    /\ k.pc = "got" => DetailWell(k.answer)
    /\ k.pc = "move" => k.expected = k.seen /\ k.seen \in StateNames

PanelShape ==
    /\ DOMAIN demo = {"status", "demoMode", "submitted"} /\ demo.submitted \in BOOLEAN
    /\ DOMAIN panel = {"persona", "detail", "values", "busy", "error"}
    /\ panel.persona \in DOMAIN Personas /\ panel.busy \in DOMAIN Workflow.transitions \cup {Blank}
    /\ panel.detail = NoDetail \/ DetailWell(panel.detail)
    /\ DOMAIN did = {"tasks", "runs", "switches", "failures"}
    /\ did.tasks \in Nat /\ did.failures \in Nat
    /\ cookie \in DOMAIN Personas \cup {NoPersona}

DemoShape == PanelShape /\ \A k \in tasks : TaskShape(k, did.tasks)

TasksDistinct == \A k, l \in tasks : k.n = l.n => k = l

(* There is a run exactly while the panel is busy. *)
RunsOnce ==
    /\ \A k, l \in tasks : k.kind = "run" /\ l.kind = "run" => k = l
    /\ panel.busy # Blank <=> \E k \in tasks : k.kind = "run"

(* The tracker of the demo page is mounted by its form, for good. *)
Mounting ==
    /\ opened \in {"status", "demo", "console"}
    /\ opened = "demo" /\ ~demo.submitted => tracker.run = 0
    /\ demo.submitted => opened = "demo" /\ tracker.run > 0 /\ tracker.link = [id |-> Ours, right |-> TRUE]
    /\ tasks # {} => demo.submitted

DemoInv == DemoShape /\ TasksDistinct /\ RunsOnce

(* ---------------------------- The console's page ---------------------- *)

DataWell(x) == x = Nothing \/ (DetailWell(x) /\ DOMAIN x.fields \subseteq Workflow.fields)

(* n: the calls made, mount: the page's, version: the row's. *)
CallShape(c, n, mount, version) ==
    /\ DOMAIN c = {"n", "kind", "mount", "pc", "t", "expected", "seen", "fields", "edited", "code", "stamp"}
    /\ c.n \in 1..n /\ c.mount \in 1..mount /\ c.stamp \in Nat
    /\ c.kind \in {"move", "save"} /\ c.pc \in {"sent", "decided", "refreshing"}
    /\ c.kind = "save" => DOMAIN c.fields \subseteq Workflow.fields \cap c.edited
    /\ c.kind = "save" /\ c.pc = "decided" => c.code = "ok"
    /\ c.kind = "move" => c.expected = c.seen /\ c.seen \in StateNames
    /\ c.pc # "sent" => c.stamp <= version

FetchShape(f) ==
    /\ f.pc \in {"asked", "read"}
    /\ f.pc = "read" => DetailWell(f.answer) /\ DOMAIN f.answer.fields \subseteq Workflow.fields

PageShape ==
    /\ DOMAIN used = {"calls", "focus", "broken"} /\ used.calls \in Nat /\ used.broken \in Nat
    /\ DOMAIN page = {"mount", "data", "failed", "dialog", "notice", "moving", "saving", "values",
                      "edited", "sure"}
    /\ page.mount \in Nat \ {0} /\ page.sure \in Nat
    /\ page.moving \in 0..used.calls /\ page.saving \in 0..used.calls
    /\ DataWell(page.data)

CallShapes == \A c \in calls : CallShape(c, used.calls, page.mount, desk[Viewed].updatedAt)

FetchShapes == fetches = {} \/ \E f \in fetches : fetches = {f} /\ FetchShape(f)

(* Version x of the submission is older than y, or the same. *)
NotAfter(x, y) == x.updatedAt <= y.updatedAt /\ (x.updatedAt = y.updatedAt => x.fields = y.fields)

(* What is shown is older than what was read, and that older than the row. *)
Versions ==
    /\ NotAfter(page.data, desk[Viewed])
    /\ \A f \in fetches : f.pc = "read" =>
        /\ NotAfter(page.data, f.answer) /\ NotAfter(f.answer, desk[Viewed])
        /\ \A c \in Waiting : c.stamp <= f.answer.updatedAt

(* The panel differs from what it was mounted with in what was edited.     *)
Edits ==
    \A k \in Workflow.fields \ page.edited : ValueOf(page.values, k) = ValueOf(page.data.fields, k)

CallsDistinct == \A c, e \in calls : c.n = e.n => c = e

(* What a button waits for is under way. *)
Pending ==
    /\ page.moving # 0 => \E c \in calls : c.n = page.moving /\ c.mount = page.mount /\ c.kind = "move"
    /\ page.saving # 0 => \E c \in calls : c.n = page.saving /\ c.mount = page.mount /\ c.kind = "save"
    /\ Waiting # {} => fetches # {}

Sure == page.sure <= page.data.updatedAt

ConsoleInv ==
    PageShape /\ CallShapes /\ FetchShapes /\ Versions /\ Edits /\ CallsDistinct /\ Pending /\ Sure

Faults == lost \in Nat /\ lost + did.failures + used.broken <= MaxFaults

IInv == DeskWell /\ TrackerInv /\ DemoInv /\ Mounting /\ ConsoleInv /\ Faults

-----------------------------------------------------------------------------
(* Histories *)

LEMMA BeginsItself == ASSUME NEW s \in Seq(StateNames) PROVE Begins(s, s)
BY DEF Begins

LEMMA BeginsOn ==
    ASSUME NEW s \in Seq(StateNames), NEW t \in Seq(StateNames), NEW u \in Seq(StateNames),
           Begins(s, t), Begins(t, u)
    PROVE  Begins(s, u)
BY DEF Begins

LEMMA TellsOn ==
    ASSUME NEW s \in Seq(StateNames), NEW t \in Seq(StateNames), NEW x, Tells(s, x), Begins(s, t)
    PROVE  Tells(t, x)
BY DEF Begins, Tells

LEMMA TellsLast ==
    ASSUME NEW s \in Seq(StateNames), s # << >>
    PROVE  Tells(s, s[Len(s)])
BY DEF Tells

LEMMA EmptyBegins == ASSUME NEW s \in Seq(StateNames) PROVE Begins(<< >>, s)
BY DEF Begins

LEMMA BeginsIsPrefix ==
    ASSUME NEW s \in Seq(StateNames), NEW t \in Seq(StateNames), Begins(s, t)
    PROVE  IsPrefix(s, t)
<1> DEFINE a == SubSeq(s, 1, Len(s))
           b == SubSeq(t, 1, Len(s))
<1>1. Len(s) \in Nat /\ Len(t) \in Nat /\ Len(s) <= Len(t)
  BY DEF Begins
<1>2. \A i \in 1..Len(s) : s[i] \in StateNames /\ t[i] = s[i]
  BY <1>1 DEF Begins
<1>3. a \in Seq(StateNames) /\ Len(a) = Len(s) /\ \A i \in 1..Len(s) : a[i] = s[i]
  BY <1>1, <1>2, SubSeqProperties
<1>4. b \in Seq(StateNames) /\ Len(b) = Len(s) /\ \A i \in 1..Len(s) : b[i] = t[i]
  BY <1>1, <1>2, SubSeqProperties
<1>5. a = b
  <2> HIDE DEF a, b
  <2> QED
    BY <1>2, <1>3, <1>4, SeqEqual
<1> QED
  BY <1>1, <1>5 DEF IsPrefix

-----------------------------------------------------------------------------
(* The server *)

LEMMA SameLater == ASSUME NEW d, Well(d) PROVE Later(d, d)
BY BeginsItself DEF Later, Well

LEMMA MovedWell ==
    ASSUME NEW d, Well(d), NEW roles, NEW t, NEW patch, NEW expected,
           Refusal(Workflow, d.state, d.fields, roles, t, patch, expected) = "ok"
    PROVE  Well(Moved(d, t, patch)) /\ Later(d, Moved(d, t, patch))
<1> DEFINE to == Workflow.transitions[t].to
           e  == Moved(d, t, patch)
<1>1. t \in DOMAIN Workflow.transitions /\ PatchValid(Workflow, patch)
  BY DEF Refusal
<1>2. to \in StateNames
  BY <1>1, DeskAssumption
<1>3. DOMAIN merged(d.fields, patch) \subseteq Workflow.fields
  BY <1>1 DEF merged, PatchValid, SetKeys, Well
<1>4. /\ DOMAIN e = {"state", "fields", "history", "updatedAt"}
      /\ e.state = to /\ e.fields = merged(d.fields, patch)
      /\ e.history = Append(d.history, to) /\ e.updatedAt = d.updatedAt + 1
  BY DEF Moved
<1> HIDE DEF e, to
<1>5. /\ e.history \in Seq(StateNames) /\ e.history # << >> /\ Len(e.history) = Len(d.history) + 1
      /\ e.history[Len(e.history)] = to /\ Begins(d.history, e.history)
  <2>1. d.history \in Seq(StateNames)
    BY DEF Well
  <2> QED
    BY <1>2, <1>4, <2>1, AppendProperties DEF Begins
<1>6. d.updatedAt \in Nat /\ d.updatedAt >= Len(d.history) /\ Len(d.history) \in Nat
  BY DEF Well
<1>7. Well(e)
  BY <1>2, <1>3, <1>4, <1>5, <1>6 DEF Well
<1>8. Later(d, e)
  BY <1>4, <1>5, <1>6 DEF Later
<1> QED
  BY <1>7, <1>8 DEF e

LEMMA EditedWell ==
    ASSUME NEW d, Well(d), NEW patch, DOMAIN patch \subseteq Workflow.fields
    PROVE  Well(Edited(d, patch)) /\ Later(d, Edited(d, patch))
<1>1. CASE ChangedKeys(d.fields, patch) = {}
  BY <1>1, SameLater DEF Edited
<1>2. CASE ChangedKeys(d.fields, patch) # {}
  <2> DEFINE e == [d EXCEPT !.fields = merged(d.fields, patch), !.updatedAt = @ + 1]
  <2>1. /\ DOMAIN e = {"state", "fields", "history", "updatedAt"}
        /\ e.state = d.state /\ e.fields = merged(d.fields, patch)
        /\ e.history = d.history /\ e.updatedAt = d.updatedAt + 1
    BY DEF Well
  <2>2. DOMAIN merged(d.fields, patch) \subseteq Workflow.fields
    <3>1. DOMAIN d.fields \subseteq Workflow.fields
      BY DEF Well
    <3> QED
      BY <3>1 DEF merged, SetKeys
  <2>3. Edited(d, patch) = e
    BY <1>2 DEF Edited
  <2> HIDE DEF e
  <2>4. d.updatedAt \in Nat /\ d.updatedAt >= Len(d.history) /\ Len(d.history) \in Nat
    BY DEF Well
  <2>5. Begins(d.history, e.history)
    BY <2>1, BeginsItself DEF Well
  <2>6. Well(e)
    BY <2>1, <2>2, <2>4 DEF Well
  <2> QED
    BY <2>1, <2>3, <2>4, <2>5, <2>6 DEF Later
<1> QED
  BY <1>1, <1>2

(* One row changes, to a later one. *)
LEMMA RowLater ==
    ASSUME DeskWell, NEW s \in Submissions, NEW e, Well(e), Later(desk[s], e), desk' = [desk EXCEPT ![s] = e]
    PROVE  DeskWell' /\ DeskLater
<1>1. desk' = [x \in Submissions |-> IF x = s THEN e ELSE desk[x]]
  BY DEF DeskWell
<1>2. \A x \in Submissions : desk'[x] = IF x = s THEN e ELSE desk[x]
  BY <1>1
<1>3. DeskWell'
  <2>1. \A x \in Submissions : Well(desk'[x])
    BY <1>2 DEF DeskWell
  <2>2. desk' = [x \in Submissions |-> desk'[x]]
    BY <1>1, <1>2
  <2> QED
    BY <2>1, <2>2 DEF DeskWell
<1>4. DeskLater
  BY <1>2, SameLater DEF DeskWell, DeskLater
<1> QED
  BY <1>3, <1>4

LEMMA SameDesk == ASSUME DeskWell, UNCHANGED desk PROVE DeskWell' /\ DeskLater
BY SameLater DEF DeskWell, DeskLater

LEMMA OthersLater == ASSUME DeskWell, OthersAct PROVE DeskWell' /\ DeskLater
<1>1. CASE OtherMoves
  <2>1. PICK s \in Submissions, t \in DOMAIN Workflow.transitions :
           \E patch \in [Workflow.transitions[t].requireFields -> Values] :
             /\ Refusal(Workflow, desk[s].state, desk[s].fields, OtherRoles, t, patch, Blank) = "ok"
             /\ desk' = [desk EXCEPT ![s] = Moved(@, t, patch)]
    BY <1>1 DEF OtherMoves
  <2>2. PICK patch :
             /\ Refusal(Workflow, desk[s].state, desk[s].fields, OtherRoles, t, patch, Blank) = "ok"
             /\ desk' = [desk EXCEPT ![s] = Moved(desk[s], t, patch)]
    BY <2>1
  <2>3. Well(desk[s])
    BY DEF DeskWell
  <2>4. Well(Moved(desk[s], t, patch)) /\ Later(desk[s], Moved(desk[s], t, patch))
    BY <2>2, <2>3, MovedWell
  <2> QED
    BY <2>2, <2>4, RowLater
<1>2. CASE OtherEdits
  <2>1. PICK s \in Submissions, k \in Workflow.fields, v \in Values :
             desk' = [desk EXCEPT ![s] = Edited(@, [x \in {k} |-> v])]
    BY <1>2 DEF OtherEdits
  <2>2. Well(desk[s])
    BY DEF DeskWell
  <2>3. DOMAIN [x \in {k} |-> v] \subseteq Workflow.fields
    OBVIOUS
  <2>4. Well(Edited(desk[s], [x \in {k} |-> v])) /\ Later(desk[s], Edited(desk[s], [x \in {k} |-> v]))
    BY <2>2, <2>3, EditedWell
  <2>5. desk' = [desk EXCEPT ![s] = Edited(desk[s], [x \in {k} |-> v])]
    BY <2>1
  <2> QED
    BY <2>4, <2>5, RowLater
<1> QED
  BY <1>1, <1>2 DEF OthersAct

-----------------------------------------------------------------------------
(* The tracker *)

LEMMA NoSuchStates ==
    /\ Blank \notin StateNames /\ "none" \notin StateNames
    /\ Unread \notin StateNames /\ "not_found" \notin StateNames
    /\ "none" \notin Terminal
BY DeskAssumption, LinksAssumption DEF Unread

(* What the others and the pages do to the row only adds to what was read. *)
LEMMA TrackerSame ==
    ASSUME TrackerInv, DeskWell, DeskWell', DeskLater, UNCHANGED <<tracker, polls>>
    PROVE  TrackerInv'
<1>1. \A s \in Submissions : /\ Begins(desk[s].history, desk'[s].history)
                           /\ desk[s].history \in Seq(StateNames)
                           /\ desk'[s].history \in Seq(StateNames)
  BY DEF DeskLater, Later, DeskWell, Well
<1>2. TrackerShape' /\ Waits'
  BY DEF TrackerInv, TrackerShape, Waits, Mine, Ended
<1>3. StatusSound'
  <2>1. CASE tracker.status = NoStatus
    BY <2>1 DEF TrackerInv, StatusSound
  <2>2. CASE tracker.status # NoStatus
    <3>1. tracker.status \in Statuses /\ tracker.link.id \in Submissions
      BY <2>2 DEF TrackerInv, TrackerShape, StatusSound, Statuses
    <3>2. Begins(tracker.status.history, desk'[tracker.link.id].history)
      BY <1>1, <2>2, <3>1, BeginsOn DEF TrackerInv, StatusSound, Statuses
    <3> QED
      BY <3>2 DEF TrackerInv, StatusSound
  <2> QED
    BY <2>1, <2>2
<1>4. ASSUME NEW p \in polls PROVE PollSound(p)'
  <2>1. PollSound(p) /\ p \in PollSet
    BY DEF TrackerInv, TrackerShape
  <2>2. p.id \in Submissions /\ p.history \in Seq(StateNames)
    BY <2>1 DEF PollSet
  <2>3. Tells(desk[p.id].history, p.row) => Tells(desk'[p.id].history, p.row)
    BY <1>1, <2>2, TellsOn
  <2>4. Begins(p.history, desk[p.id].history) => Begins(p.history, desk'[p.id].history)
    BY <1>1, <2>2, BeginsOn
  <2> QED
    BY <2>1, <2>3, <2>4 DEF PollSound
<1> QED
  BY <1>2, <1>3, <1>4 DEF TrackerInv

(* A run of the effect begins, and asks once. *)
LEMMA EffectInv ==
    ASSUME TrackerInv, DeskWell, UNCHANGED desk, NEW n \in Nat, n > tracker.run,
           NEW link \in [id : Submissions, right : BOOLEAN], effect(n, link)
    PROVE  TrackerInv' /\ tracker'.run = n /\ tracker'.link = link /\ tracker'.status = NoStatus
<1> DEFINE q == Poll(n, link)
<1>1. /\ tracker' = [run |-> n, link |-> link, status |-> NoStatus, error |-> "none", timer |-> FALSE]
      /\ polls' = polls \cup {q}
  BY DEF effect
<1>2. tracker.run \in Nat /\ n > 0
  BY DEF TrackerInv, TrackerShape
<1>3. /\ q.run = n /\ q.id = link.id /\ q.right = link.right /\ q.row = Unread /\ q.history = << >>
      /\ q \in PollSet
  BY <1>2 DEF Poll, PollSet
<1>4. TrackerShape'
  BY <1>1, <1>2, <1>3 DEF TrackerInv, TrackerShape
<1>5. \A p \in polls : p.run < n
  BY <1>2 DEF TrackerInv, TrackerShape, PollSound, PollSet
<1>6. Mine' = {q}
  BY <1>1, <1>3, <1>5 DEF Mine
<1>7. Waits'
  <2>1. /\ tracker'.run # 0 /\ ~tracker'.timer /\ tracker'.error # "not_found"
        /\ tracker'.status.state = "none" /\ q \in polls'
    BY <1>1, <1>2 DEF NoStatus
  <2>2. ~Ended'
    BY <2>1, NoSuchStates DEF Ended
  <2> QED
    BY <1>6, <2>1, <2>2 DEF Waits
<1>8. StatusSound'
  BY <1>1 DEF StatusSound
<1>9. \A p \in polls : PollSound(p)'
  BY <1>1, <1>2, <1>5 DEF TrackerInv, PollSound, TrackerShape, PollSet
<1>10. PollSound(q)'
  <2>1. tracker'.run = n /\ tracker'.link = link /\ "unread" \notin StateNames
    BY <1>1, NoSuchStates DEF Unread
  <2> HIDE DEF q
  <2> QED
    BY <1>3, <2>1 DEF PollSound, Unread
<1> QED
  BY <1>1, <1>4, <1>7, <1>8, <1>9, <1>10 DEF TrackerInv

(* A poll reads more. *)
LEMMA ReadInv ==
    ASSUME TrackerInv, UNCHANGED <<desk, tracker>>, NEW p \in polls, NEW q \in PollSet,
           q.run = p.run, PollSound(q), polls' = (polls \ {p}) \cup {q}
    PROVE  TrackerInv'
<1>1. TrackerShape' /\ StatusSound' /\ \A r \in polls' : PollSound(r)'
  BY DEF TrackerInv, TrackerShape, StatusSound, PollSound
<1>2. Ended' = Ended
  BY DEF Ended
<1>3. CASE p.run = tracker.run
  <2>1. p \in Mine /\ Mine' = (Mine \ {p}) \cup {q}
    BY <1>3 DEF Mine
  <2>2. tracker.run # 0
    BY DEF TrackerInv, Waits
  <2>3. Mine = {p} /\ ~Ended /\ ~tracker.timer
    BY <2>1, <2>2 DEF TrackerInv, Waits
  <2> QED
    BY <1>1, <1>2, <2>1, <2>2, <2>3 DEF TrackerInv, Waits
<1>4. CASE p.run # tracker.run
  <2>1. Mine' = Mine
    BY <1>4 DEF Mine
  <2>2. tracker.run # 0
    BY DEF TrackerInv, Waits
  <2>3. \A r \in polls : Mine = {r} => r \in polls'
    BY <1>4 DEF Mine
  <2> QED
    BY <1>1, <1>2, <2>1, <2>2, <2>3 DEF TrackerInv, Waits
<1> QED
  BY <1>3, <1>4

LEMMA ReadRowInv == ASSUME TrackerInv, DeskWell, readRow, UNCHANGED desk PROVE TrackerInv'
<1>1. PICK p \in polls :
        /\ p.row = Unread
        /\ polls' = (polls \ {p}) \cup {[p EXCEPT !.row = IF p.right THEN desk[p.id].state ELSE "not_found"]}
  BY DEF readRow
<1> DEFINE q == [p EXCEPT !.row = IF p.right THEN desk[p.id].state ELSE "not_found"]
<1>2. p \in PollSet /\ PollSound(p) /\ Well(desk[p.id])
  BY DEF TrackerInv, TrackerShape, PollSet, DeskWell
<1>3. desk[p.id].state \in StateNames /\ Tells(desk[p.id].history, desk[p.id].state)
  BY <1>2, TellsLast DEF Well
<1>4. /\ q \in PollSet /\ q.run = p.run /\ q.id = p.id /\ q.right = p.right /\ q.history = p.history
      /\ q.row = IF p.right THEN desk[p.id].state ELSE "not_found"
  BY <1>2, <1>3 DEF PollSet
<1>5. p.history = << >>
  BY <1>1, <1>2 DEF PollSound
<1>6. PollSound(q)
  <2> HIDE DEF q
  <2> QED
    BY <1>2, <1>3, <1>4, <1>5, NoSuchStates DEF PollSound
<1> QED
  BY <1>1, <1>4, <1>6, ReadInv DEF readRow

LEMMA ReadHistoryInv == ASSUME TrackerInv, DeskWell, readHistory, UNCHANGED desk PROVE TrackerInv'
<1>1. PICK p \in polls :
        /\ p.row # Unread /\ ~HasRead(p)
        /\ polls' = (polls \ {p}) \cup {[p EXCEPT !.history = desk[p.id].history]}
  BY DEF readHistory
<1> DEFINE q == [p EXCEPT !.history = desk[p.id].history]
<1>2. p \in PollSet /\ PollSound(p) /\ Well(desk[p.id])
  BY DEF TrackerInv, TrackerShape, PollSet, DeskWell
<1>3. p.row \in StateNames
  BY <1>1, <1>2 DEF PollSet, HasRead
<1>4. /\ q \in PollSet /\ q.run = p.run /\ q.id = p.id /\ q.right = p.right /\ q.row = p.row
      /\ q.history = desk[p.id].history
  BY <1>2 DEF PollSet, Well
<1>5. p.right /\ Tells(desk[p.id].history, p.row) /\ Begins(desk[p.id].history, desk[p.id].history)
  BY <1>2, <1>3, BeginsItself DEF PollSound, Well
<1>6. p.run = tracker.run => Begins(tracker.status.history, desk[p.id].history)
  <2>1. CASE tracker.status = NoStatus
    BY <1>2, <2>1, EmptyBegins DEF NoStatus, Well
  <2>2. CASE tracker.status # NoStatus
    BY <1>2, <2>2 DEF TrackerInv, StatusSound, PollSound
  <2> QED
    BY <2>1, <2>2
<1>7. PollSound(q)
  <2> HIDE DEF q
  <2> QED
    BY <1>2, <1>3, <1>4, <1>5, <1>6, NoSuchStates DEF PollSound
<1> QED
  BY <1>1, <1>4, <1>7, ReadInv DEF readHistory

(* What the respondent saw goes on, unless another run began. *)
Forward == tracker'.run = tracker.run => Begins(tracker.status.history, tracker'.status.history)

LEMMA StatusForward ==
    ASSUME TrackerInv, tracker'.status = tracker.status
    PROVE  Forward
<1>1. << >> \in Seq(StateNames)
  OBVIOUS
<1>2. tracker.status.history \in Seq(StateNames)
  <2>1. CASE tracker.status = NoStatus
    BY <1>1, <2>1 DEF NoStatus
  <2>2. CASE tracker.status \in Statuses
    BY <2>2 DEF Statuses
  <2> QED
    BY <2>1, <2>2 DEF TrackerInv, TrackerShape
<1> QED
  BY <1>2, BeginsItself DEF Forward

(* A poll ends, and the tracker is t from now on. *)
LEMMA PollEnds ==
    ASSUME TrackerInv, UNCHANGED desk, NEW p \in polls, polls' = polls \ {p}, tracker'.run = tracker.run,
           tracker'.link = tracker.link,
           p.run # tracker.run => tracker' = tracker,
           TrackerShape', StatusSound',
           p.run = tracker.run => (Ended' <=> ~tracker'.timer)
    PROVE  TrackerInv'
<1>1. CASE p.run = tracker.run
  <2>1. tracker.run # 0 /\ p \in Mine
    BY <1>1 DEF TrackerInv, Waits, Mine
  <2>2. Mine = {p}
    BY <2>1 DEF TrackerInv, Waits
  <2>3. Mine' = {} /\ \A r \in polls' : r.run # tracker.run
    BY <2>2 DEF Mine
  <2>4. Waits'
    BY <1>1, <2>1, <2>3 DEF Waits, TrackerShape
  <2>5. \A r \in polls' : PollSound(r)'
    BY <2>3 DEF TrackerInv, PollSound
  <2> QED
    BY <2>4, <2>5 DEF TrackerInv
<1>2. CASE p.run # tracker.run
  <2>1. Mine' = Mine /\ tracker' = tracker /\ Ended' = Ended
    BY <1>2 DEF Mine, Ended
  <2>2. tracker.run # 0 /\ \A r \in polls : Mine = {r} => r \in polls'
    BY <1>2 DEF TrackerInv, Waits, Mine
  <2>3. Waits'
    BY <2>1, <2>2 DEF TrackerInv, Waits
  <2>4. \A r \in polls' : PollSound(r)'
    BY <2>1 DEF TrackerInv, PollSound
  <2> QED
    BY <2>3, <2>4 DEF TrackerInv
<1> QED
  BY <1>1, <1>2

LEMMA AnswersInv == ASSUME TrackerInv, DeskWell, answers, UNCHANGED desk PROVE TrackerInv' /\ Forward
<1>1. PICK p \in polls :
        /\ HasRead(p) /\ polls' = polls \ {p}
        /\ tracker' =
              IF ~Current(p) THEN tracker
              ELSE IF p.row = "not_found" THEN [tracker EXCEPT !.error = "not_found"]
              ELSE [tracker EXCEPT !.status = Status(p), !.error = "none", !.timer = GoesOn(p.row)]
  BY DEF answers
<1>2. p \in PollSet /\ PollSound(p)
  BY DEF TrackerInv, TrackerShape
<1>3. p.row \in StateNames \cup {"not_found"} /\ (p.row # "not_found" => p.history # << >>)
  BY <1>1, <1>2, NoSuchStates DEF HasRead, PollSet, PollSound
<1>4. p.run = tracker.run => tracker.run # 0 /\ Mine = {p} /\ ~Ended /\ ~tracker.timer
  BY DEF TrackerInv, Waits, Mine
<1>5. CASE ~Current(p)
  <2>1. tracker' = tracker /\ p.run # tracker.run
    BY <1>1, <1>5 DEF Current
  <2>2. TrackerShape' /\ StatusSound'
    BY <1>1, <2>1 DEF TrackerInv, TrackerShape, StatusSound
  <2> QED
    BY <1>1, <2>1, <2>2, PollEnds, StatusForward
<1>6. CASE Current(p) /\ p.row = "not_found"
  <2>1. p.run = tracker.run /\ ~tracker.link.right /\ tracker.status = NoStatus
    BY <1>2, <1>6 DEF Current, PollSound, TrackerInv, StatusSound
  <2>2. /\ DOMAIN tracker' = DOMAIN tracker /\ tracker'.run = tracker.run /\ tracker'.link = tracker.link
        /\ tracker'.status = tracker.status /\ tracker'.timer = tracker.timer /\ tracker'.error = "not_found"
    BY <1>1, <1>6 DEF TrackerInv, TrackerShape
  <2>3. TrackerShape' /\ StatusSound'
    BY <1>1, <2>1, <2>2 DEF TrackerInv, TrackerShape, StatusSound
  <2>4. (Ended' <=> ~tracker'.timer)
    BY <1>4, <2>1, <2>2 DEF Ended
  <2> QED
    BY <1>1, <2>1, <2>2, <2>3, <2>4, PollEnds, StatusForward
<1>7. CASE Current(p) /\ p.row # "not_found"
  <2>1. p.run = tracker.run /\ p.row \in StateNames /\ p.history # << >>
    BY <1>3, <1>7 DEF Current
  <2>2. /\ DOMAIN tracker' = DOMAIN tracker /\ tracker'.run = tracker.run /\ tracker'.link = tracker.link
        /\ tracker'.status = Status(p) /\ tracker'.error = "none" /\ tracker'.timer = GoesOn(p.row)
    BY <1>1, <1>7 DEF TrackerInv, TrackerShape
  <2>3. /\ Status(p) \in Statuses /\ Status(p).id = p.id /\ Status(p).state = p.row
        /\ Status(p).history = p.history
    BY <1>2, <2>1 DEF Status, Statuses, PollSet
  <2>4. /\ p.id = tracker.link.id /\ tracker.link.right /\ Tells(p.history, p.row)
        /\ Begins(p.history, desk[p.id].history) /\ Begins(tracker.status.history, p.history)
    BY <1>2, <2>1 DEF PollSound
  <2>5. GoesOn(p.row) \in BOOLEAN /\ (GoesOn(p.row) <=> p.row \notin Terminal)
    BY DEF GoesOn
  <2>6. TrackerShape'
    BY <1>1, <2>2, <2>3, <2>5 DEF TrackerInv, TrackerShape
  <2>7. StatusSound'
    BY <2>2, <2>3, <2>4 DEF StatusSound
  <2>8. (Ended' <=> ~tracker'.timer)
    BY <2>2, <2>3, <2>5 DEF Ended
  <2>9. Forward
    BY <2>2, <2>3, <2>4 DEF Forward
  <2> QED
    BY <1>1, <2>1, <2>2, <2>6, <2>7, <2>8, <2>9, PollEnds
<1> QED
  BY <1>5, <1>6, <1>7

LEMMA FailsInv == ASSUME TrackerInv, fails, UNCHANGED desk PROVE TrackerInv' /\ Forward
<1>1. PICK p \in polls :
        /\ polls' = polls \ {p}
        /\ tracker' = IF Current(p) THEN [tracker EXCEPT !.error = "other", !.timer = TRUE] ELSE tracker
  BY DEF fails, Retries
<1>2. p.run = tracker.run => ~Ended
  BY DEF TrackerInv, Waits, Mine
<1>3. CASE p.run # tracker.run
  <2>1. tracker' = tracker
    BY <1>1, <1>3 DEF Current
  <2>2. TrackerShape' /\ StatusSound'
    BY <1>1, <2>1 DEF TrackerInv, TrackerShape, StatusSound
  <2> QED
    BY <1>1, <1>3, <2>1, <2>2, PollEnds, StatusForward
<1>4. CASE p.run = tracker.run
  <2>1. /\ DOMAIN tracker' = DOMAIN tracker /\ tracker'.run = tracker.run /\ tracker'.link = tracker.link
        /\ tracker'.status = tracker.status /\ tracker'.error = "other" /\ tracker'.timer = TRUE
    BY <1>1, <1>4 DEF Current, TrackerInv, TrackerShape
  <2>2. TrackerShape' /\ StatusSound'
    BY <1>1, <2>1 DEF TrackerInv, TrackerShape, StatusSound
  <2>3. (Ended' <=> ~tracker'.timer)
    BY <1>2, <1>4, <2>1 DEF Ended
  <2> QED
    BY <1>1, <1>4, <2>1, <2>2, <2>3, PollEnds, StatusForward
<1> QED
  BY <1>3, <1>4

LEMMA TickInv == ASSUME TrackerInv, DeskWell, tick, UNCHANGED desk PROVE TrackerInv' /\ Forward
<1>0. PICK q : q = Poll(tracker.run, tracker.link)
  OBVIOUS
<1>1. tracker.timer /\ tracker' = [tracker EXCEPT !.timer = FALSE] /\ polls' = polls \cup {q}
  BY <1>0 DEF tick, Fired
<1>2. tracker.run # 0 /\ ~Ended /\ Mine = {}
  BY <1>1 DEF TrackerInv, Waits
<1>3. /\ DOMAIN tracker' = DOMAIN tracker /\ tracker'.run = tracker.run /\ tracker'.link = tracker.link
      /\ tracker'.status = tracker.status /\ tracker'.error = tracker.error /\ tracker'.timer = FALSE
  BY <1>1 DEF TrackerInv, TrackerShape
<1>4. tracker.run \in Nat \ {0} /\ tracker.link \in [id : Submissions, right : BOOLEAN]
  BY <1>2 DEF TrackerInv, TrackerShape
<1>5. /\ q.run = tracker.run /\ q.id = tracker.link.id /\ q.right = tracker.link.right
      /\ q.row = Unread /\ q.history = << >> /\ q \in PollSet
  BY <1>0, <1>4 DEF Poll, PollSet
<1>6. TrackerShape' /\ StatusSound'
  BY <1>1, <1>3, <1>5 DEF TrackerInv, TrackerShape, StatusSound
<1>7. Mine' = {q}
  BY <1>1, <1>2, <1>3, <1>5 DEF Mine
<1>8. Waits'
  <2>1. ~Ended' /\ q \in polls' /\ ~tracker'.timer /\ tracker'.run # 0
    BY <1>1, <1>2, <1>3 DEF Ended
  <2> QED
    BY <1>7, <2>1 DEF Waits
<1>9. \A p \in polls : PollSound(p)'
  BY <1>3 DEF TrackerInv, PollSound
<1>10. PollSound(q)'
  <2>1. q.run <= tracker'.run /\ q.row = Unread /\ q.history = << >>
    BY <1>3, <1>4, <1>5
  <2>2. q.id = tracker'.link.id /\ q.right = tracker'.link.right
    BY <1>3, <1>5
  <2>3. Unread \notin StateNames /\ Unread # "not_found"
    BY NoSuchStates DEF Unread
  <2> QED
    BY <2>1, <2>2, <2>3 DEF PollSound
<1> QED
  BY <1>1, <1>3, <1>6, <1>8, <1>9, <1>10, StatusForward DEF TrackerInv

LEMMA TrackerStepInv ==
    ASSUME TrackerInv, DeskWell, TrackerStep \/ changeLink, UNCHANGED desk
    PROVE  TrackerInv' /\ Forward
<1>1. CASE readRow
  BY <1>1, ReadRowInv, StatusForward DEF readRow
<1>2. CASE readHistory
  BY <1>2, ReadHistoryInv, StatusForward DEF readHistory
<1>3. CASE answers
  BY <1>3, AnswersInv
<1>4. CASE fails
  BY <1>4, FailsInv
<1>5. CASE tick
  BY <1>5, TickInv
<1>6. CASE changeLink
  <2>1. PICK l \in Links : effect(tracker.run + 1, l)
    BY <1>6 DEF changeLink
  <2>2. l \in [id : Submissions, right : BOOLEAN] /\ tracker.run + 1 \in Nat /\ tracker.run + 1 > tracker.run
        /\ tracker.run + 1 # tracker.run
    BY LinksAssumption DEF TrackerInv, TrackerShape
  <2> QED
    BY <2>1, <2>2, EffectInv DEF Forward
<1> QED
  BY <1>1, <1>2, <1>3, <1>4, <1>5, <1>6 DEF TrackerStep

-----------------------------------------------------------------------------
(* What the tracker shows *)

(* What is rendered of a status: one chain of steps, told by its history.  *)
LEMMA StoryOf ==
    ASSUME NEW status \in Statuses, Tells(status.history, status.state)
    PROVE  LET steps == visibleSteps(status)
           IN  /\ Cardinality({i \in DOMAIN steps : mark(status, steps[i]) = "current"}) = 1
               /\ IsInjective(steps)
               /\ Contains(status.history, status.state)
               /\ \A i \in DOMAIN status.history :
                     status.history[i] \notin Terminal =>
                         Contains(steps, status.history[i]) /\ mark(status, status.history[i]) # "ahead"
<1>1. PICK S : S = (StateNames \ Terminal) \cup {status.state}
  OBVIOUS
<1>2. PICK k : k = Kept(Workflow.states, S)
  OBVIOUS
<1>3. Workflow.states \in Seq(StateNames) /\ IsInjective(Workflow.states)
  BY DeskAssumption
<1>4. Sifts(k, Workflow.states, S, Len(Workflow.states), StateNames)
  BY <1>2, <1>3, KeptElements
<1>5. status.state \in StateNames /\ status.history \in Seq(StateNames)
  BY DEF Statuses
<1>6. \A x \in S : \E i \in 1..Len(k) : k[i] = x
  <2> SUFFICES ASSUME NEW x \in S PROVE \E i \in 1..Len(k) : k[i] = x
    OBVIOUS
  <2>1. x \in StateNames
    BY <1>1, <1>5
  <2>2. PICK j \in 1..Len(Workflow.states) : Workflow.states[j] = x
    BY <1>3, <2>1 DEF StateNames
  <2> QED
    BY <1>4, <2>2 DEF Sifts
<1>7. k \in Seq(StateNames) /\ \A i, j \in 1..Len(k) : k[i] = k[j] => i = j
  BY <1>4 DEF Sifts
<1>8. \A x \in S : Contains(k, x)
  BY <1>6 DEF Contains
<1>9. visibleSteps(status) = k
  BY <1>1, <1>2, <1>8 DEF visibleSteps
<1>10. PICK m \in 1..Len(k) : k[m] = status.state
  BY <1>1, <1>6
<1>11. {i \in DOMAIN k : mark(status, k[i]) = "current"} = {m}
  <2>1. DOMAIN k = 1..Len(k)
    BY <1>7
  <2>2. \A x : mark(status, x) = "current" <=> x = status.state
    BY DEF mark
  <2> QED
    BY <1>7, <1>10, <2>1, <2>2
<1>12. Cardinality({m}) = 1
  BY FS_Singleton
<1>13. IsInjective(k)
  BY <1>7 DEF IsInjective
<1>14. Contains(status.history, status.state)
  BY DEF Contains, Tells
<1>15. ASSUME NEW i \in DOMAIN status.history, status.history[i] \notin Terminal
       PROVE  Contains(k, status.history[i]) /\ mark(status, status.history[i]) # "ahead"
  <2>1. status.history[i] \in StateNames /\ i \in 1..Len(status.history)
    BY <1>5
  <2>2. status.history[i] \in S
    BY <1>1, <1>15, <2>1
  <2>3. Contains(status.history, status.history[i])
    BY <2>1 DEF Contains
  <2> QED
    BY <1>8, <2>2, <2>3 DEF mark
<1> QED
  BY <1>9, <1>11, <1>12, <1>13, <1>14, <1>15

LEMMA TrackerInvSound == ASSUME TrackerInv PROVE TrackerSound
<1>1. ShowsLinked
  BY DEF TrackerInv, StatusSound, ShowsLinked
<1>2. OnePoll
  <2> SUFFICES ASSUME tracker.run > 0
               PROVE  Cardinality(Mine) + (IF tracker.timer THEN 1 ELSE 0) = (IF Ended THEN 0 ELSE 1)
    BY DEF OnePoll, Mine, Ended
  <2>1. tracker.run # 0
    BY DEF TrackerInv, TrackerShape
  <2>2. Mine = {} => Cardinality(Mine) = 0
    BY FS_EmptySet
  <2>3. \A p : Mine = {p} => Cardinality(Mine) = 1
    BY FS_Singleton
  <2> QED
    BY <2>1, <2>2, <2>3 DEF TrackerInv, Waits
<1>3. OneStory
  <2> SUFFICES ASSUME View = "status" PROVE OneStory
    BY DEF OneStory
  <2>1. tracker.status # NoStatus
    BY DEF View
  <2>2. tracker.status \in Statuses /\ Tells(tracker.status.history, tracker.status.state)
    BY <2>1 DEF TrackerInv, TrackerShape, StatusSound
  <2> QED
    BY <2>2, StoryOf DEF OneStory
<1> QED
  BY <1>1, <1>2, <1>3 DEF TrackerSound

LEMMA ShownHistory == ASSUME NEW c \in Statuses \cup {NoStatus} PROVE c.history \in Seq(StateNames)
<1>1. << >> \in Seq(StateNames)
  OBVIOUS
<1>2. CASE c = NoStatus
  BY <1>1, <1>2 DEF NoStatus
<1>3. CASE c \in Statuses
  BY <1>3 DEF Statuses
<1> QED
  BY <1>2, <1>3

(* The history that is shown grows at its end.                             *)
LEMMA ForwardShown ==
    ASSUME TrackerInv, TrackerInv', Forward, tracker'.run = tracker.run
    PROVE  IsPrefix(tracker.status.history, tracker'.status.history)
<1>1. tracker.status.history \in Seq(StateNames) /\ tracker'.status.history \in Seq(StateNames)
  BY ShownHistory DEF TrackerInv, TrackerShape
<1> QED
  BY <1>1, BeginsIsPrefix DEF Forward

-----------------------------------------------------------------------------
(* The demo page *)

LEMMA AvailableWell ==
    ASSUME DeskWell, NEW s \in Submissions, NEW roles
    PROVE  /\ DetailWell(Detail(s, roles)) /\ DOMAIN Detail(s, roles).fields \subseteq Workflow.fields
           /\ Detail(s, roles).updatedAt = desk[s].updatedAt /\ Detail(s, roles).fields = desk[s].fields
           /\ Detail(s, roles) # NoDetail /\ Detail(s, roles) # Nothing
<1>1. Well(desk[s])
  BY DEF DeskWell
<1>2. desk[s].updatedAt \in Nat \ {0} /\ desk[s].state \in StateNames
  BY <1>1 DEF Well
<1>3. DOMAIN available(desk[s].state, roles) \subseteq DOMAIN Workflow.transitions
  BY DEF available
<1> QED
  BY <1>1, <1>2, <1>3 DEF Detail, DetailWell, NoDetail, Nothing, Well

(* A transition that names a state is applied to it only.                  *)
LEMMA ExpectedIs ==
    ASSUME NEW wf, NEW state, NEW fields, NEW roles, NEW t, NEW patch, NEW expected \in StateNames,
           Refusal(wf, state, fields, roles, t, patch, expected) = "ok"
    PROVE  state = expected
<1>1. expected \in {Blank, state}
  BY Zenon DEF Refusal, Blank
<1>2. expected # Blank
  BY NoSuchStates
<1> QED
  BY <1>1, <1>2

LEMMA TaskKept ==
    ASSUME NEW k, NEW m \in Nat, NEW n \in Nat, m <= n, TaskShape(k, m)
    PROVE  TaskShape(k, n)
<1>1. k.n \in 1..n
  BY DEF TaskShape
<1> QED
  BY <1>1 DEF TaskShape

LEMMA TasksKept ==
    ASSUME DemoInv, did'.tasks \in Nat, did.tasks <= did'.tasks
    PROVE  \A k \in tasks : TaskShape(k, did'.tasks)
BY TaskKept DEF DemoInv, DemoShape, PanelShape

(* A call begins: a load(), or a run() of a panel that was not busy.       *)
LEMMA TaskBegins ==
    ASSUME DemoInv, PanelShape', NEW l, l.n = did.tasks + 1, did'.tasks = did.tasks + 1, TaskShape(l, did'.tasks),
           tasks' = tasks \cup {l},
           \/ l.kind = "load" /\ panel'.busy = panel.busy
           \/ l.kind = "run" /\ panel.busy = Blank /\ panel'.busy # Blank
    PROVE  DemoInv'
<1>1. did.tasks \in Nat /\ did'.tasks \in Nat /\ did.tasks <= did'.tasks
  BY DEF DemoInv, DemoShape, PanelShape
<1>2. DemoShape'
  BY <1>1, TasksKept DEF DemoShape
<1>3. \A k \in tasks : k.n # l.n
  BY <1>1 DEF DemoInv, DemoShape, TaskShape
<1>4. TasksDistinct'
  BY <1>3 DEF DemoInv, TasksDistinct
<1>5. RunsOnce'
  BY DEF DemoInv, RunsOnce
<1> QED
  BY <1>2, <1>4, <1>5 DEF DemoInv

(* A call goes on.                                                         *)
LEMMA TaskGoesOn ==
    ASSUME DemoInv, PanelShape', NEW k \in tasks, NEW l, l.n = k.n, l.kind = k.kind,
           did'.tasks = did.tasks, TaskShape(l, did'.tasks), Becomes(k, l), panel'.busy = panel.busy
    PROVE  DemoInv'
<1>1. tasks' = (tasks \ {k}) \cup {l}
  BY DEF Becomes
<1>2. DemoShape'
  BY <1>1, TasksKept DEF DemoInv, DemoShape, PanelShape
<1>3. TasksDistinct'
  BY <1>1 DEF DemoInv, TasksDistinct
<1>4. (\E x \in tasks : x.kind = "run") <=> (\E x \in tasks' : x.kind = "run")
  BY <1>1
<1>5. RunsOnce'
  BY <1>1, <1>4 DEF DemoInv, RunsOnce
<1> QED
  BY <1>2, <1>3, <1>5 DEF DemoInv

(* A call ends, and a run's end frees the panel.                           *)
LEMMA TaskEnds ==
    ASSUME DemoInv, PanelShape', NEW k \in tasks, did'.tasks = did.tasks, tasks' = tasks \ {k},
           panel'.busy = IF k.kind = "run" THEN Blank ELSE panel.busy
    PROVE  DemoInv'
<1>1. DemoShape'
  BY TasksKept DEF DemoInv, DemoShape, PanelShape
<1>2. TasksDistinct'
  BY DEF DemoInv, TasksDistinct
<1>3. RunsOnce'
  BY DEF DemoInv, RunsOnce
<1> QED
  BY <1>1, <1>2, <1>3 DEF DemoInv

LEMMA PanelSame ==
    ASSUME DemoInv, UNCHANGED demoVars
    PROVE  DemoInv'
BY DEF DemoInv, DemoShape, PanelShape, TasksDistinct, RunsOnce, demoVars

LEMMA ConfiguredInv == ASSUME DemoInv, configured PROVE DemoInv' /\ demo'.submitted = demo.submitted
<1>1. /\ DOMAIN demo' = DOMAIN demo /\ demo'.submitted = demo.submitted
      /\ UNCHANGED <<panel, cookie, tasks, did>>
  BY DEF configured, DemoInv, DemoShape, PanelShape
<1> QED
  BY <1>1 DEF DemoInv, DemoShape, PanelShape, TasksDistinct, RunsOnce

LEMMA NewTaskShape ==
    ASSUME DemoInv, NEW kind \in {"load", "run"}, NEW after, NEW persona \in DOMAIN Personas,
           NEW m, m = did.tasks + 1
    PROVE  /\ TaskShape(NewTask(kind, after, persona), m)
           /\ NewTask(kind, after, persona).n = did.tasks + 1
           /\ NewTask(kind, after, persona).kind = kind
<1>1. did.tasks \in Nat
  BY DEF DemoInv, DemoShape, PanelShape
<1>2. PICK l : l = NewTask(kind, after, persona)
  OBVIOUS
<1>3. /\ DOMAIN l = {"n", "kind", "pc", "persona", "as", "after", "t", "fields", "expected", "seen",
                   "code", "answer"}
      /\ l.n = did.tasks + 1 /\ l.kind = kind /\ l.pc = "login" /\ l.persona = persona
  BY <1>2 DEF NewTask
<1>4. TaskShape(l, m)
  BY <1>1, <1>3 DEF TaskShape
<1> QED
  BY <1>2, <1>3, <1>4

LEMMA SubmittedInv ==
    ASSUME DemoInv, Mounting, TrackerInv, DeskWell, opened = "demo", submitted, UNCHANGED <<desk, opened>>
    PROVE  DemoInv' /\ Mounting' /\ TrackerInv' /\ Forward
<1>1. /\ ~demo.submitted /\ tracker.run = 0 /\ tasks = {} /\ UNCHANGED <<panel, cookie, lost>>
      /\ effect(1, [id |-> Ours, right |-> TRUE])
  BY DEF submitted, Mounting
<1>2. [id |-> Ours, right |-> TRUE] \in [id : Submissions, right : BOOLEAN] /\ 1 \in Nat /\ 1 > tracker.run
  BY <1>1, DemoAssumption
<1>3. TrackerInv' /\ tracker'.run = 1 /\ tracker'.link = [id |-> Ours, right |-> TRUE]
  BY <1>1, <1>2, EffectInv
<1>4. Forward
  BY <1>1, <1>3 DEF Forward
<1>5. DOMAIN demo' = DOMAIN demo /\ demo'.submitted /\ demo'.submitted \in BOOLEAN
  <2>1. DOMAIN demo = {"status", "demoMode", "submitted"} /\ demo' = [demo EXCEPT !.submitted = TRUE]
    BY DEF submitted, DemoInv, DemoShape, PanelShape
  <2> QED
    BY <2>1
<1>6. Mounting'
  BY <1>3, <1>5 DEF Mounting
<1>7. ASSUME UNCHANGED <<tasks, did>> PROVE DemoInv'
  BY <1>1, <1>5, <1>7 DEF DemoInv, DemoShape, PanelShape, TasksDistinct, RunsOnce
<1>8. ASSUME tasks' = {NewTask("load", Blank, panel.persona)}, did' = [did EXCEPT !.tasks = @ + 1]
      PROVE  DemoInv'
  <2>1. /\ DOMAIN did' = DOMAIN did /\ did'.tasks = did.tasks + 1 /\ did'.failures = did.failures
        /\ did.tasks \in Nat
    BY <1>8 DEF DemoInv, DemoShape, PanelShape
  <2>2. PICK l : l = NewTask("load", Blank, panel.persona)
    OBVIOUS
  <2>3. TaskShape(l, did'.tasks) /\ l.n = did.tasks + 1 /\ l.kind = "load"
    BY <2>1, <2>2, NewTaskShape DEF DemoInv, DemoShape, PanelShape
  <2>4. PanelShape'
    BY <1>1, <1>5, <2>1 DEF DemoInv, DemoShape, PanelShape
  <2>5. tasks' = tasks \cup {l} /\ panel'.busy = panel.busy
    BY <1>1, <1>8, <2>2
  <2> QED
    BY <2>1, <2>3, <2>4, <2>5, TaskBegins
<1> QED
  BY <1>3, <1>4, <1>6, <1>7, <1>8 DEF submitted

LEMMA SetPersonaInv == ASSUME DemoInv, setPersona PROVE DemoInv' /\ demo.submitted
<1>1. PICK p \in DOMAIN Personas :
        /\ panel' = [panel EXCEPT !.persona = p, !.error = FALSE]
        /\ tasks' = tasks \cup {NewTask("load", Blank, p)}
  BY DEF setPersona
<1>2. /\ DOMAIN did' = DOMAIN did /\ did'.tasks = did.tasks + 1 /\ did'.failures = did.failures
      /\ UNCHANGED <<demo, cookie>> /\ did.tasks \in Nat
  BY DEF setPersona, DemoInv, DemoShape, PanelShape
<1>3. /\ DOMAIN panel' = DOMAIN panel /\ panel'.persona = p /\ panel'.busy = panel.busy
      /\ panel'.detail = panel.detail
  BY <1>1 DEF DemoInv, DemoShape, PanelShape
<1>4. PanelShape'
  BY <1>2, <1>3 DEF DemoInv, DemoShape, PanelShape
<1>5. PICK l : l = NewTask("load", Blank, p)
  OBVIOUS
<1>6. TaskShape(l, did'.tasks) /\ l.n = did.tasks + 1 /\ l.kind = "load"
  BY <1>2, <1>5, NewTaskShape
<1> QED
  BY <1>1, <1>2, <1>3, <1>4, <1>5, <1>6, TaskBegins DEF setPersona, Playing

LEMMA SetValuesInv == ASSUME DemoInv, setValues PROVE DemoInv'
<1>1. PICK values : panel' = [panel EXCEPT !.values = values]
  BY DEF setValues
<1>2. /\ DOMAIN panel' = DOMAIN panel /\ panel'.persona = panel.persona /\ panel'.busy = panel.busy
      /\ panel'.detail = panel.detail /\ UNCHANGED <<demo, cookie, tasks, did>>
  BY <1>1 DEF setValues, DemoInv, DemoShape, PanelShape
<1> QED
  BY <1>2 DEF DemoInv, DemoShape, PanelShape, TasksDistinct, RunsOnce

LEMMA RunInv == ASSUME DemoInv, run PROVE DemoInv' /\ demo.submitted
<1>1. PICK t \in DOMAIN panel.detail.transitions : \E fields :
        /\ panel.busy = Blank
        /\ panel' = [panel EXCEPT !.busy = t, !.error = FALSE]
        /\ tasks' = tasks \cup
              {[NewTask("run", "transitioned", panel.persona) EXCEPT
                    !.pc = "move", !.as = cookie, !.t = t, !.expected = expectedState,
                    !.seen = panel.detail.state, !.fields = fields]}
  BY DEF run, Offered
<1>2. PICK fields :
        /\ panel.busy = Blank
        /\ panel' = [panel EXCEPT !.busy = t, !.error = FALSE]
        /\ tasks' = tasks \cup
              {[NewTask("run", "transitioned", panel.persona) EXCEPT
                    !.pc = "move", !.as = cookie, !.t = t, !.expected = expectedState,
                    !.seen = panel.detail.state, !.fields = fields]}
  BY <1>1
<1>3. panel.detail # NoDetail
  BY DEF NoDetail
<1>4. panel.detail.state \in StateNames /\ t \in DOMAIN Workflow.transitions /\ t # Blank
  BY <1>3, DeskAssumption DEF DemoInv, DemoShape, PanelShape, DetailWell
<1>5. /\ DOMAIN did' = DOMAIN did /\ did'.tasks = did.tasks + 1 /\ did'.failures = did.failures
      /\ UNCHANGED <<demo, cookie>> /\ did.tasks \in Nat
  BY DEF run, DemoInv, DemoShape, PanelShape
<1>6. /\ DOMAIN panel' = DOMAIN panel /\ panel'.persona = panel.persona /\ panel'.busy = t
      /\ panel'.detail = panel.detail
  BY <1>2 DEF DemoInv, DemoShape, PanelShape
<1>7. PanelShape'
  BY <1>4, <1>5, <1>6 DEF DemoInv, DemoShape, PanelShape
<1>8. PICK l : l = [NewTask("run", "transitioned", panel.persona) EXCEPT
                    !.pc = "move", !.as = cookie, !.t = t, !.expected = expectedState,
                    !.seen = panel.detail.state, !.fields = fields]
  OBVIOUS
<1>9. /\ DOMAIN l = {"n", "kind", "pc", "persona", "as", "after", "t", "fields", "expected", "seen",
                   "code", "answer"}
      /\ l.n = did.tasks + 1 /\ l.kind = "run" /\ l.pc = "move" /\ l.persona = panel.persona
      /\ l.expected = panel.detail.state /\ l.seen = panel.detail.state
  BY <1>8 DEF NewTask, expectedState
<1>10. TaskShape(l, did'.tasks)
  BY <1>4, <1>5, <1>9 DEF TaskShape, DemoInv, DemoShape, PanelShape
<1>11. tasks' = tasks \cup {l} /\ panel.busy = Blank /\ panel'.busy # Blank
  BY <1>2, <1>4, <1>6, <1>8
<1> QED
  BY <1>5, <1>7, <1>9, <1>10, <1>11, TaskBegins DEF run, Playing

(* The server decides on the visitor's transition.                         *)
LEMMA DecideInv ==
    ASSUME DemoInv, DeskWell, decide, UNCHANGED othersDid
    PROVE  DemoInv' /\ DeskWell' /\ DeskLater /\ UNCHANGED trackerVars /\ demo' = demo
           /\ \A k \in tasks : \A l \in tasks' :
                (k.n = l.n /\ k.pc = "move" /\ l.pc = "moved" /\ l.code = "ok") => desk[Ours].state = k.seen
<1>1. PICK k \in tasks : \E code :
        /\ k.pc = "move"
        /\ code = Refusal(Workflow, desk[Ours].state, desk[Ours].fields, Personas[k.as], k.t, k.fields, k.expected)
        /\ desk' = IF code = "ok" THEN [desk EXCEPT ![Ours] = Moved(desk[Ours], k.t, k.fields)] ELSE desk
        /\ Becomes(k, [k EXCEPT !.pc = "moved", !.code = code])
  BY Zenon DEF decide
<1>2. PICK code :
        /\ k.pc = "move"
        /\ code = Refusal(Workflow, desk[Ours].state, desk[Ours].fields, Personas[k.as], k.t, k.fields, k.expected)
        /\ desk' = IF code = "ok" THEN [desk EXCEPT ![Ours] = Moved(desk[Ours], k.t, k.fields)] ELSE desk
        /\ Becomes(k, [k EXCEPT !.pc = "moved", !.code = code])
  BY <1>1
<1>3. UNCHANGED <<demo, panel, cookie, did, trackerVars>>
  BY DEF decide
<1>4. PICK l : l = [k EXCEPT !.pc = "moved", !.code = code]
  OBVIOUS
<1>5. TaskShape(k, did.tasks)
  BY DEF DemoInv, DemoShape
<1>6. /\ DOMAIN l = DOMAIN k /\ l.n = k.n /\ l.kind = k.kind /\ l.persona = k.persona
      /\ l.pc = "moved" /\ l.code = code
  BY <1>4, <1>5 DEF TaskShape
<1>7. TaskShape(l, did'.tasks)
  BY <1>3, <1>5, <1>6 DEF TaskShape
<1>8. DemoInv'
  <2>1. PanelShape' /\ panel'.busy = panel.busy /\ did'.tasks = did.tasks
    BY <1>3 DEF DemoInv, DemoShape, PanelShape
  <2> QED
    BY <1>2, <1>4, <1>6, <1>7, <2>1, TaskGoesOn
<1>9. Well(desk[Ours]) /\ Ours \in Submissions
  BY DemoAssumption DEF DeskWell
<1>10. DeskWell' /\ DeskLater
  <2>1. CASE code = "ok"
    <3>1. Well(Moved(desk[Ours], k.t, k.fields)) /\ Later(desk[Ours], Moved(desk[Ours], k.t, k.fields))
      BY <1>2, <1>9, <2>1, MovedWell
    <3> QED
      BY <1>2, <1>9, <2>1, <3>1, RowLater
  <2>2. CASE code # "ok"
    BY <1>2, <2>2, SameDesk
  <2> QED
    BY <2>1, <2>2
<1>11. code = "ok" => desk[Ours].state = k.seen
  <2>1. k.expected = k.seen /\ k.seen \in StateNames
    BY <1>2, <1>5 DEF TaskShape
  <2> QED
    BY <1>2, <2>1, ExpectedIs
<1>12. ASSUME NEW x \in tasks, NEW y \in tasks', x.n = y.n, x.pc = "move", y.pc = "moved", y.code = "ok"
       PROVE  desk[Ours].state = x.seen
  <2>1. tasks' = (tasks \ {k}) \cup {l}
    BY <1>2, <1>4 DEF Becomes
  <2>2. CASE y = l
    <3>1. x = k
      BY <1>6, <1>12, <2>2 DEF DemoInv, TasksDistinct
    <3> QED
      BY <1>6, <1>11, <1>12, <2>2, <3>1
  <2>3. CASE y # l
    <3>1. x = y
      BY <1>12, <2>1, <2>3 DEF DemoInv, TasksDistinct
    <3> QED
      BY <1>12, <3>1
  <2> QED
    BY <2>2, <2>3
<1> QED
  BY <1>3, <1>8, <1>10, <1>12

(* The answers of the visitor's calls.                                     *)
LEMMA MovedInv == ASSUME DemoInv, moved PROVE DemoInv' /\ UNCHANGED <<tracker, polls, demo>>
<1>1. PICK k \in tasks :
        /\ k.pc = "moved"
        /\ panel' = [panel EXCEPT !.values = IF k.code = "ok" THEN << >> ELSE panel.values, !.error = FALSE]
        /\ Becomes(k, [k EXCEPT !.pc = "login", !.after = IF k.code = "ok" THEN k.after ELSE "refused"])
  BY DEF moved
<1>2. UNCHANGED <<demo, cookie, did, tracker, polls>>
  BY DEF moved, trackerVars
<1>3. PICK l : l = [k EXCEPT !.pc = "login", !.after = IF k.code = "ok" THEN k.after ELSE "refused"]
  OBVIOUS
<1>4. TaskShape(k, did.tasks)
  BY DEF DemoInv, DemoShape
<1>5. DOMAIN l = DOMAIN k /\ l.n = k.n /\ l.kind = k.kind /\ l.persona = k.persona /\ l.pc = "login"
  BY <1>3, <1>4 DEF TaskShape
<1>6. TaskShape(l, did'.tasks)
  BY <1>2, <1>4, <1>5 DEF TaskShape
<1>7. /\ DOMAIN panel' = DOMAIN panel /\ panel'.persona = panel.persona /\ panel'.busy = panel.busy
      /\ panel'.detail = panel.detail
  BY <1>1 DEF DemoInv, DemoShape, PanelShape
<1>8. PanelShape' /\ did'.tasks = did.tasks
  BY <1>2, <1>7 DEF DemoInv, DemoShape, PanelShape
<1> QED
  BY <1>1, <1>2, <1>3, <1>5, <1>6, <1>7, <1>8, TaskGoesOn

LEMMA LoggedInInv == ASSUME DemoInv, loggedIn PROVE DemoInv' /\ UNCHANGED <<tracker, polls, demo>>
<1>1. PICK k \in tasks :
        k.pc = "login" /\ cookie' = k.persona /\ Becomes(k, [k EXCEPT !.pc = "get", !.as = k.persona])
  BY DEF loggedIn
<1>2. UNCHANGED <<demo, panel, did, tracker, polls>>
  BY DEF loggedIn, trackerVars
<1>3. PICK l : l = [k EXCEPT !.pc = "get", !.as = k.persona]
  OBVIOUS
<1>4. TaskShape(k, did.tasks)
  BY DEF DemoInv, DemoShape
<1>5. DOMAIN l = DOMAIN k /\ l.n = k.n /\ l.kind = k.kind /\ l.persona = k.persona /\ l.pc = "get"
  BY <1>3, <1>4 DEF TaskShape
<1>6. TaskShape(l, did'.tasks)
  BY <1>2, <1>4, <1>5 DEF TaskShape
<1>7. PanelShape' /\ did'.tasks = did.tasks /\ panel'.busy = panel.busy
  BY <1>1, <1>2, <1>4 DEF DemoInv, DemoShape, PanelShape, TaskShape
<1> QED
  BY <1>1, <1>2, <1>3, <1>5, <1>6, <1>7, TaskGoesOn

LEMMA DemoReadInv == ASSUME DemoInv, DeskWell, read PROVE DemoInv' /\ UNCHANGED <<tracker, polls, demo>>
<1>1. PICK k \in tasks :
        k.pc = "get" /\ Becomes(k, [k EXCEPT !.pc = "got", !.answer = Detail(Ours, Personas[k.as])])
  BY DEF read
<1>2. UNCHANGED <<demo, panel, cookie, did, tracker, polls>>
  BY DEF read, trackerVars
<1>3. PICK a : a = Detail(Ours, Personas[k.as])
  OBVIOUS
<1>4. PICK l : l = [k EXCEPT !.pc = "got", !.answer = a]
  OBVIOUS
<1>5. TaskShape(k, did.tasks) /\ DetailWell(a)
  BY <1>3, AvailableWell, DemoAssumption DEF DemoInv, DemoShape
<1>6. /\ DOMAIN l = DOMAIN k /\ l.n = k.n /\ l.kind = k.kind /\ l.persona = k.persona /\ l.pc = "got"
      /\ l.answer = a
  BY <1>4, <1>5 DEF TaskShape
<1>7. TaskShape(l, did'.tasks)
  BY <1>2, <1>5, <1>6 DEF TaskShape
<1>8. PanelShape' /\ did'.tasks = did.tasks /\ panel'.busy = panel.busy
  BY <1>2 DEF DemoInv, DemoShape, PanelShape
<1> QED
  BY <1>1, <1>2, <1>3, <1>4, <1>6, <1>7, <1>8, TaskGoesOn

(* load() ends, and run() with it, which mounts the tracker anew.          *)
LEMMA EndsInv ==
    ASSUME DemoInv, TrackerInv, DeskWell, Mounting, NEW k \in tasks, Ends(k), UNCHANGED <<desk, demo, opened>>,
           did'.tasks = did.tasks,
           PanelShape', panel'.busy = IF k.kind = "run" THEN Blank ELSE panel.busy
    PROVE  DemoInv' /\ TrackerInv' /\ Mounting' /\ Forward
<1>1. DemoInv'
  BY TaskEnds DEF Ends
<1>2. demo.submitted /\ tracker.run > 0 /\ tracker.link = [id |-> Ours, right |-> TRUE] /\ tracker.run \in Nat
  BY DEF Mounting, TrackerInv, TrackerShape
<1>3. CASE UNCHANGED <<tracker, polls>>
  <2>1. TrackerInv'
    BY <1>3, SameDesk, TrackerSame
  <2>2. Mounting'
    BY <1>2, <1>3 DEF Mounting
  <2> QED
    BY <1>1, <1>3, <2>1, <2>2, StatusForward
<1>4. CASE effect(tracker.run + 1, tracker.link)
  <2>1. /\ tracker.run + 1 \in Nat /\ tracker.run + 1 > tracker.run /\ tracker.run + 1 # tracker.run
        /\ tracker.link \in [id : Submissions, right : BOOLEAN]
    BY <1>2, DemoAssumption
  <2>2. TrackerInv' /\ tracker'.run = tracker.run + 1 /\ tracker'.link = tracker.link
    BY <1>4, <2>1, EffectInv
  <2>3. Mounting'
    BY <1>2, <2>2 DEF Mounting
  <2>4. Forward
    BY <2>1, <2>2 DEF Forward
  <2> QED
    BY <1>1, <2>2, <2>3, <2>4
<1> QED
  BY <1>3, <1>4 DEF Ends

LEMMA LoadedInv ==
    ASSUME DemoInv, TrackerInv, DeskWell, Mounting, loaded, UNCHANGED <<desk, opened>>
    PROVE  DemoInv' /\ TrackerInv' /\ Mounting' /\ Forward
<1>1. PICK k \in tasks :
        k.pc = "got" /\ panel' = Afterwards(k, [panel EXCEPT !.detail = k.answer]) /\ Ends(k)
  BY DEF loaded
<1>2. UNCHANGED <<demo, cookie, did>>
  BY DEF loaded
<1>3. DetailWell(k.answer)
  BY <1>1 DEF DemoInv, DemoShape, TaskShape
<1>4. /\ DOMAIN panel' = DOMAIN panel /\ panel'.persona = panel.persona /\ panel'.detail = k.answer
      /\ panel'.busy = IF k.kind = "run" THEN Blank ELSE panel.busy
  BY <1>1 DEF Afterwards, DemoInv, DemoShape, PanelShape
<1>5. PanelShape'
  BY <1>2, <1>3, <1>4 DEF DemoInv, DemoShape, PanelShape
<1> QED
  BY <1>1, <1>2, <1>4, <1>5, EndsInv

LEMMA RequestFailsInv ==
    ASSUME DemoInv, TrackerInv, DeskWell, Mounting, requestFails, UNCHANGED <<desk, opened>>
    PROVE  DemoInv' /\ TrackerInv' /\ Mounting' /\ Forward
<1>1. PICK k \in tasks :
        \/ /\ panel' = Afterwards(k, [panel EXCEPT !.error = TRUE])
           /\ Ends(k)
        \/ /\ panel' = [panel EXCEPT !.error = FALSE]
           /\ Becomes(k, [k EXCEPT !.pc = "login", !.after = "refused"])
           /\ UNCHANGED <<tracker, polls>>
  BY DEF requestFails
<1>2. /\ DOMAIN did' = DOMAIN did /\ did'.tasks = did.tasks /\ did'.failures \in Nat
      /\ UNCHANGED <<demo, cookie>>
  BY DEF requestFails, DemoInv, DemoShape, PanelShape
<1>3. CASE panel' = Afterwards(k, [panel EXCEPT !.error = TRUE]) /\ Ends(k)
  <2>1. /\ DOMAIN panel' = DOMAIN panel /\ panel'.persona = panel.persona /\ panel'.detail = panel.detail
        /\ panel'.busy = IF k.kind = "run" THEN Blank ELSE panel.busy
    BY <1>3 DEF Afterwards, DemoInv, DemoShape, PanelShape
  <2>2. PanelShape'
    BY <1>2, <2>1 DEF DemoInv, DemoShape, PanelShape
  <2> QED
    BY <1>2, <1>3, <2>1, <2>2, EndsInv
<1>4. CASE /\ panel' = [panel EXCEPT !.error = FALSE]
           /\ Becomes(k, [k EXCEPT !.pc = "login", !.after = "refused"])
           /\ UNCHANGED <<tracker, polls>>
  <2>1. PICK l : l = [k EXCEPT !.pc = "login", !.after = "refused"]
    OBVIOUS
  <2>2. TaskShape(k, did.tasks)
    BY DEF DemoInv, DemoShape
  <2>3. DOMAIN l = DOMAIN k /\ l.n = k.n /\ l.kind = k.kind /\ l.persona = k.persona /\ l.pc = "login"
    BY <2>1, <2>2 DEF TaskShape
  <2>4. TaskShape(l, did'.tasks)
    BY <1>2, <2>2, <2>3 DEF TaskShape
  <2>5. /\ DOMAIN panel' = DOMAIN panel /\ panel'.persona = panel.persona /\ panel'.detail = panel.detail
        /\ panel'.busy = panel.busy
    BY <1>4 DEF DemoInv, DemoShape, PanelShape
  <2>6. PanelShape'
    BY <1>2, <2>5 DEF DemoInv, DemoShape, PanelShape
  <2>7. DemoInv'
    BY <1>2, <1>4, <2>1, <2>3, <2>4, <2>5, <2>6, TaskGoesOn
  <2>8. TrackerInv'
    BY <1>4, SameDesk, TrackerSame
  <2>9. Mounting'
    BY <1>2, <1>4 DEF Mounting
  <2> QED
    BY <1>4, <2>7, <2>8, <2>9, StatusForward
<1> QED
  BY <1>1, <1>3, <1>4

(* A load() never decides: only decide makes a transition of the visitor's *)
(* "moved".                                                                *)
NoneDecided == \A k \in tasks : \A l \in tasks' : ~(k.n = l.n /\ k.pc = "move" /\ l.pc = "moved")

LEMMA NoneDecidedIf ==
    ASSUME DemoInv, \A l \in tasks' : l.pc = "moved" => l \in tasks
    PROVE  NoneDecided
BY DEF NoneDecided, DemoInv, TasksDistinct

LEMMA PlayDecidesNone == ASSUME DemoInv, DemoStep \/ Answered PROVE NoneDecided
<1>1. \A kind, after, persona : NewTask(kind, after, persona).pc = "login"
  BY DEF NewTask
<1>2. CASE configured \/ setValues
  BY <1>2, NoneDecidedIf DEF configured, setValues
<1>3. CASE submitted
  BY <1>1, <1>3, NoneDecidedIf DEF submitted
<1>4. CASE setPersona
  BY <1>1, <1>4, NoneDecidedIf DEF setPersona
<1>5. CASE run
  <2>1. PICK t, fields : tasks' = tasks \cup
              {[NewTask("run", "transitioned", panel.persona) EXCEPT
                    !.pc = "move", !.as = cookie, !.t = t, !.expected = expectedState,
                    !.seen = panel.detail.state, !.fields = fields]}
    BY <1>5 DEF run
  <2>2. PICK l : l = [NewTask("run", "transitioned", panel.persona) EXCEPT
                    !.pc = "move", !.as = cookie, !.t = t, !.expected = expectedState,
                    !.seen = panel.detail.state, !.fields = fields]
    OBVIOUS
  <2>3. l.pc = "move"
    BY <2>2 DEF NewTask
  <2> QED
    BY <2>1, <2>2, <2>3, NoneDecidedIf
<1>6. \A k \in tasks : DOMAIN k = {"n", "kind", "pc", "persona", "as", "after", "t", "fields", "expected",
                                   "seen", "code", "answer"}
  BY DEF DemoInv, DemoShape, TaskShape
<1>7. CASE loggedIn
  <2>1. PICK k \in tasks : tasks' = (tasks \ {k}) \cup {[k EXCEPT !.pc = "get", !.as = k.persona]}
    BY <1>7 DEF loggedIn, Becomes
  <2>2. [k EXCEPT !.pc = "get", !.as = k.persona].pc = "get"
    BY <1>6
  <2> QED
    BY <2>1, <2>2, NoneDecidedIf
<1>8. CASE read
  <2>1. PICK k \in tasks : tasks' = (tasks \ {k}) \cup {[k EXCEPT !.pc = "got", !.answer = Detail(Ours, Personas[k.as])]}
    BY <1>8 DEF read, Becomes
  <2>2. [k EXCEPT !.pc = "got", !.answer = Detail(Ours, Personas[k.as])].pc = "got"
    BY <1>6
  <2> QED
    BY <2>1, <2>2, NoneDecidedIf
<1>9. CASE moved
  <2>0. PICK k \in tasks : \E after : tasks' = (tasks \ {k}) \cup {[k EXCEPT !.pc = "login", !.after = after]}
    BY <1>9 DEF moved, Becomes
  <2>1. PICK after : tasks' = (tasks \ {k}) \cup {[k EXCEPT !.pc = "login", !.after = after]}
    BY <2>0
  <2>2. [k EXCEPT !.pc = "login", !.after = after].pc = "login"
    BY <1>6
  <2> QED
    BY <2>1, <2>2, NoneDecidedIf
<1>10. CASE loaded
  BY <1>10, NoneDecidedIf DEF loaded, Ends
<1>11. CASE requestFails
  <2>1. PICK k \in tasks : \/ tasks' = tasks \ {k}
                           \/ tasks' = (tasks \ {k}) \cup {[k EXCEPT !.pc = "login", !.after = "refused"]}
    BY <1>11 DEF requestFails, Ends, Becomes
  <2>2. [k EXCEPT !.pc = "login", !.after = "refused"].pc = "login"
    BY <1>6
  <2> QED
    BY <2>1, <2>2, NoneDecidedIf
<1> QED
  BY <1>2, <1>3, <1>4, <1>5, <1>7, <1>8, <1>9, <1>10, <1>11 DEF DemoStep, Answered

LEMMA PlayInv ==
    ASSUME DemoInv, TrackerInv, DeskWell, Mounting, opened = "demo", DemoStep \/ Answered,
           UNCHANGED <<desk, opened>>
    PROVE  DemoInv' /\ TrackerInv' /\ Mounting' /\ Forward
<1>1. ASSUME UNCHANGED <<tracker, polls>> PROVE TrackerInv' /\ Forward
  BY <1>1, SameDesk, TrackerSame, StatusForward
<1>2. ASSUME UNCHANGED tracker, demo'.submitted = demo.submitted, tasks' # {} => tasks # {} \/ demo.submitted
      PROVE  Mounting'
  BY <1>2 DEF Mounting
<1>3. CASE configured
  BY <1>1, <1>2, <1>3, ConfiguredInv DEF configured, trackerVars
<1>4. CASE submitted
  BY <1>4, SubmittedInv
<1>5. CASE setPersona
  BY <1>1, <1>2, <1>5, SetPersonaInv DEF setPersona, trackerVars
<1>6. CASE setValues
  BY <1>1, <1>2, <1>6, SetValuesInv DEF setValues, trackerVars
<1>7. CASE run
  BY <1>1, <1>2, <1>7, RunInv DEF run, trackerVars
<1>8. CASE loggedIn
  <2>1. tasks # {}
    BY <1>8 DEF loggedIn
  <2> QED
    BY <1>1, <1>2, <1>8, <2>1, LoggedInInv
<1>9. CASE read
  <2>1. tasks # {}
    BY <1>9 DEF read
  <2> QED
    BY <1>1, <1>2, <1>9, <2>1, DemoReadInv
<1>10. CASE moved
  <2>1. tasks # {}
    BY <1>10 DEF moved
  <2> QED
    BY <1>1, <1>2, <1>10, <2>1, MovedInv
<1>11. CASE loaded
  BY <1>11, LoadedInv
<1>12. CASE requestFails
  BY <1>12, RequestFailsInv
<1> QED
  BY <1>3, <1>4, <1>5, <1>6, <1>7, <1>8, <1>9, <1>10, <1>11, <1>12 DEF DemoStep, Answered

-----------------------------------------------------------------------------
(* The console's page *)

LEMMA CallKept ==
    ASSUME NEW c, NEW n \in Nat, NEW m \in Nat, n <= m, NEW i \in Nat, NEW j \in Nat, i <= j,
           NEW v \in Nat, NEW w \in Nat, v <= w, CallShape(c, n, i, v)
    PROVE  CallShape(c, m, j, w)
<1>1. c.n \in 1..m /\ c.mount \in 1..j
  BY DEF CallShape
<1>2. c.pc # "sent" => c.stamp <= w
  BY DEF CallShape
<1> QED
  BY <1>1, <1>2 DEF CallShape

LEMMA NotAfterOn ==
    ASSUME NEW x, NEW y, NEW z, x.updatedAt \in Nat, y.updatedAt \in Nat, z.updatedAt \in Nat,
           NotAfter(x, y), NotAfter(y, z)
    PROVE  NotAfter(x, z)
BY DEF NotAfter

LEMMA LaterNotAfter ==
    ASSUME NEW x, NEW y, Well(x), Well(y), Later(x, y)
    PROVE  NotAfter(x, y) /\ x.updatedAt \in Nat /\ y.updatedAt \in Nat
BY DEF NotAfter, Later, Well

LEMMA DataNat ==
    ASSUME NEW x, DataWell(x)
    PROVE  x.updatedAt \in Nat
<1>1. CASE x = Nothing
  BY <1>1 DEF Nothing
<1>2. CASE DetailWell(x)
  BY <1>2 DEF DetailWell
<1> QED
  BY <1>1, <1>2 DEF DataWell

(* The numbers that the proofs compare.                                    *)
LEMMA ConsoleNats ==
    ASSUME ConsoleInv, DeskWell
    PROVE  /\ used.calls \in Nat /\ page.mount \in Nat \ {0} /\ page.sure \in Nat
           /\ page.data.updatedAt \in Nat /\ desk[Viewed].updatedAt \in Nat
           /\ \A f \in fetches : f.pc = "read" => f.answer.updatedAt \in Nat
<1>1. desk[Viewed].updatedAt \in Nat
  BY ViewedAssumption DEF DeskWell, Well
<1>2. page.data.updatedAt \in Nat
  BY DataNat DEF ConsoleInv, PageShape
<1>3. \A f \in fetches : f.pc = "read" => f.answer.updatedAt \in Nat
  BY DEF ConsoleInv, FetchShapes, FetchShape, DetailWell
<1> QED
  BY <1>1, <1>2, <1>3 DEF ConsoleInv, PageShape

(* The row moves on, the page is as it was.                                *)
LEMMA ConsoleSame ==
    ASSUME ConsoleInv, DeskWell, DeskWell', DeskLater, UNCHANGED consoleVars
    PROVE  ConsoleInv'
<1>1. UNCHANGED <<page, fetches, calls, used>>
  BY DEF consoleVars
<1>2. NotAfter(desk[Viewed], desk'[Viewed]) /\ desk[Viewed].updatedAt \in Nat /\ desk'[Viewed].updatedAt \in Nat
  BY LaterNotAfter, ViewedAssumption DEF DeskLater, DeskWell
<1>3. desk[Viewed].updatedAt <= desk'[Viewed].updatedAt
  BY <1>2 DEF NotAfter
<1>4. CallShapes'
  BY <1>1, <1>2, <1>3, CallKept, ConsoleNats DEF CallShapes, ConsoleInv
<1>5. Waiting' = Waiting
  BY <1>1 DEF Waiting
<1>6. Versions'
  <2>1. NotAfter(page.data, desk'[Viewed])
    BY <1>2, NotAfterOn, ConsoleNats DEF ConsoleInv, Versions
  <2>2. \A f \in fetches : f.pc = "read" => NotAfter(f.answer, desk'[Viewed])
    BY <1>2, NotAfterOn, ConsoleNats DEF ConsoleInv, Versions
  <2> QED
    BY <1>1, <1>5, <2>1, <2>2 DEF ConsoleInv, Versions
<1>7. PageShape' /\ FetchShapes'
  BY <1>1 DEF ConsoleInv, PageShape, FetchShapes
<1>8. Edits' /\ CallsDistinct' /\ Sure' /\ Pending'
  BY <1>1, <1>5 DEF ConsoleInv, Edits, CallsDistinct, Sure, Pending
<1> QED
  BY <1>4, <1>6, <1>7, <1>8 DEF ConsoleInv

(* The user types, or opens or closes a dialog: no call is made.           *)
LEMMA UserTypes ==
    ASSUME ConsoleInv, UNCHANGED <<desk, fetches, calls, used>>,
           DOMAIN page' = DOMAIN page, page'.data = page.data, page'.mount = page.mount,
           page'.sure = page.sure, page'.saving = page.saving, page'.moving \in {page.moving, 0}, Edits'
    PROVE  ConsoleInv'
<1>1. PageShape'
  BY DEF ConsoleInv, PageShape
<1>2. Waiting' = Waiting
  BY DEF Waiting
<1>3. CallShapes' /\ FetchShapes' /\ Versions' /\ CallsDistinct' /\ Sure'
  BY <1>2 DEF ConsoleInv, CallShapes, FetchShapes, Versions, CallsDistinct, Sure
<1>4. Pending'
  BY <1>2 DEF ConsoleInv, Pending
<1> QED
  BY <1>1, <1>3, <1>4 DEF ConsoleInv

(* A mutation is sent.                                                     *)
LEMMA CallMade ==
    ASSUME ConsoleInv, DeskWell, UNCHANGED <<desk, fetches>>, NEW c, calls' = calls \cup {c},
           used' = [used EXCEPT !.calls = @ + 1], c.n = used.calls + 1, c.mount = page.mount, c.pc = "sent",
           CallShape(c, used.calls + 1, page.mount, desk[Viewed].updatedAt),
           DOMAIN page' = DOMAIN page, page'.data = page.data, page'.mount = page.mount,
           page'.sure = page.sure, Edits',
           \/ c.kind = "move" /\ page'.moving = c.n /\ page'.saving = page.saving
           \/ c.kind = "save" /\ page'.saving = c.n /\ page'.moving = page.moving
    PROVE  ConsoleInv'
<1>1. /\ DOMAIN used' = DOMAIN used /\ used'.calls = used.calls + 1 /\ used'.broken = used.broken
      /\ used.calls \in Nat
  BY DEF ConsoleInv, PageShape
<1>2. PageShape'
  BY <1>1 DEF ConsoleInv, PageShape
<1>3. CallShapes'
  <2>1. \A e \in calls : CallShape(e, used.calls + 1, page.mount, desk[Viewed].updatedAt)
    BY <1>1, CallKept, ConsoleNats DEF ConsoleInv, CallShapes
  <2> QED
    BY <1>1, <2>1 DEF CallShapes
<1>4. Waiting' = Waiting
  BY DEF Waiting
<1>5. FetchShapes' /\ Versions' /\ Sure'
  BY <1>4 DEF ConsoleInv, FetchShapes, Versions, Sure
<1>6. CallsDistinct'
  <2>1. \A e \in calls : e.n # c.n
    BY <1>1 DEF ConsoleInv, CallShapes, CallShape
  <2> QED
    BY <2>1 DEF ConsoleInv, CallsDistinct
<1>7. Pending'
  BY <1>4 DEF ConsoleInv, Pending
<1> QED
  BY <1>2, <1>3, <1>5, <1>6, <1>7 DEF ConsoleInv

LEMMA FocusInv == ASSUME ConsoleInv, focus, UNCHANGED desk PROVE ConsoleInv'
<1>1. fetches = {} /\ fetches' = {Asked} /\ UNCHANGED <<page, calls>>
  BY DEF focus
<1>2. DOMAIN used' = DOMAIN used /\ used'.calls = used.calls /\ used'.broken = used.broken
  BY DEF focus, ConsoleInv, PageShape
<1>3. Waiting' = Waiting
  BY <1>1 DEF Waiting
<1>4. Asked.pc = "asked" /\ FetchShape(Asked)
  BY DEF Asked, FetchShape
<1>5. FetchShapes' /\ Versions'
  BY <1>1, <1>4 DEF FetchShapes, ConsoleInv, Versions
<1>6. PageShape' /\ CallShapes' /\ Edits' /\ CallsDistinct' /\ Sure'
  BY <1>1, <1>2 DEF ConsoleInv, PageShape, CallShapes, Edits, CallsDistinct, Sure
<1>7. Pending'
  BY <1>1, <1>3 DEF ConsoleInv, Pending
<1> QED
  BY <1>5, <1>6, <1>7 DEF ConsoleInv

LEMMA TypeInDialogInv == ASSUME ConsoleInv, typeInDialog, UNCHANGED desk PROVE ConsoleInv'
<1>1. PICK d : page' = [page EXCEPT !.dialog = d]
  BY DEF typeInDialog
<1>2. /\ DOMAIN page' = DOMAIN page /\ page'.data = page.data /\ page'.mount = page.mount
      /\ page'.sure = page.sure /\ page'.saving = page.saving /\ page'.moving = page.moving
      /\ page'.values = page.values /\ page'.edited = page.edited
  BY <1>1 DEF ConsoleInv, PageShape
<1>3. Edits'
  BY <1>2 DEF ConsoleInv, Edits
<1> QED
  BY <1>2, <1>3, UserTypes DEF typeInDialog

LEMMA CancelInv == ASSUME ConsoleInv, cancel, UNCHANGED desk PROVE ConsoleInv'
<1>1. page' = [page EXCEPT !.dialog = NoDialog, !.moving = 0]
  BY DEF cancel
<1>2. /\ DOMAIN page' = DOMAIN page /\ page'.data = page.data /\ page'.mount = page.mount
      /\ page'.sure = page.sure /\ page'.saving = page.saving /\ page'.moving = 0
      /\ page'.values = page.values /\ page'.edited = page.edited
  BY <1>1 DEF ConsoleInv, PageShape
<1>3. Edits'
  BY <1>2 DEF ConsoleInv, Edits
<1> QED
  BY <1>2, <1>3, UserTypes DEF cancel

LEMMA EditFieldInv == ASSUME ConsoleInv, editField, UNCHANGED desk PROVE ConsoleInv'
<1>1. PICK k \in Workflow.fields : \E v :
        page' = [page EXCEPT !.values = With(page.values, k, v), !.edited = page.edited \cup {k}]
  BY DEF editField
<1>2. PICK v : page' = [page EXCEPT !.values = With(page.values, k, v), !.edited = page.edited \cup {k}]
  BY <1>1
<1>3. /\ DOMAIN page' = DOMAIN page /\ page'.data = page.data /\ page'.mount = page.mount
      /\ page'.sure = page.sure /\ page'.saving = page.saving /\ page'.moving = page.moving
      /\ page'.values = With(page.values, k, v) /\ page'.edited = page.edited \cup {k}
  BY <1>2 DEF ConsoleInv, PageShape
<1>4. \A j : j # k => ValueOf(With(page.values, k, v), j) = ValueOf(page.values, j)
  BY DEF ValueOf, With
<1>5. Edits'
  BY <1>3, <1>4 DEF ConsoleInv, Edits
<1> QED
  BY <1>3, <1>5, UserTypes DEF editField

(* A transition is sent of what is shown.                                  *)
LEMMA MutateInv ==
    ASSUME ConsoleInv, DeskWell, UNCHANGED <<desk, fetches>>, Loaded, NEW t, NEW fields, NEW p,
           mutate(t, fields, p), DOMAIN p = DOMAIN page, p.data = page.data, p.mount = page.mount,
           p.sure = page.sure, p.saving = page.saving, p.values = page.values, p.edited = page.edited
    PROVE  ConsoleInv'
<1>1. PICK c : c = Call("move", t, expectedShown, fields)
  OBVIOUS
<1>2. /\ used' = [used EXCEPT !.calls = @ + 1] /\ calls' = calls \cup {c}
      /\ page' = [p EXCEPT !.moving = used.calls + 1]
  BY <1>1 DEF mutate
<1>3. /\ DOMAIN c = {"n", "kind", "mount", "pc", "t", "expected", "seen", "fields", "edited", "code", "stamp"}
      /\ c.n = used.calls + 1 /\ c.kind = "move" /\ c.mount = page.mount /\ c.pc = "sent"
      /\ c.expected = page.data.state /\ c.seen = page.data.state /\ c.stamp = 0
  BY <1>1 DEF Call, expectedShown
<1>4. page.data.state \in StateNames
  BY DEF Loaded, ConsoleInv, PageShape, DataWell, DetailWell
<1>5. CallShape(c, used.calls + 1, page.mount, desk[Viewed].updatedAt)
  <2>1. c.n \in 1..(used.calls + 1) /\ c.mount \in 1..page.mount
    BY <1>3, ConsoleNats
  <2> QED
    BY <1>3, <1>4, <2>1 DEF CallShape
<1>6. /\ DOMAIN page' = DOMAIN page /\ page'.data = page.data /\ page'.mount = page.mount
      /\ page'.sure = page.sure /\ page'.saving = page.saving /\ page'.moving = c.n
      /\ page'.values = page.values /\ page'.edited = page.edited
  BY <1>2, <1>3 DEF ConsoleInv, PageShape
<1>7. Edits'
  BY <1>6 DEF ConsoleInv, Edits
<1> QED
  BY <1>2, <1>3, <1>5, <1>6, <1>7, CallMade

LEMMA ClickInv == ASSUME ConsoleInv, DeskWell, clickTransition, UNCHANGED desk PROVE ConsoleInv'
<1>1. PICK t : \/ mutate(t, << >>, [page EXCEPT !.notice = FALSE])
               \/ \E d : page' = [page EXCEPT !.notice = FALSE, !.dialog = d] /\ UNCHANGED <<calls, used>>
  BY DEF clickTransition
<1>2. Loaded /\ UNCHANGED fetches
  BY DEF clickTransition
<1>3. CASE mutate(t, << >>, [page EXCEPT !.notice = FALSE])
  <2>1. PICK p : p = [page EXCEPT !.notice = FALSE]
    OBVIOUS
  <2>2. /\ DOMAIN p = DOMAIN page /\ p.data = page.data /\ p.mount = page.mount
        /\ p.sure = page.sure /\ p.saving = page.saving /\ p.values = page.values /\ p.edited = page.edited
    BY <2>1 DEF ConsoleInv, PageShape
  <2>3. mutate(t, << >>, p)
    BY <1>3, <2>1
  <2> QED
    BY <1>2, <2>2, <2>3, MutateInv
<1>4. CASE \E d : page' = [page EXCEPT !.notice = FALSE, !.dialog = d] /\ UNCHANGED <<calls, used>>
  <2>1. PICK d : page' = [page EXCEPT !.notice = FALSE, !.dialog = d] /\ UNCHANGED <<calls, used>>
    BY <1>4
  <2>2. /\ DOMAIN page' = DOMAIN page /\ page'.data = page.data /\ page'.mount = page.mount
        /\ page'.sure = page.sure /\ page'.saving = page.saving /\ page'.moving = page.moving
        /\ page'.values = page.values /\ page'.edited = page.edited
    BY <2>1 DEF ConsoleInv, PageShape
  <2>3. Edits'
    BY <2>2 DEF ConsoleInv, Edits
  <2> QED
    BY <1>2, <2>1, <2>2, <2>3, UserTypes
<1> QED
  BY <1>1, <1>3, <1>4

LEMMA ConfirmInv == ASSUME ConsoleInv, DeskWell, confirm, UNCHANGED desk PROVE ConsoleInv'
BY MutateInv DEF confirm

(* "Save fields" sends what differs, which is part of what was edited.     *)
LEMMA SaveFieldsInv == ASSUME ConsoleInv, DeskWell, saveFields, UNCHANGED desk PROVE ConsoleInv'
<1>1. PICK c : c = Call("save", Blank, Blank, changedFields)
  OBVIOUS
<1>2. /\ used' = [used EXCEPT !.calls = @ + 1] /\ calls' = calls \cup {c}
      /\ page' = [page EXCEPT !.saving = used.calls + 1] /\ UNCHANGED fetches
  BY <1>1 DEF saveFields
<1>3. /\ DOMAIN c = {"n", "kind", "mount", "pc", "t", "expected", "seen", "fields", "edited", "code", "stamp"}
      /\ c.n = used.calls + 1 /\ c.kind = "save" /\ c.mount = page.mount /\ c.pc = "sent"
      /\ c.stamp = 0 /\ c.fields = changedFields /\ c.edited = page.edited
  BY <1>1 DEF Call
<1>4. DOMAIN changedFields \subseteq Workflow.fields \cap page.edited
  BY DEF changedFields, ConsoleInv, Edits
<1>5. CallShape(c, used.calls + 1, page.mount, desk[Viewed].updatedAt)
  <2>1. c.n \in 1..(used.calls + 1) /\ c.mount \in 1..page.mount
    BY <1>3, ConsoleNats
  <2> QED
    BY <1>3, <1>4, <2>1 DEF CallShape
<1>6. /\ DOMAIN page' = DOMAIN page /\ page'.data = page.data /\ page'.mount = page.mount
      /\ page'.sure = page.sure /\ page'.moving = page.moving /\ page'.saving = c.n
      /\ page'.values = page.values /\ page'.edited = page.edited
  BY <1>2, <1>3 DEF ConsoleInv, PageShape
<1>7. Edits'
  BY <1>6 DEF ConsoleInv, Edits
<1> QED
  BY <1>2, <1>3, <1>5, <1>6, <1>7, CallMade

(* The fetch reads the row as it is now.                                   *)
LEMMA ServerReadsInv == ASSUME ConsoleInv, DeskWell, serverReads, UNCHANGED desk PROVE ConsoleInv'
<1>1. PICK a : a = Detail(Viewed, MyRoles)
  OBVIOUS
<1>2. PICK g : g = [pc |-> "read", answer |-> a]
  OBVIOUS
<1>3. fetches' = {g} /\ UNCHANGED <<page, calls, used>>
  BY <1>1, <1>2 DEF serverReads, ConsoleInv, FetchShapes
<1>4. g.pc = "read" /\ g.answer = a
  BY <1>2
<1>5. /\ DetailWell(a) /\ DOMAIN a.fields \subseteq Workflow.fields
      /\ a.updatedAt = desk[Viewed].updatedAt /\ a.fields = desk[Viewed].fields
  BY <1>1, AvailableWell, ViewedAssumption
<1>6. FetchShapes'
  BY <1>3, <1>4, <1>5 DEF FetchShapes, FetchShape
<1>7. Waiting' = Waiting
  BY <1>3 DEF Waiting
<1>8. Versions'
  <2>1. NotAfter(page.data, a) /\ NotAfter(a, desk[Viewed]) /\ NotAfter(page.data, desk[Viewed])
    BY <1>5, ConsoleNats DEF ConsoleInv, Versions, NotAfter
  <2>2. \A c \in Waiting : c.stamp <= a.updatedAt
    BY <1>5 DEF ConsoleInv, CallShapes, CallShape, Waiting
  <2> QED
    BY <1>3, <1>4, <1>7, <2>1, <2>2 DEF Versions
<1>9. PageShape' /\ CallShapes' /\ Edits' /\ CallsDistinct' /\ Sure'
  BY <1>3 DEF ConsoleInv, PageShape, CallShapes, Edits, CallsDistinct, Sure
<1>10. Pending'
  BY <1>3, <1>7 DEF ConsoleInv, Pending
<1> QED
  BY <1>6, <1>8, <1>9, <1>10 DEF ConsoleInv

(* What has settled is not pending any more; what is pending is not among  *)
(* what awaits the refetch.                                                *)
LEMMA SettledIs ==
    ASSUME NEW p, DOMAIN p = DOMAIN page, PageShape
    PROVE  /\ DOMAIN Settled(p) = DOMAIN p /\ Settled(p).data = p.data /\ Settled(p).mount = p.mount
           /\ Settled(p).values = p.values /\ Settled(p).edited = p.edited /\ Settled(p).sure = p.sure
           /\ Settled(p).moving \in {p.moving, 0} /\ Settled(p).saving \in {p.saving, 0}
           /\ \A c \in Waiting : c.mount = p.mount /\ c.n # 0 =>
                Settled(p).moving # c.n /\ Settled(p).saving # c.n
<1>1. PICK numbers : numbers = {c.n : c \in {d \in Waiting : d.mount = p.mount}}
  OBVIOUS
<1>2. Settled(p) = [p EXCEPT !.moving = IF p.moving \in numbers THEN 0 ELSE p.moving,
                             !.saving = IF p.saving \in numbers THEN 0 ELSE p.saving]
  BY <1>1 DEF Settled
<1>3. DOMAIN p = {"mount", "data", "failed", "dialog", "notice", "moving", "saving", "values",
                  "edited", "sure"}
  BY DEF PageShape
<1>4. /\ DOMAIN Settled(p) = DOMAIN p /\ Settled(p).data = p.data /\ Settled(p).mount = p.mount
      /\ Settled(p).values = p.values /\ Settled(p).edited = p.edited /\ Settled(p).sure = p.sure
      /\ Settled(p).moving = IF p.moving \in numbers THEN 0 ELSE p.moving
      /\ Settled(p).saving = IF p.saving \in numbers THEN 0 ELSE p.saving
  BY <1>2, <1>3
<1>5. \A c \in Waiting : c.mount = p.mount => c.n \in numbers
  BY <1>1
<1> QED
  BY <1>4, <1>5

(* New data: the panel stays, or is mounted with them.                     *)
LEMMA RenderedIs ==
    ASSUME PageShape, NEW a
    PROVE  /\ DOMAIN Rendered(page, a) = DOMAIN page /\ Rendered(page, a).data = a
           /\ Rendered(page, a).mount = page.mount /\ Rendered(page, a).sure = page.sure
           /\ Rendered(page, a).moving = page.moving /\ Rendered(page, a).saving \in {page.saving, 0}
           /\ a.updatedAt = page.data.updatedAt =>
                Rendered(page, a).values = page.values /\ Rendered(page, a).edited = page.edited
           /\ a.updatedAt # page.data.updatedAt => Rendered(page, a).values = a.fields
<1>1. CASE a.updatedAt = page.data.updatedAt
  <2>1. Rendered(page, a) = [page EXCEPT !.data = a, !.failed = FALSE]
    BY <1>1 DEF Rendered
  <2> QED
    BY <1>1, <2>1 DEF PageShape
<1>2. CASE a.updatedAt # page.data.updatedAt
  <2>1. Rendered(page, a) = [page EXCEPT !.data = a, !.failed = FALSE, !.values = a.fields,
                                         !.edited = {}, !.saving = 0]
    BY <1>2 DEF Rendered
  <2> QED
    BY <1>2, <2>1 DEF PageShape
<1> QED
  BY <1>1, <1>2

LEMMA SureBounded ==
    ASSUME ConsoleInv, DeskWell, NEW f \in fetches, f.pc = "read"
    PROVE  LET sure == Max({page.sure} \cup {c.stamp : c \in Waiting})
           IN  sure \in Nat /\ sure <= f.answer.updatedAt
<1>1. PICK S : S = {page.sure} \cup {c.stamp : c \in Waiting}
  OBVIOUS
<1>2. PICK b : b = f.answer.updatedAt
  OBVIOUS
<1>3. b \in Nat
  BY <1>2, ConsoleNats
<1>4. S \in SUBSET Nat /\ S # {}
  <2>1. \A c \in calls : c.stamp \in Nat
    BY DEF ConsoleInv, CallShapes, CallShape
  <2>2. page.sure \in Nat
    BY ConsoleNats
  <2> QED
    BY <1>1, <2>1, <2>2 DEF Waiting
<1>5. \A x \in S : x <= b
  <2>1. page.sure <= b
    <3>1. page.sure <= page.data.updatedAt /\ page.data.updatedAt <= b
      BY <1>2 DEF ConsoleInv, Sure, Versions, NotAfter
    <3> QED
      BY <1>3, <3>1, ConsoleNats
  <2>2. \A c \in Waiting : c.stamp <= b
    BY <1>2 DEF ConsoleInv, Versions
  <2> QED
    BY <1>1, <2>1, <2>2
<1>6. Max(S) \in S /\ \A x \in S : x <= Max(S)
  BY <1>3, <1>4, <1>5, MaxBounded
<1> QED
  BY <1>1, <1>2, <1>4, <1>5, <1>6

LEMMA FetchedInv ==
    ASSUME ConsoleInv, DeskWell, fetched, UNCHANGED desk
    PROVE  ConsoleInv' /\ page'.data.updatedAt >= page.data.updatedAt
<1>1. PICK f \in fetches :
        /\ f.pc = "read" /\ fetches' = fetches \ {f}
        /\ page' = [Settled(Rendered(page, f.answer)) EXCEPT
                        !.sure = Max({Settled(Rendered(page, f.answer)).sure} \cup {c.stamp : c \in Waiting})]
  BY DEF fetched
<1>2. calls' = calls \ Waiting /\ UNCHANGED used
  BY DEF fetched
<1>3. PICK a : a = f.answer
  OBVIOUS
<1>4. PICK r : r = Rendered(page, a)
  OBVIOUS
<1>5. PICK q : q = Settled(r)
  OBVIOUS
<1>6. PageShape
  BY DEF ConsoleInv
<1>7. /\ DOMAIN r = DOMAIN page /\ r.data = a /\ r.mount = page.mount /\ r.sure = page.sure
      /\ r.moving = page.moving /\ r.saving \in {page.saving, 0}
      /\ a.updatedAt = page.data.updatedAt => r.values = page.values /\ r.edited = page.edited
      /\ a.updatedAt # page.data.updatedAt => r.values = a.fields
  BY <1>4, <1>6, RenderedIs
<1>8. /\ DOMAIN q = DOMAIN page /\ q.data = a /\ q.mount = page.mount
      /\ q.values = r.values /\ q.edited = r.edited /\ q.sure = page.sure
      /\ q.moving \in {page.moving, 0} /\ q.saving \in {page.saving, 0}
      /\ \A c \in Waiting : c.mount = page.mount /\ c.n # 0 => q.moving # c.n /\ q.saving # c.n
  BY <1>5, <1>6, <1>7, SettledIs
<1>9. PICK m : m = Max({page.sure} \cup {c.stamp : c \in Waiting})
  OBVIOUS
<1>10. m \in Nat /\ m <= a.updatedAt
  BY <1>1, <1>3, <1>9, SureBounded
<1>11. page' = [q EXCEPT !.sure = m]
  BY <1>1, <1>3, <1>4, <1>5, <1>8, <1>9
<1>12. /\ DOMAIN page' = DOMAIN page /\ page'.data = a /\ page'.mount = page.mount
       /\ page'.values = r.values /\ page'.edited = r.edited /\ page'.sure = m
       /\ page'.moving = q.moving /\ page'.saving = q.saving
  BY <1>6, <1>8, <1>11 DEF PageShape
<1>13. DetailWell(a) /\ DOMAIN a.fields \subseteq Workflow.fields
  BY <1>1, <1>3 DEF ConsoleInv, FetchShapes, FetchShape
<1>14. NotAfter(page.data, a) /\ NotAfter(a, desk[Viewed])
  BY <1>1, <1>3 DEF ConsoleInv, Versions
<1>15. PageShape'
  BY <1>2, <1>6, <1>8, <1>10, <1>12, <1>13 DEF PageShape, DataWell
<1>16. fetches' = {} /\ Waiting' = {}
  BY <1>1, <1>2 DEF ConsoleInv, FetchShapes, Waiting
<1>17. CallShapes' /\ FetchShapes' /\ Versions' /\ CallsDistinct' /\ Sure'
  BY <1>2, <1>10, <1>12, <1>14, <1>16
     DEF ConsoleInv, CallShapes, FetchShapes, Versions, CallsDistinct, Sure
<1>18. Edits'
  <2>1. CASE a.updatedAt = page.data.updatedAt
    BY <1>7, <1>12, <1>14, <2>1 DEF ConsoleInv, Edits, NotAfter
  <2>2. CASE a.updatedAt # page.data.updatedAt
    BY <1>7, <1>12, <2>2 DEF Edits
  <2> QED
    BY <2>1, <2>2
<1>19. Pending'
  <2>1. \A c \in calls : c.n # 0
    BY DEF ConsoleInv, CallShapes, CallShape
  <2>2. \A c \in calls : c.mount = page.mount /\ c.n \in {q.moving, q.saving} => c \in calls'
    BY <1>2, <1>8, <2>1
  <2> QED
    BY <1>8, <1>12, <1>16, <2>2 DEF ConsoleInv, Pending
<1>20. page'.data.updatedAt >= page.data.updatedAt
  BY <1>1, <1>3, <1>12, <1>14, ConsoleNats DEF NotAfter
<1> QED
  BY <1>15, <1>17, <1>18, <1>19, <1>20 DEF ConsoleInv

LEMMA FetchFailsInv ==
    ASSUME ConsoleInv, DeskWell, fetchFails, UNCHANGED desk
    PROVE  ConsoleInv' /\ page'.data = page.data
<1>1. /\ used' = [used EXCEPT !.broken = @ + 1] /\ calls' = calls \ Waiting
      /\ page' = [Fresh(page.mount + 1, page.data) EXCEPT !.failed = TRUE, !.sure = page.sure]
  BY DEF fetchFails
<1>2. fetches' = {}
  BY DEF fetchFails, ConsoleInv, FetchShapes
<1>3. /\ DOMAIN page' = {"mount", "data", "failed", "dialog", "notice", "moving", "saving", "values",
                         "edited", "sure"}
      /\ page'.mount = page.mount + 1 /\ page'.data = page.data /\ page'.sure = page.sure
      /\ page'.moving = 0 /\ page'.saving = 0 /\ page'.values = page.data.fields
  BY <1>1 DEF Fresh
<1>4. DOMAIN used' = DOMAIN used /\ used'.calls = used.calls /\ used'.broken \in Nat
  BY <1>1 DEF ConsoleInv, PageShape
<1>5. PageShape'
  BY <1>3, <1>4 DEF ConsoleInv, PageShape
<1>6. CallShapes'
  BY <1>1, <1>3, <1>4, ConsoleNats, CallKept DEF ConsoleInv, CallShapes
<1>7. Waiting' = {}
  BY <1>1 DEF Waiting
<1>8. FetchShapes' /\ Versions' /\ CallsDistinct' /\ Sure'
  BY <1>1, <1>2, <1>3 DEF ConsoleInv, FetchShapes, Versions, CallsDistinct, Sure
<1>9. Edits' /\ Pending'
  BY <1>3, <1>7 DEF Edits, Pending
<1> QED
  BY <1>3, <1>5, <1>6, <1>8, <1>9 DEF ConsoleInv

(* The server decides on a mutation of the page.                           *)
LEMMA DecidesInv ==
    ASSUME ConsoleInv, DeskWell, decides
    PROVE  ConsoleInv' /\ DeskWell' /\ DeskLater /\ UNCHANGED page
           /\ \A c \in calls : \A e \in calls' :
                (c.n = e.n /\ c.kind = "move" /\ c.pc = "sent" /\ e.pc = "decided" /\ e.code = "ok")
                    => desk[Viewed].state = c.seen
<1>1. PICK d : d = desk[Viewed]
  OBVIOUS
<1>2. PICK c \in calls :
        /\ c.pc = "sent"
        /\ LET code == IF c.kind = "save" THEN "ok"
                       ELSE Refusal(Workflow, d.state, d.fields, MyRoles, c.t, c.fields, c.expected)
               new  == IF code # "ok" THEN d
                       ELSE IF c.kind = "save" THEN Edited(d, c.fields) ELSE Moved(d, c.t, c.fields)
           IN  /\ desk' = [desk EXCEPT ![Viewed] = new]
               /\ calls' = (calls \ {c}) \cup {[c EXCEPT !.pc = "decided", !.code = code, !.stamp = new.updatedAt]}
  BY <1>1 DEF decides
<1>2a. PICK code : code = IF c.kind = "save" THEN "ok"
                          ELSE Refusal(Workflow, d.state, d.fields, MyRoles, c.t, c.fields, c.expected)
  OBVIOUS
<1>2b. PICK new : new = IF code # "ok" THEN d
                        ELSE IF c.kind = "save" THEN Edited(d, c.fields) ELSE Moved(d, c.t, c.fields)
  OBVIOUS
<1>3. /\ c.pc = "sent"
      /\ code = IF c.kind = "save" THEN "ok"
                ELSE Refusal(Workflow, d.state, d.fields, MyRoles, c.t, c.fields, c.expected)
      /\ new = IF code # "ok" THEN d
               ELSE IF c.kind = "save" THEN Edited(d, c.fields) ELSE Moved(d, c.t, c.fields)
      /\ desk' = [desk EXCEPT ![Viewed] = new]
      /\ calls' = (calls \ {c}) \cup {[c EXCEPT !.pc = "decided", !.code = code, !.stamp = new.updatedAt]}
  BY <1>2, <1>2a, <1>2b, Zenon
<1>4. UNCHANGED <<page, fetches, used>>
  BY DEF decides
<1>5. Well(d) /\ Viewed \in Submissions
  BY <1>1, ViewedAssumption DEF DeskWell
<1>6. CallShape(c, used.calls, page.mount, desk[Viewed].updatedAt)
  BY DEF ConsoleInv, CallShapes
<1>7. Well(new) /\ Later(d, new)
  <2>1. CASE code # "ok"
    BY <1>3, <1>5, <2>1, SameLater
  <2>2. CASE code = "ok" /\ c.kind = "save"
    <3>1. DOMAIN c.fields \subseteq Workflow.fields
      BY <1>6, <2>2 DEF CallShape
    <3> QED
      BY <1>3, <1>5, <2>2, <3>1, EditedWell
  <2>3. CASE code = "ok" /\ c.kind # "save"
    <3>1. Refusal(Workflow, d.state, d.fields, MyRoles, c.t, c.fields, c.expected) = "ok"
      BY <1>3, <2>3
    <3> QED
      BY <1>3, <1>5, <2>3, <3>1, MovedWell
  <2> QED
    BY <2>1, <2>2, <2>3
<1>8. DeskWell' /\ DeskLater
  BY <1>1, <1>3, <1>5, <1>7, RowLater
<1>9. desk'[Viewed] = new
  BY <1>3, <1>5 DEF DeskWell
<1>10. PICK v : v = new.updatedAt
  OBVIOUS
<1>11. PICK e : e = [c EXCEPT !.pc = "decided", !.code = code, !.stamp = v]
  OBVIOUS
<1>12. calls' = (calls \ {c}) \cup {e}
  BY <1>3, <1>10, <1>11
<1>13. /\ DOMAIN e = DOMAIN c /\ e.n = c.n /\ e.mount = c.mount /\ e.kind = c.kind /\ e.pc = "decided"
       /\ e.code = code /\ e.stamp = v /\ e.fields = c.fields /\ e.edited = c.edited
       /\ e.expected = c.expected /\ e.seen = c.seen
  BY <1>6, <1>11 DEF CallShape
<1>14. d.updatedAt \in Nat /\ v \in Nat /\ d.updatedAt <= v /\ NotAfter(d, new)
  BY <1>5, <1>7, <1>10, LaterNotAfter DEF Later
<1>15. CallShapes'
  <2>1. \A x \in calls : CallShape(x, used.calls, page.mount, v)
    BY <1>1, <1>14, ConsoleNats, CallKept DEF ConsoleInv, CallShapes
  <2>2. e.kind = "save" => e.code = "ok"
    BY <1>3, <1>13
  <2>3. CallShape(e, used.calls, page.mount, v)
    BY <1>6, <1>13, <1>14, <2>2 DEF CallShape
  <2> QED
    BY <1>4, <1>9, <1>10, <1>12, <2>1, <2>3 DEF CallShapes
<1>16. Waiting' = Waiting
  BY <1>3, <1>12, <1>13 DEF Waiting
<1>17. Versions'
  <2>1. NotAfter(page.data, new)
    BY <1>1, <1>10, <1>14, NotAfterOn, ConsoleNats DEF ConsoleInv, Versions
  <2>2. \A f \in fetches : f.pc = "read" => NotAfter(f.answer, new)
    BY <1>1, <1>10, <1>14, NotAfterOn, ConsoleNats DEF ConsoleInv, Versions
  <2> QED
    BY <1>4, <1>9, <1>16, <2>1, <2>2 DEF ConsoleInv, Versions
<1>18. PageShape' /\ FetchShapes' /\ Edits' /\ Sure'
  BY <1>4 DEF ConsoleInv, PageShape, FetchShapes, Edits, Sure
<1>19. CallsDistinct'
  BY <1>12, <1>13 DEF ConsoleInv, CallsDistinct
<1>20. Pending'
  <2>1. \A x \in calls : \E y \in calls' : y.n = x.n /\ y.mount = x.mount /\ y.kind = x.kind
    BY <1>12, <1>13
  <2> QED
    BY <1>4, <1>16, <2>1 DEF ConsoleInv, Pending
<1>21. c.kind = "move" /\ code = "ok" => desk[Viewed].state = c.seen
  <2> SUFFICES ASSUME c.kind = "move", code = "ok" PROVE desk[Viewed].state = c.seen
    OBVIOUS
  <2>1. c.expected = c.seen /\ c.seen \in StateNames
    BY <1>6 DEF CallShape
  <2>2. Refusal(Workflow, d.state, d.fields, MyRoles, c.t, c.fields, c.expected) = "ok"
    BY <1>3
  <2> QED
    BY <1>1, <2>1, <2>2, ExpectedIs
<1>22. ASSUME NEW x \in calls, NEW y \in calls', x.n = y.n, x.kind = "move", x.pc = "sent",
              y.pc = "decided", y.code = "ok"
       PROVE  desk[Viewed].state = x.seen
  <2>1. CASE y = e
    <3>1. x = c
      BY <1>13, <1>22, <2>1 DEF ConsoleInv, CallsDistinct
    <3> QED
      BY <1>13, <1>21, <1>22, <2>1, <3>1
  <2>2. CASE y # e
    <3>1. x = y
      BY <1>12, <1>22, <2>2 DEF ConsoleInv, CallsDistinct
    <3> QED
      BY <1>22, <3>1
  <2> QED
    BY <2>1, <2>2
<1> QED
  BY <1>4, <1>8, <1>15, <1>17, <1>18, <1>19, <1>20, <1>22 DEF ConsoleInv

(* A mutation succeeded, or met another state: the query is refetched.     *)
LEMMA RefreshInv ==
    ASSUME ConsoleInv, DeskWell, NEW c \in calls, c.pc = "decided", Refresh(c), UNCHANGED <<desk, used>>,
           NEW p, p = Settled(page), DOMAIN page' = DOMAIN page, page'.data = p.data, page'.mount = p.mount,
           page'.sure = p.sure, page'.moving = p.moving, page'.saving = p.saving,
           page'.values = p.values, page'.edited = p.edited
    PROVE  ConsoleInv'
<1>1. PICK e : e = [c EXCEPT !.pc = "refreshing"]
  OBVIOUS
<1>2. fetches' = {Asked} /\ calls' = (calls \ (Waiting \cup {c})) \cup {e}
  BY <1>1 DEF Refresh, Refetched
<1>3. CallShape(c, used.calls, page.mount, desk[Viewed].updatedAt)
  BY DEF ConsoleInv, CallShapes
<1>4. /\ DOMAIN e = DOMAIN c /\ e.n = c.n /\ e.mount = c.mount /\ e.kind = c.kind /\ e.pc = "refreshing"
      /\ e.code = c.code /\ e.stamp = c.stamp /\ e.fields = c.fields /\ e.edited = c.edited
      /\ e.expected = c.expected /\ e.seen = c.seen
  BY <1>1, <1>3 DEF CallShape
<1>5. CallShape(e, used.calls, page.mount, desk[Viewed].updatedAt)
  BY <1>3, <1>4 DEF CallShape
<1>6. PageShape
  BY DEF ConsoleInv
<1>7. /\ DOMAIN p = DOMAIN page /\ p.data = page.data /\ p.mount = page.mount
      /\ p.values = page.values /\ p.edited = page.edited /\ p.sure = page.sure
      /\ p.moving \in {page.moving, 0} /\ p.saving \in {page.saving, 0}
      /\ \A x \in Waiting : x.mount = page.mount /\ x.n # 0 => p.moving # x.n /\ p.saving # x.n
  BY <1>6, SettledIs
<1>8. PageShape'
  BY <1>6, <1>7 DEF PageShape
<1>9. CallShapes' /\ CallsDistinct'
  BY <1>2, <1>4, <1>5, <1>7 DEF ConsoleInv, CallShapes, CallsDistinct
<1>10. Asked.pc = "asked" /\ FetchShape(Asked)
  BY DEF Asked, FetchShape
<1>11. FetchShapes' /\ Versions'
  BY <1>2, <1>7, <1>10 DEF FetchShapes, ConsoleInv, Versions
<1>12. Edits' /\ Sure'
  BY <1>7 DEF ConsoleInv, Edits, Sure
<1>13. Pending'
  <2>1. \A x \in calls : x.n # 0
    BY DEF ConsoleInv, CallShapes, CallShape
  <2>2. \A x \in calls : x.mount = page.mount /\ x.n \in {p.moving, p.saving} =>
            \E y \in calls' : y.n = x.n /\ y.mount = x.mount /\ y.kind = x.kind
    BY <1>2, <1>4, <1>7, <2>1
  <2> QED
    BY <1>2, <1>7, <2>2 DEF ConsoleInv, Pending
<1> QED
  BY <1>8, <1>9, <1>11, <1>12, <1>13 DEF ConsoleInv

(* A mutation is over without a refetch.                                   *)
LEMMA CallOver ==
    ASSUME ConsoleInv, NEW c \in calls, c.pc # "refreshing", calls' = calls \ {c}, UNCHANGED <<desk, fetches>>,
           DOMAIN used' = DOMAIN used, used'.calls = used.calls, used'.broken \in Nat,
           DOMAIN page' = DOMAIN page, page'.data = page.data, page'.mount = page.mount,
           page'.sure = page.sure, page'.values = page.values, page'.edited = page.edited,
           page'.moving = IF page.moving = c.n THEN 0 ELSE page.moving,
           page'.saving \in {page.saving, 0}, page'.saving = c.n /\ page'.saving # 0 => c.kind # "save"
    PROVE  ConsoleInv'
<1>1. PageShape'
  BY DEF ConsoleInv, PageShape
<1>2. Waiting' = Waiting
  BY DEF Waiting
<1>3. CallShapes' /\ CallsDistinct' /\ FetchShapes' /\ Versions' /\ Edits' /\ Sure'
  BY <1>2 DEF ConsoleInv, CallShapes, CallsDistinct, FetchShapes, Versions, Edits, Sure
<1>4. Pending'
  BY <1>2 DEF ConsoleInv, Pending
<1> QED
  BY <1>1, <1>3, <1>4 DEF ConsoleInv

LEMMA CallAnsweredInv ==
    ASSUME ConsoleInv, DeskWell, callAnswered, UNCHANGED desk
    PROVE  ConsoleInv' /\ page'.data = page.data
<1>0. PICK p : p = Settled(page)
  OBVIOUS
<1>1. PICK c \in calls :
        /\ c.pc = "decided" /\ p = Settled(page)
        /\ IF c.kind = "move" /\ c.code \in {"ok", "state_conflict", "invalid_state"}
           THEN /\ Refresh(c)
                /\ page' = IF c.mount # page.mount THEN p
                           ELSE [p EXCEPT !.dialog = NoDialog, !.notice = c.code # "ok"]
           ELSE IF c.kind = "save" /\ c.code = "ok"
           THEN Refresh(c) /\ page' = p
           ELSE /\ calls' = calls \ {c}
                /\ page' = [page EXCEPT !.moving = IF page.moving = c.n THEN 0 ELSE page.moving]
                /\ UNCHANGED fetches
  BY <1>0 DEF callAnswered
<1>2. UNCHANGED used
  BY DEF callAnswered
<1>3. CallShape(c, used.calls, page.mount, desk[Viewed].updatedAt) /\ PageShape
  BY DEF ConsoleInv, CallShapes
<1>4. /\ DOMAIN p = DOMAIN page /\ p.data = page.data /\ p.mount = page.mount
      /\ DOMAIN p = {"mount", "data", "failed", "dialog", "notice", "moving", "saving", "values",
                     "edited", "sure"}
  BY <1>1, <1>3, SettledIs DEF PageShape
<1>5. CASE Refresh(c)
  <2>1. page' = p \/ \E n : page' = [p EXCEPT !.dialog = NoDialog, !.notice = n]
    <3>1. calls' # calls \ {c}
      <4>1. PICK e : e = [c EXCEPT !.pc = "refreshing"]
        OBVIOUS
      <4>2. e \in calls' /\ e.n = c.n /\ e # c
        BY <1>1, <1>3, <1>5, <4>1 DEF Refresh, CallShape
      <4> QED
        BY <4>2 DEF ConsoleInv, CallsDistinct
    <3> QED
      BY <1>1, <3>1
  <2>2. /\ DOMAIN page' = DOMAIN p /\ page'.data = p.data /\ page'.mount = p.mount
        /\ page'.sure = p.sure /\ page'.moving = p.moving /\ page'.saving = p.saving
        /\ page'.values = p.values /\ page'.edited = p.edited
    BY <1>4, <2>1
  <2> QED
    BY <1>1, <1>2, <1>4, <1>5, <2>2, RefreshInv
<1>6. CASE ~Refresh(c)
  <2>1. /\ calls' = calls \ {c} /\ UNCHANGED fetches /\ c.kind # "save"
        /\ page' = [page EXCEPT !.moving = IF page.moving = c.n THEN 0 ELSE page.moving]
    BY <1>1, <1>3, <1>6 DEF CallShape
  <2>2. /\ DOMAIN page' = DOMAIN page /\ page'.data = page.data /\ page'.mount = page.mount
        /\ page'.sure = page.sure /\ page'.saving = page.saving
        /\ page'.values = page.values /\ page'.edited = page.edited
        /\ page'.moving = IF page.moving = c.n THEN 0 ELSE page.moving
    BY <1>3, <2>1 DEF PageShape
  <2>3. DOMAIN used' = DOMAIN used /\ used'.calls = used.calls /\ used'.broken \in Nat
    BY <1>2, <1>3 DEF PageShape
  <2> QED
    BY <1>1, <2>1, <2>2, <2>3, CallOver
<1> QED
  BY <1>5, <1>6

LEMMA CallFailsInv ==
    ASSUME ConsoleInv, callFails, UNCHANGED desk
    PROVE  ConsoleInv' /\ page'.data = page.data
<1>1. PICK c \in calls :
        /\ c.pc \in {"sent", "decided"} /\ calls' = calls \ {c}
        /\ page' = [page EXCEPT !.moving = IF page.moving = c.n THEN 0 ELSE page.moving,
                                !.saving = IF page.saving = c.n THEN 0 ELSE page.saving]
  BY DEF callFails
<1>2. UNCHANGED fetches /\ used' = [used EXCEPT !.broken = @ + 1]
  BY DEF callFails
<1>3. DOMAIN used' = DOMAIN used /\ used'.calls = used.calls /\ used'.broken \in Nat
  BY <1>2 DEF ConsoleInv, PageShape
<1>4. /\ DOMAIN page' = DOMAIN page /\ page'.data = page.data /\ page'.mount = page.mount
      /\ page'.sure = page.sure /\ page'.values = page.values /\ page'.edited = page.edited
      /\ page'.moving = IF page.moving = c.n THEN 0 ELSE page.moving
      /\ page'.saving = IF page.saving = c.n THEN 0 ELSE page.saving
  BY <1>1 DEF ConsoleInv, PageShape
<1>5. page'.saving \in {page.saving, 0} /\ (page'.saving = c.n => page'.saving = 0)
  BY <1>4
<1> QED
  BY <1>1, <1>2, <1>3, <1>4, <1>5, CallOver

LEMMA ConsoleStepInv ==
    ASSUME ConsoleInv, DeskWell, UserStep \/ QueryStep, UNCHANGED desk
    PROVE  ConsoleInv' /\ page'.data.updatedAt >= page.data.updatedAt
<1>1. ASSUME page'.data = page.data PROVE page'.data.updatedAt >= page.data.updatedAt
  BY <1>1, ConsoleNats
<1>2. DOMAIN page = {"mount", "data", "failed", "dialog", "notice", "moving", "saving", "values",
                     "edited", "sure"}
  BY DEF ConsoleInv, PageShape
<1>3. CASE focus
  BY <1>1, <1>3, FocusInv DEF focus
<1>4. CASE clickTransition
  <2>1. page'.data = page.data
    <3>1. \E d, m : \/ page' = [[page EXCEPT !.notice = FALSE] EXCEPT !.moving = m]
                    \/ page' = [page EXCEPT !.notice = FALSE, !.dialog = d]
      BY <1>4 DEF clickTransition, mutate
    <3> QED
      BY <1>2, <3>1
  <2> QED
    BY <1>1, <1>4, <2>1, ClickInv
<1>5. CASE typeInDialog
  <2>1. page'.data = page.data
    BY <1>2, <1>5 DEF typeInDialog
  <2> QED
    BY <1>1, <1>5, <2>1, TypeInDialogInv
<1>6. CASE confirm
  <2>1. page'.data = page.data
    BY <1>2, <1>6 DEF confirm, mutate
  <2> QED
    BY <1>1, <1>6, <2>1, ConfirmInv
<1>7. CASE cancel
  <2>1. page'.data = page.data
    BY <1>2, <1>7 DEF cancel
  <2> QED
    BY <1>1, <1>7, <2>1, CancelInv
<1>8. CASE editField
  <2>1. page'.data = page.data
    BY <1>2, <1>8 DEF editField
  <2> QED
    BY <1>1, <1>8, <2>1, EditFieldInv
<1>9. CASE saveFields
  <2>1. page'.data = page.data
    BY <1>2, <1>9 DEF saveFields
  <2> QED
    BY <1>1, <1>9, <2>1, SaveFieldsInv
<1>10. CASE serverReads
  BY <1>1, <1>10, ServerReadsInv DEF serverReads
<1>11. CASE fetched
  BY <1>11, FetchedInv
<1>12. CASE fetchFails
  BY <1>1, <1>12, FetchFailsInv
<1>13. CASE callAnswered
  BY <1>1, <1>13, CallAnsweredInv
<1>14. CASE callFails
  BY <1>1, <1>14, CallFailsInv
<1> QED
  BY <1>3, <1>4, <1>5, <1>6, <1>7, <1>8, <1>9, <1>10, <1>11, <1>12, <1>13, <1>14 DEF UserStep, QueryStep

(* Only decides makes a call "decided".                                    *)
LEMMA ConsoleDecidesNone ==
    ASSUME ConsoleInv, UserStep \/ QueryStep
    PROVE  \A c \in calls : \A e \in calls' : ~(c.n = e.n /\ c.pc = "sent" /\ e.pc = "decided")
<1>1. ASSUME \A e \in calls' : e.pc = "decided" => e \in calls
      PROVE  \A c \in calls : \A e \in calls' : ~(c.n = e.n /\ c.pc = "sent" /\ e.pc = "decided")
  BY <1>1 DEF ConsoleInv, CallsDistinct
<1>2. \A kind, t, expected, fields : Call(kind, t, expected, fields).pc = "sent"
  BY DEF Call
<1>3. CASE focus \/ typeInDialog \/ cancel \/ editField \/ serverReads
  BY <1>1, <1>3 DEF focus, typeInDialog, cancel, editField, serverReads
<1>4. CASE clickTransition
  BY <1>1, <1>2, <1>4 DEF clickTransition, mutate
<1>5. CASE confirm
  BY <1>1, <1>2, <1>5 DEF confirm, mutate
<1>6. CASE saveFields
  BY <1>1, <1>2, <1>6 DEF saveFields
<1>7. CASE fetched \/ fetchFails \/ callFails
  BY <1>1, <1>7 DEF fetched, fetchFails, callFails
<1>8. CASE callAnswered
  <2>1. PICK c \in calls : Refresh(c) \/ calls' = calls \ {c}
    BY <1>8 DEF callAnswered
  <2>2. PICK e : e = [c EXCEPT !.pc = "refreshing"]
    OBVIOUS
  <2>3. e.pc = "refreshing"
    BY <2>2 DEF ConsoleInv, CallShapes, CallShape
  <2>4. calls' \subseteq calls \cup {e}
    BY <2>1, <2>2 DEF Refresh
  <2> QED
    BY <1>1, <2>3, <2>4
<1> QED
  BY <1>3, <1>4, <1>5, <1>6, <1>7, <1>8 DEF UserStep, QueryStep

-----------------------------------------------------------------------------
(* All pages over the server *)

(* No step of the tracker changes its link, unless it is given another.    *)
LEMMA TrackerStepKeeps ==
    ASSUME TrackerInv, TrackerStep
    PROVE  tracker'.run = tracker.run /\ tracker'.link = tracker.link /\ (lost \in Nat => lost' \in Nat)
<1>1. DOMAIN tracker = {"run", "link", "status", "error", "timer"}
  BY DEF TrackerInv, TrackerShape
<1>2. CASE readRow \/ readHistory
  BY <1>2 DEF readRow, readHistory
<1>3. CASE answers
  <2>1. \E p : \/ tracker' = tracker
               \/ tracker' = [tracker EXCEPT !.error = "not_found"]
               \/ tracker' = [tracker EXCEPT !.status = Status(p), !.error = "none", !.timer = GoesOn(p.row)]
    BY <1>3 DEF answers
  <2> QED
    BY <1>1, <1>3, <2>1 DEF answers
<1>4. CASE fails
  <2>1. tracker' = tracker \/ tracker' = [tracker EXCEPT !.error = "other", !.timer = Retries]
    BY <1>4 DEF fails
  <2> QED
    BY <1>1, <1>4, <2>1 DEF fails
<1>5. CASE tick
  BY <1>1, <1>5 DEF tick, Fired
<1> QED
  BY <1>2, <1>3, <1>4, <1>5 DEF TrackerStep

(* What every step of the pages keeps, and what it never does.             *)
StepSound ==
    /\ DeskWell' /\ TrackerInv' /\ DemoInv' /\ Mounting' /\ ConsoleInv' /\ lost' \in Nat
    /\ Forward
    /\ page'.data.updatedAt >= page.data.updatedAt
    /\ \A k \in tasks : \A l \in tasks' :
        (k.n = l.n /\ k.pc = "move" /\ l.pc = "moved" /\ l.code = "ok") => desk[Ours].state = k.seen
    /\ \A c \in calls : \A e \in calls' :
        (c.n = e.n /\ c.kind = "move" /\ c.pc = "sent" /\ e.pc = "decided" /\ e.code = "ok")
            => desk[Viewed].state = c.seen

LEMMA StepIsSound == ASSUME IInv, ViewNext PROVE StepSound
<1> USE DEF IInv
<1>1. lost \in Nat
  BY DEF Faults
<1>2. ASSUME UNCHANGED page PROVE page'.data.updatedAt >= page.data.updatedAt
  BY <1>2, ConsoleNats
<1>3. ASSUME UNCHANGED tasks PROVE NoneDecided
  BY <1>3, NoneDecidedIf
<1>4. ASSUME UNCHANGED calls
      PROVE  \A c \in calls : \A e \in calls' : ~(c.n = e.n /\ c.pc = "sent" /\ e.pc = "decided")
  BY <1>4 DEF ConsoleInv, CallsDistinct
<1>5. ASSUME UNCHANGED trackerVars, DeskWell', DeskLater PROVE TrackerInv' /\ Forward /\ lost' \in Nat
  <2>1. UNCHANGED <<tracker, polls>> /\ lost' = lost
    BY <1>5 DEF trackerVars
  <2> QED
    BY <1>1, <1>5, <2>1, TrackerSame, StatusForward
<1>6. CASE OthersStep
  <2>1. OthersAct /\ UNCHANGED <<trackerVars, demoVars, consoleVars, opened>>
    BY <1>6 DEF OthersStep
  <2>2. DeskWell' /\ DeskLater
    BY <2>1, OthersLater
  <2>3. TrackerInv' /\ Forward /\ lost' \in Nat
    BY <1>5, <2>1, <2>2
  <2>4. DemoInv' /\ ConsoleInv'
    BY <2>1, <2>2, PanelSame, ConsoleSame
  <2>5. Mounting'
    BY <2>1 DEF Mounting, trackerVars, demoVars
  <2>6. UNCHANGED <<page, tasks, calls>>
    BY <2>1 DEF demoVars, consoleVars
  <2> QED
    BY <1>2, <1>3, <1>4, <2>2, <2>3, <2>4, <2>5, <2>6 DEF StepSound, NoneDecided
<1>7. CASE TrackStep
  <2>1. (TrackerStep \/ (opened = "status" /\ changeLink)) /\ UNCHANGED <<deskVars, demoVars, consoleVars, opened>>
    BY <1>7 DEF TrackStep
  <2>2. DeskWell' /\ DeskLater /\ UNCHANGED desk
    BY <2>1, SameDesk DEF deskVars
  <2>3. TrackerInv' /\ Forward
    BY <2>1, <2>2, TrackerStepInv
  <2>4. DemoInv' /\ ConsoleInv'
    BY <2>1, <2>2, PanelSame, ConsoleSame
  <2>5. Mounting' /\ lost' \in Nat
    <3>1. CASE TrackerStep
      BY <1>1, <2>1, <3>1, TrackerStepKeeps DEF Mounting, demoVars
    <3>2. CASE opened = "status" /\ changeLink
      BY <1>1, <2>1, <3>2 DEF Mounting, demoVars, changeLink
    <3> QED
      BY <2>1, <3>1, <3>2
  <2>6. UNCHANGED <<page, tasks, calls>>
    BY <2>1 DEF demoVars, consoleVars
  <2> QED
    BY <1>2, <1>3, <1>4, <2>2, <2>3, <2>4, <2>5, <2>6 DEF StepSound, NoneDecided
<1>8. CASE PlayStep
  <2>1. opened = "demo" /\ (DemoStep \/ Answered) /\ UNCHANGED <<deskVars, consoleVars, opened>>
    BY <1>8 DEF PlayStep
  <2>2. DeskWell' /\ DeskLater /\ UNCHANGED desk
    BY <2>1, SameDesk DEF deskVars
  <2>3. DemoInv' /\ TrackerInv' /\ Mounting' /\ Forward
    BY <2>1, <2>2, PlayInv
  <2>4. ConsoleInv'
    BY <2>1, <2>2, ConsoleSame
  <2>5. lost' = lost
    BY <2>1 DEF DemoStep, Answered, configured, submitted, setPersona, setValues, run, loggedIn, read,
                loaded, moved, requestFails, trackerVars
  <2>6. UNCHANGED <<page, calls>>
    BY <2>1 DEF consoleVars
  <2>7. NoneDecided
    BY <2>1, PlayDecidesNone
  <2> QED
    BY <1>1, <1>2, <1>4, <2>2, <2>3, <2>4, <2>5, <2>6, <2>7 DEF StepSound, NoneDecided
<1>9. CASE ConsoleStep
  <2>1. (UserStep \/ QueryStep) /\ UNCHANGED <<deskVars, trackerVars, demoVars, opened>>
    BY <1>9 DEF ConsoleStep
  <2>2. DeskWell' /\ DeskLater /\ UNCHANGED desk
    BY <2>1, SameDesk DEF deskVars
  <2>3. TrackerInv' /\ Forward /\ lost' \in Nat
    BY <1>5, <2>1, <2>2
  <2>4. DemoInv'
    BY <2>1, PanelSame
  <2>5. Mounting'
    BY <2>1 DEF Mounting, trackerVars, demoVars
  <2>6. ConsoleInv' /\ page'.data.updatedAt >= page.data.updatedAt
    BY <2>1, <2>2, ConsoleStepInv
  <2>7. UNCHANGED tasks
    BY <2>1 DEF demoVars
  <2>8. \A c \in calls : \A e \in calls' : ~(c.n = e.n /\ c.pc = "sent" /\ e.pc = "decided")
    BY <2>1, ConsoleDecidesNone
  <2> QED
    BY <1>3, <2>2, <2>3, <2>4, <2>5, <2>6, <2>7, <2>8 DEF StepSound, NoneDecided
<1>10. CASE decide /\ UNCHANGED <<consoleVars, opened>>
  <2>1. UNCHANGED othersDid
    BY <1>10 DEF decide
  <2>2. /\ DemoInv' /\ DeskWell' /\ DeskLater /\ UNCHANGED trackerVars /\ demo' = demo
        /\ \A k \in tasks : \A l \in tasks' :
             (k.n = l.n /\ k.pc = "move" /\ l.pc = "moved" /\ l.code = "ok") => desk[Ours].state = k.seen
    BY <1>10, <2>1, DecideInv
  <2>3. TrackerInv' /\ Forward /\ lost' \in Nat
    BY <1>5, <2>2
  <2>4. ConsoleInv'
    BY <1>10, <2>2, ConsoleSame
  <2>5. Mounting'
    <3>1. tasks # {}
      BY <1>10 DEF decide
    <3> QED
      BY <1>10, <2>2, <3>1 DEF Mounting, trackerVars
  <2>6. UNCHANGED <<page, calls>>
    BY <1>10 DEF consoleVars
  <2> QED
    BY <1>2, <1>4, <2>2, <2>3, <2>4, <2>5, <2>6 DEF StepSound
<1>11. CASE decides /\ UNCHANGED <<trackerVars, demoVars, opened>>
  <2>1. /\ ConsoleInv' /\ DeskWell' /\ DeskLater /\ UNCHANGED page
        /\ \A c \in calls : \A e \in calls' :
             (c.n = e.n /\ c.kind = "move" /\ c.pc = "sent" /\ e.pc = "decided" /\ e.code = "ok")
                 => desk[Viewed].state = c.seen
    BY <1>11, DecidesInv
  <2>2. TrackerInv' /\ Forward /\ lost' \in Nat
    BY <1>5, <1>11, <2>1
  <2>3. DemoInv'
    BY <1>11, PanelSame
  <2>4. Mounting'
    BY <1>11 DEF Mounting, trackerVars, demoVars
  <2>5. UNCHANGED tasks
    BY <1>11 DEF demoVars
  <2> QED
    BY <1>2, <1>3, <2>1, <2>2, <2>3, <2>4, <2>5 DEF StepSound, NoneDecided
<1> QED
  BY <1>6, <1>7, <1>8, <1>9, <1>10, <1>11 DEF ViewNext, DecideStep

LEMMA DeskInitWell == ASSUME DeskInit PROVE DeskWell
<1>1. PICK d : d = [state |-> Workflow.initial, fields |-> << >>,
                    history |-> <<Workflow.initial>>, updatedAt |-> 1]
  OBVIOUS
<1>2. desk = [s \in Submissions |-> d]
  BY <1>1 DEF DeskInit
<1>3. /\ DOMAIN d = {"state", "fields", "history", "updatedAt"}
      /\ d.state = Workflow.initial /\ d.fields = << >> /\ d.history = <<Workflow.initial>>
      /\ d.updatedAt = 1
  BY <1>1
<1>4. Workflow.initial \in StateNames
  BY DeskAssumption
<1>5. d.history \in Seq(StateNames) /\ Len(d.history) = 1 /\ d.history[1] = d.state /\ d.history # << >>
  BY <1>3, <1>4
<1>6. DOMAIN d.fields = {}
  BY <1>3
<1>7. Well(d)
  BY <1>3, <1>4, <1>5, <1>6 DEF Well
<1> QED
  BY <1>2, <1>7 DEF DeskWell

LEMMA TrackerInitInv == ASSUME DeskWell, NEW l \in Links, TrackerInit(l) PROVE TrackerInv
<1>1. PICK q : q = Poll(1, l)
  OBVIOUS
<1>2. l \in [id : Submissions, right : BOOLEAN]
  BY LinksAssumption
<1>3. /\ q.run = 1 /\ q.id = l.id /\ q.right = l.right /\ q.row = Unread /\ q.history = << >>
      /\ q \in PollSet
  BY <1>1, <1>2 DEF Poll, PollSet
<1>4. /\ polls = {q}
      /\ tracker = [run |-> 1, link |-> l, status |-> NoStatus, error |-> "none", timer |-> FALSE]
  BY <1>1 DEF TrackerInit, Mounted
<1>5. TrackerShape
  BY <1>2, <1>3, <1>4 DEF TrackerShape
<1>6. Waits
  <2>1. ~Ended
    BY <1>4, NoSuchStates DEF Ended, NoStatus
  <2>2. Mine = {q}
    BY <1>3, <1>4 DEF Mine
  <2> QED
    BY <1>4, <2>1, <2>2 DEF Waits
<1>7. StatusSound
  BY <1>4 DEF StatusSound
<1>8. PollSound(q)
  <2>1. tracker.run = 1 /\ tracker.link = l /\ Unread \notin StateNames /\ Unread # "not_found"
    BY <1>4, NoSuchStates DEF Unread
  <2> QED
    BY <1>3, <2>1 DEF PollSound
<1> QED
  BY <1>4, <1>5, <1>6, <1>7, <1>8 DEF TrackerInv

LEMMA NotMountedInv == ASSUME NotMounted PROVE TrackerInv /\ tracker.run = 0
<1>0. PICK l : /\ tracker = [run |-> 0, link |-> l, status |-> NoStatus, error |-> "none", timer |-> FALSE]
                /\ polls = {}
  BY DEF NotMounted, Mounted
<1>1. /\ DOMAIN tracker = {"run", "link", "status", "error", "timer"} /\ tracker.run = 0
      /\ tracker.status = NoStatus /\ tracker.error = "none" /\ polls = {}
      /\ ~tracker.timer /\ tracker.timer \in BOOLEAN
  BY <1>0
<1>2. TrackerShape
  <2>1. tracker.run \in Nat /\ ~(tracker.run > 0) /\ polls \subseteq PollSet
    BY <1>1
  <2> QED
    BY <1>1, <2>1, Zenon DEF TrackerShape
<1>3. Waits
  BY <1>1 DEF Waits
<1>4. StatusSound
  BY <1>1 DEF StatusSound
<1> QED
  BY <1>1, <1>2, <1>3, <1>4 DEF TrackerInv

LEMMA DemoInitInv ==
    ASSUME \/ NotOpened \/ DemoInit
    PROVE  DemoInv /\ tasks = {} /\ ~demo.submitted /\ did.failures = 0
<1>1. \E x : demo = [status |-> x, demoMode |-> FALSE, submitted |-> FALSE]
  BY DEF NotOpened, DemoInit
<1>2. /\ panel = [persona |-> First, detail |-> NoDetail, values |-> << >>, busy |-> Blank, error |-> FALSE]
      /\ cookie = NoPersona /\ tasks = {}
      /\ did = [tasks |-> 0, runs |-> 0, switches |-> 0, failures |-> 0]
  BY DEF NotOpened, DemoInit
<1>3. DOMAIN demo = {"status", "demoMode", "submitted"} /\ ~demo.submitted /\ demo.submitted \in BOOLEAN
  BY <1>1
<1>4. /\ DOMAIN panel = {"persona", "detail", "values", "busy", "error"}
      /\ panel.persona \in DOMAIN Personas /\ panel.busy = Blank /\ panel.detail = NoDetail
  BY <1>2, DemoAssumption
<1>5. DOMAIN did = {"tasks", "runs", "switches", "failures"} /\ did.tasks = 0 /\ did.failures = 0
  BY <1>2
<1> QED
  BY <1>2, <1>3, <1>4, <1>5 DEF DemoInv, DemoShape, PanelShape, TasksDistinct, RunsOnce

LEMMA ConsoleInitInv ==
    ASSUME DeskWell, NEW b \in BOOLEAN, ConsoleInit(b)
    PROVE  ConsoleInv /\ used.broken = 0
<1>1. /\ page = Fresh(1, Nothing) /\ calls = {} /\ used = [calls |-> 0, focus |-> 0, broken |-> 0]
      /\ fetches = {} \/ fetches = {Asked}
  BY DEF ConsoleInit
<1>2. DOMAIN used = {"calls", "focus", "broken"} /\ used.calls = 0 /\ used.broken = 0
  BY <1>1
<1>3. /\ DOMAIN page = {"mount", "data", "failed", "dialog", "notice", "moving", "saving", "values",
                        "edited", "sure"}
      /\ page.mount = 1 /\ page.data = Nothing /\ page.sure = 0 /\ page.moving = 0 /\ page.saving = 0
      /\ page.values = Nothing.fields
  BY <1>1 DEF Fresh
<1>4. Nothing.updatedAt = 0
  BY DEF Nothing
<1>5. PageShape
  BY <1>2, <1>3 DEF PageShape, DataWell
<1>6. Asked.pc = "asked" /\ FetchShape(Asked)
  BY DEF Asked, FetchShape
<1>7. desk[Viewed].updatedAt \in Nat /\ desk[Viewed].updatedAt > 0
  <2>1. Well(desk[Viewed])
    BY ViewedAssumption DEF DeskWell
  <2> QED
    BY <2>1 DEF Well
<1>8. FetchShapes /\ Versions
  BY <1>1, <1>3, <1>4, <1>6, <1>7 DEF FetchShapes, Versions, NotAfter
<1>9. CallShapes /\ CallsDistinct /\ Edits /\ Pending /\ Sure
  BY <1>1, <1>3, <1>4 DEF CallShapes, CallsDistinct, Edits, Pending, Sure, Waiting
<1> QED
  BY <1>2, <1>5, <1>8, <1>9 DEF ConsoleInv

LEMMA InitInv == ASSUME ViewInit PROVE IInv
<1>1. DeskWell
  BY DeskInitWell DEF ViewInit
<1>2. (\E l \in Links : TrackerInit(l)) \/ NotMounted
  BY DEF ViewInit
<1>3. TrackerInv /\ (opened = "demo" => tracker.run = 0) /\ lost = 0
  BY <1>1, <1>2, TrackerInitInv, NotMountedInv DEF ViewInit, TrackerInit, NotMounted
<1>4. DemoInv /\ tasks = {} /\ ~demo.submitted /\ did.failures = 0
  BY DemoInitInv DEF ViewInit
<1>5. ConsoleInv /\ used.broken = 0
  BY <1>1, ConsoleInitInv DEF ViewInit
<1>6. Mounting
  BY <1>3, <1>4 DEF Mounting, ViewInit
<1>7. Faults
  BY <1>3, <1>4, <1>5, FaultsAssumption DEF Faults
<1> QED
  BY <1>1, <1>3, <1>4, <1>5, <1>6, <1>7 DEF IInv

LEMMA NextInv == ASSUME IInv, ViewNext PROVE IInv'
<1>1. StepSound
  BY StepIsSound
<1>2. Faults'
  BY <1>1 DEF StepSound, ViewNext, Faults
<1> QED
  BY <1>1, <1>2 DEF StepSound, IInv

LEMMA StutterInv == ASSUME IInv, UNCHANGED viewVars PROVE IInv'
<1>1. UNCHANGED <<desk, trackerVars, demoVars, consoleVars, opened>>
  BY DEF viewVars, deskVars
<1>2. UNCHANGED <<tracker, polls, lost, demo, did, used>>
  BY <1>1 DEF trackerVars, demoVars, consoleVars
<1>3. DeskWell' /\ DeskLater
  BY <1>1, SameDesk DEF IInv
<1>4. TrackerInv' /\ DemoInv' /\ ConsoleInv'
  BY <1>1, <1>2, <1>3, TrackerSame, PanelSame, ConsoleSame DEF IInv
<1>5. Mounting' /\ Faults'
  BY <1>1, <1>2 DEF IInv, Mounting, Faults, demoVars
<1> QED
  BY <1>3, <1>4, <1>5 DEF IInv

(* The pages, the server and who else works on it keep the invariant.      *)
THEOREM PagesInvariant == ViewSpec => []IInv
<1>1. IInv /\ [ViewNext]_viewVars => IInv'
  BY NextInv, StutterInv
<1> QED
  BY <1>1, InitInv, PTL DEF ViewSpec

-----------------------------------------------------------------------------

(* The status page shows the submission of its link and nothing else, with *)
(* one chain of steps that agrees with the history, and it waits for one   *)
(* answer or one timer, or has ended: StatusTracker.tsx.                   *)
THEOREM TrackerIsSound == ViewSpec => []TrackerSound
<1>1. IInv => TrackerSound
  BY TrackerInvSound DEF IInv
<1> QED
  BY <1>1, PagesInvariant, PTL

LEMMA InvOneRun == ASSUME DemoInv PROVE OneRun
<1>1. PICK runs : runs = {k \in tasks : k.kind = "run"}
  OBVIOUS
<1>2. runs = {} \/ \E k : runs = {k}
  BY <1>1 DEF DemoInv, RunsOnce
<1>3. Cardinality(runs) <= 1
  <2>1. runs = {} => Cardinality(runs) = 0
    BY FS_EmptySet
  <2>2. \A k : runs = {k} => Cardinality(runs) = 1
    BY FS_Singleton
  <2> QED
    BY <1>2, <2>1, <2>2
<1>4. panel.busy # Blank <=> runs # {}
  BY <1>1 DEF DemoInv, RunsOnce
<1> QED
  BY <1>1, <1>3, <1>4 DEF OneRun

LEMMA AtMostOne == ASSUME NEW S, S = {} \/ \E x : S = {x} PROVE Cardinality(S) <= 1
<1>1. S = {} => Cardinality(S) = 0
  BY FS_EmptySet
<1>2. \A x : S = {x} => Cardinality(S) = 1
  BY FS_Singleton
<1> QED
  BY <1>1, <1>2

LEMMA InvTypeOK == ASSUME IInv PROVE ViewTypeOK
<1>1. opened \in {"status", "demo", "console"}
  BY DEF IInv, Mounting
<1>2. \A s \in Submissions :
        /\ desk[s].history[Len(desk[s].history)] = desk[s].state
        /\ desk[s].updatedAt >= Len(desk[s].history)
        /\ DOMAIN desk[s].fields \subseteq Workflow.fields
  BY DEF IInv, DeskWell, Well
<1>3. tracker.error \in {"none", "other", "not_found"}
  BY DEF IInv, TrackerInv, TrackerShape
<1>4. lost \in 0..MaxFaults
  BY FaultsAssumption DEF IInv, Faults, DemoInv, DemoShape, PanelShape, ConsoleInv, PageShape
<1>5. /\ panel.persona \in DOMAIN Personas /\ cookie \in DOMAIN Personas \cup {NoPersona}
      /\ panel.busy \in DOMAIN Workflow.transitions \cup {Blank}
  BY DEF IInv, DemoInv, DemoShape, PanelShape
<1>6. /\ \A c \in calls : c.n \in 1..used.calls /\ c.mount \in 1..page.mount
      /\ page.moving \in 0..used.calls /\ page.saving \in 0..used.calls
  BY DEF IInv, ConsoleInv, PageShape, CallShapes, CallShape
<1>7. Cardinality(fetches) <= 1
  <2>1. fetches = {} \/ \E f : fetches = {f}
    BY DEF IInv, ConsoleInv, FetchShapes
  <2> QED
    BY <2>1, AtMostOne
<1> QED
  BY <1>1, <1>2, <1>3, <1>4, <1>5, <1>6, <1>7 DEF ViewTypeOK

(* Nothing on a page hangs: a busy panel has its run, a disabled button    *)
(* its call, and a call that awaits the refetch a fetch (ReviewerPanel.tsx,*)
(* TransitionBar.tsx, WorkflowFieldsPanel.tsx).                            *)
THEOREM PagesAreSound == ViewSpec => []PagesSound
<1>1. IInv => NothingStuck
  BY DEF IInv, ConsoleInv, Pending, NothingStuck
<1>2. IInv => PagesSound
  BY <1>1, InvOneRun, InvTypeOK DEF IInv, PagesSound
<1> QED
  BY <1>2, PagesInvariant, PTL

(* Once a mutation has settled and its refetch succeeded, the page shows   *)
(* the version that the server answered about, or a later one.             *)
THEOREM OwnChangeIsSeen == ViewSpec => []SeesOwnChange
<1>1. IInv => SeesOwnChange
  BY DEF IInv, ConsoleInv, Sure, SeesOwnChange
<1> QED
  BY <1>1, PagesInvariant, PTL

(* "Save fields" sends no field that its user did not edit.                *)
THEOREM OnlyEditsAreSaved == ViewSpec => []SavesOnlyEdits
<1>1. IInv => SavesOnlyEdits
  BY DEF IInv, ConsoleInv, CallShapes, CallShape, SavesOnlyEdits
<1> QED
  BY <1>1, PagesInvariant, PTL

(* Neither the status page nor the console goes back to an older version   *)
(* of what it shows.                                                       *)
THEOREM NoPageGoesBack == ViewSpec => NeverGoesBack
<1>1. IInv /\ IInv' /\ [ViewNext]_viewVars =>
        [tracker'.run = tracker.run => IsPrefix(tracker.status.history, tracker'.status.history)]_tracker
  <2>1. ASSUME IInv, IInv', ViewNext, tracker'.run = tracker.run
        PROVE  IsPrefix(tracker.status.history, tracker'.status.history)
    BY <2>1, StepIsSound, ForwardShown DEF StepSound, IInv
  <2>2. UNCHANGED viewVars => UNCHANGED tracker
    BY DEF viewVars, trackerVars
  <2> QED
    BY <2>1, <2>2
<1>2. IInv /\ [ViewNext]_viewVars => [page'.data.updatedAt >= page.data.updatedAt]_page
  <2>1. ASSUME IInv, ViewNext PROVE page'.data.updatedAt >= page.data.updatedAt
    BY <2>1, StepIsSound DEF StepSound
  <2>2. UNCHANGED viewVars => UNCHANGED page
    BY DEF viewVars, consoleVars
  <2> QED
    BY <2>1, <2>2
<1> QED
  BY <1>1, <1>2, PagesInvariant, PTL DEF ViewSpec, NeverGoesBack, NeverBack, DataNeverBack

(* From either page, a transition is applied only to a submission in the   *)
(* state that its user was shown, whatever others do to it meanwhile.      *)
THEOREM MovesAreAsShown == ViewSpec => MovesAsShown
<1>1. IInv /\ [ViewNext]_viewVars =>
        [\A k \in tasks : \A l \in tasks' :
            (k.n = l.n /\ k.pc = "move" /\ l.pc = "moved" /\ l.code = "ok")
                => desk[Ours].state = k.seen]_<<desk, tasks>>
  <2>1. UNCHANGED viewVars => UNCHANGED <<desk, tasks>>
    BY DEF viewVars, deskVars, demoVars
  <2> QED
    BY <2>1, StepIsSound DEF StepSound
<1>2. IInv /\ [ViewNext]_viewVars =>
        [\A c \in calls : \A e \in calls' :
            (c.n = e.n /\ c.kind = "move" /\ c.pc = "sent" /\ e.pc = "decided" /\ e.code = "ok")
                => desk[Viewed].state = c.seen]_<<desk, calls>>
  <2>1. UNCHANGED viewVars => UNCHANGED <<desk, calls>>
    BY DEF viewVars, deskVars, consoleVars
  <2> QED
    BY <2>1, StepIsSound DEF StepSound
<1> QED
  BY <1>1, <1>2, PagesInvariant, PTL DEF ViewSpec, MovesAsShown, MovesWhatIsShown, AppliedAsShown
=============================================================================
