--------------------------- MODULE WorkflowEngine --------------------------
(***************************************************************************)
(* The workflow engine (server/workflow/engine.py) and the submissions     *)
(* table under it (server/models/submissions.py), as Postgres transactions *)
(* at READ COMMITTED.  An operation that changes a row begins by locking   *)
(* it (FOR UPDATE, or the UPDATE itself) and reading it, computes what it  *)
(* will write, and later commits or rolls back: Begin... stages the        *)
(* columns, the event and the jobs of one transaction, Commit publishes    *)
(* them together, Abort drops them.  Requests that the rules refuse raise  *)
(* before they write and change nothing, so they are not steps.            *)
(***************************************************************************)
EXTENDS WorkflowRules, Naturals, Sequences

CONSTANTS
    Submissions, Versions, Workflow, NoWorkflow, NotCreated, Users, Nobody,
    RemarkTypes,
    Clients,       \* requests, and workers running an assign action
    NoClient,      \* a row that nobody has locked
    Principals,    \* the role sets of callers
    Patches,       \* the field patches callers send
    Expectations,  \* the expectedState values callers send
    MaxEvents      \* bound: events in the timeline of one submission

ASSUME EngineAssumption ==
    /\ NoWorkflow \notin Versions
    /\ NotCreated \notin Versions \cup {NoWorkflow}
    /\ Nobody \notin Users
    /\ NoClient \notin Clients
    /\ \A patch \in Patches : patch \in [DOMAIN patch -> Values \cup {Unset, Invalid}]
    /\ RemarkTypes \cap {"created", "transition", "fields_updated", "assigned"} = {}
    /\ MaxEvents \in Nat

(* validate_workflow: a state's key is never the "" that stands for NULL. *)
ASSUME StatesNamed ==
    \A v \in Versions :
        /\ Workflow[v].initial # ""
        /\ \A t \in DOMAIN Workflow[v].transitions : Workflow[v].transitions[t].to # ""

VARIABLES
    state, fields, assignee, version, timeline, outbox,
    users,         \* the users that exist
    current,       \* the workflow version the form's current version pins
    lock,          \* [Submissions -> Clients \cup {NoClient}]: row locks
    tx,            \* [Clients -> what its open transaction has staged]
    view           \* a respondent's status request: what it has read so far

columns == <<state, fields, assignee, version>>
tables  == <<columns, timeline, outbox>>
vars    == <<tables, users, current, lock, tx, view>>

Log == INSTANCE SubmissionLog

Exists(s)      == Log!Exists(s)
HasWorkflow(s) == Log!HasWorkflow(s)
Definition(s)  == Log!Definition(s)

-----------------------------------------------------------------------------

NoTx   == [op |-> "none"]     \* a client without a transaction
NoView == [step |-> "idle"]   \* a reader that has read nothing

Open(c) == tx[c].op # "none"

Init ==
    /\ Log!Init
    /\ users = Users
    /\ current \in Versions \cup {NoWorkflow}
    /\ lock = [s \in Submissions |-> NoClient]
    /\ tx = [c \in Clients |-> NoTx]
    /\ view = NoView

(* Mutant: SELECT without FOR UPDATE. *)
FreeUnlocked(s) == s \in Submissions

(* The row is not locked, or the request waits. *)
Free(s) == lock[s] = NoClient

(* Bound: an open transaction will add one event. *)
Room(s) == Len(timeline[s]) + (IF Free(s) THEN 0 ELSE 1) < MaxEvents

(* Client c has locked s and written, uncommitted: the columns, the event  *)
(* and the jobs of an operation.                                           *)
Stage(c, s, op, written, expected, event, actions) ==
    /\ ~Open(c)
    /\ Free(s)
    /\ Room(s)
    /\ lock' = [lock EXCEPT ![s] = c]
    /\ tx' = [tx EXCEPT ![c] =
                [op |-> op, sub |-> s, written |-> written, expected |-> expected,
                 event |-> event, actions |-> actions]]
    /\ UNCHANGED <<tables, users, current, view>>

(* What an operation on an existing row writes to it. *)
Written(s, to, patch, u, v) ==
    [state |-> to, fields |-> merged(fields[s], patch), assignee |-> u, version |-> v]

(* subs.create and the on_created hook: the new row pins the version that  *)
(* is current when the transaction reads the form.                         *)
BeginCreate(c, s) ==
    /\ ~Exists(s)
    /\ Stage(c, s, "create",
             [state |-> Log!InitialState(current), fields |-> Log!NoFields,
              assignee |-> Nobody, version |-> current], "",
             Log!CreatedEvent(current), Log!OnSubmit(current))

BeginTransition(c, s) ==
    /\ HasWorkflow(s)
    /\ \E t \in DOMAIN Definition(s).transitions, roles \in Principals,
          patch \in Patches, expected \in Expectations :
        /\ Refusal(Definition(s), state[s], fields[s], roles, t, patch, expected) = "ok"
        /\ Stage(c, s, "transition",
                 Written(s, Definition(s).transitions[t].to, patch, assignee[s], version[s]),
                 expected,
                 Log!TransitionEvent(s, t, patch), Definition(s).transitions[t].actions)

(* A patch that changes nothing commits an empty transaction. *)
BeginUpdateFields(c, s) ==
    /\ HasWorkflow(s)
    /\ \E patch \in Patches :
        /\ PatchValid(Definition(s), patch)
        /\ ChangedKeys(fields[s], patch) # {}
        /\ Stage(c, s, "fields",
                 Written(s, state[s], patch, assignee[s], version[s]), "",
                 Log!FieldsEvent(s, patch), {})

BeginAssign(c, s) ==
    /\ Exists(s)
    /\ \E u \in users \cup {Nobody} :
        /\ assignee[s] # u
        /\ Stage(c, s, "assign",
                 Written(s, state[s], Log!NoFields, u, version[s]), "",
                 Log!AssignedEvent(u), {})

(* The assign action of a job: it does not read the assignee and always    *)
(* writes an event.  Its UPDATE takes a weaker lock than FOR UPDATE.       *)
BeginRunAssign(c, s) ==
    /\ Exists(s)
    /\ \E u \in users :
        Stage(c, s, "run_assign",
              Written(s, state[s], Log!NoFields, u, version[s]), "",
              Log!AssignedEvent(u), {})

(* comment, record_success and on_failed lock nothing themselves, but the  *)
(* foreign key of the event makes the insert wait for a FOR UPDATE lock.   *)
Remark(s) ==
    /\ Exists(s)
    /\ \A c \in Clients : lock[s] = c => tx[c].op = "run_assign"
    /\ Room(s)
    /\ \E type \in RemarkTypes : Log!Record(s, Log!RemarkEvent(type), {})
    /\ UNCHANGED <<columns, users, current, lock, tx, view>>

Finish(c) ==
    /\ lock' = [lock EXCEPT ![tx[c].sub] = NoClient]
    /\ tx' = [tx EXCEPT ![c] = NoTx]
    /\ UNCHANGED <<users, current, view>>

Put(column, s, value, op, ops) == IF op \in ops THEN [column EXCEPT ![s] = value] ELSE column

Commit(c) ==
    /\ Open(c)
    /\ LET op == tx[c].op
           s  == tx[c].sub
           w  == tx[c].written
       IN  /\ state' = Put(state, s, w.state, op, {"create", "transition"})
           /\ fields' = Put(fields, s, w.fields, op, {"create", "transition", "fields"})
           /\ assignee' = Put(assignee, s, w.assignee, op, {"create", "assign", "run_assign"})
           /\ version' = Put(version, s, w.version, op, {"create"})
           /\ Log!Record(s, tx[c].event, tx[c].actions)
    /\ Finish(c)

(* Mutant: the jobs are enqueued in a transaction of their own. *)
AbortKeepsJobs(c) ==
    /\ Open(c)
    /\ outbox' = outbox \cup
          {<<tx[c].sub, Len(timeline[tx[c].sub]) + 1, a>> : a \in tx[c].actions}
    /\ Finish(c)
    /\ UNCHANGED <<columns, timeline>>

(* The transaction raises or its connection is lost: nothing is written. *)
Abort(c) ==
    /\ Open(c)
    /\ Finish(c)
    /\ UNCHANGED tables

-----------------------------------------------------------------------------
(* The rest of the system, as far as it touches submissions. *)

(* delete_user: ON DELETE SET NULL updates the rows assigned to the user,  *)
(* so it waits for their locks; an uncommitted assignment to the user      *)
(* holds a key lock on the user, so it waits for that too.                 *)
DeleteUser(u) ==
    /\ u \in users
    /\ \A s \in Submissions : assignee[s] = u => Free(s)
    /\ \A c \in Clients : Open(c) => tx[c].op \notin {"assign", "run_assign"} \/ tx[c].written.assignee # u
    /\ users' = users \ {u}
    /\ assignee' = [s \in Submissions |-> IF assignee[s] = u THEN Nobody ELSE assignee[s]]
    /\ UNCHANGED <<state, fields, version, timeline, outbox, current, lock, tx, view>>

(* A new version of the form becomes current. *)
Publish ==
    /\ \E v \in Versions \cup {NoWorkflow} : v # current /\ current' = v
    /\ UNCHANGED <<tables, users, lock, tx, view>>

(* public_status reads the row and then, in a second statement with its    *)
(* own snapshot, the history.                                              *)
ReadState(s) ==
    /\ Exists(s)
    /\ view.step = "idle"
    /\ view' = [step |-> "row", sub |-> s, state |-> state[s], history |-> {}]
    /\ UNCHANGED <<tables, users, current, lock, tx>>

(* Mutant: the history leaves the created event out. *)
ReadHistoryTransitionsOnly ==
    /\ view.step = "row"
    /\ LET log == timeline[view.sub]
       IN  view' = [view EXCEPT
                        !.history = {log[i].to : i \in {j \in DOMAIN log : log[j].from # ""}},
                        !.step = "done"]
    /\ UNCHANGED <<tables, users, current, lock, tx>>

ReadHistory ==
    /\ view.step = "row"
    /\ LET log == timeline[view.sub]
       IN  view' = [view EXCEPT !.history = {log[i].to : i \in DOMAIN log} \ {""},
                                !.step = "done"]
    /\ UNCHANGED <<tables, users, current, lock, tx>>

Respond ==
    /\ view.step = "done"
    /\ view' = NoView
    /\ UNCHANGED <<tables, users, current, lock, tx>>

Next ==
    \/ \E c \in Clients, s \in Submissions :
        BeginCreate(c, s) \/ BeginTransition(c, s) \/ BeginUpdateFields(c, s)
            \/ BeginAssign(c, s) \/ BeginRunAssign(c, s)
    \/ \E c \in Clients : Commit(c) \/ Abort(c)
    \/ \E s \in Submissions : Remark(s) \/ ReadState(s)
    \/ ReadHistory \/ Respond
    \/ \E u \in Users : DeleteUser(u)
    \/ Publish

Spec == Init /\ [][Next]_vars

-----------------------------------------------------------------------------
(* Properties. *)

(* Every variable has its type, a row lock belongs to the transaction that *)
(* works on the row, and a stored field is a real value of a known key.    *)
TypeOK ==
    /\ version \in [Submissions -> Versions \cup {NoWorkflow, NotCreated}]
    /\ assignee \in [Submissions -> Users \cup {Nobody}]
    /\ \A s \in Submissions :
        /\ DOMAIN fields[s] \subseteq (IF HasWorkflow(s) THEN Definition(s).fields ELSE {})
        /\ \A k \in DOMAIN fields[s] : fields[s][k] \in Values
        /\ Len(timeline[s]) <= MaxEvents
    /\ users \subseteq Users
    /\ current \in Versions \cup {NoWorkflow}
    /\ lock \in [Submissions -> Clients \cup {NoClient}]
    /\ \A c \in Clients : Open(c) => lock[tx[c].sub] = c
    /\ \A s \in Submissions : lock[s] # NoClient => Open(lock[s])

IsMove(s, i) == timeline[s][i].type \in {"created", "transition"}

(* Event i is the last of s, before event n, that moves it. *)
LastMoveBefore(s, i, n) == IsMove(s, i) /\ \A j \in (i + 1)..(n - 1) : ~IsMove(s, j)

(* The timeline tells the whole story of the state (workflow/engine.py     *)
(* transition): it begins with the one created event, each transition      *)
(* leaves the state the previous move reached, and the last move reached   *)
(* the state the row has.  Two reviewers never both leave one state.       *)
TimelineChains ==
    \A s \in Submissions :
        /\ Exists(s) <=> timeline[s] # << >>
        /\ \A i \in DOMAIN timeline[s] : timeline[s][i].type = "created" <=> i = 1
        /\ \A i \in DOMAIN timeline[s] : timeline[s][i].type = "transition" =>
                \E j \in 1..(i - 1) :
                    LastMoveBefore(s, j, i) /\ timeline[s][j].to = timeline[s][i].from
        /\ Exists(s) =>
                \E j \in DOMAIN timeline[s] :
                    LastMoveBefore(s, j, Len(timeline[s]) + 1) /\ timeline[s][j].to = state[s]

(* The value of field k according to the first n events of s. *)
Told(s, k, n) ==
    LET telling == {i \in 1..n : k \in DOMAIN timeline[s][i].fields}
    IN  IF telling = {} THEN Unset
        ELSE timeline[s][CHOOSE i \in telling : \A j \in telling : j <= i].fields[k]

FieldKeys == UNION {Workflow[v].fields : v \in Versions}

(* merge_fields: the changes that the events record add up to the row's    *)
(* fields, so no edit of a field is lost and none goes unrecorded.         *)
FieldsMatchTimeline ==
    \A s \in Submissions, k \in FieldKeys :
        Told(s, k, Len(timeline[s])) = IF k \in DOMAIN fields[s] THEN fields[s][k] ELSE Unset

(* The assignee is who the last assigned event names, or nobody once that  *)
(* user is deleted, and is never a user who is gone.                       *)
AssigneeMatchesTimeline ==
    \A s \in Submissions :
        LET assigned == {i \in DOMAIN timeline[s] : timeline[s][i].type = "assigned"}
            last     == IF assigned = {} THEN Nobody
                        ELSE timeline[s][CHOOSE i \in assigned :
                                            \A j \in assigned : j <= i].assignee
        IN  assignee[s] = IF last \in users THEN last ELSE Nobody

(* A row is well formed and is what its timeline adds up to. *)
RowMatchesTimeline == TypeOK /\ FieldsMatchTimeline /\ AssigneeMatchesTimeline

(* The actions event i of s must have queued. *)
Owed(s, i) ==
    CASE timeline[s][i].type = "created"    -> Log!OnSubmit(version[s])
      [] timeline[s][i].type = "transition" ->
             Definition(s).transitions[timeline[s][i].transition].actions
      [] OTHER -> {}

(* "A failed transition never fires actions and a committed one always     *)
(* does": the jobs are exactly those of the committed events, under the    *)
(* version of the workflow the submission was created with.                *)
OutboxExact ==
    /\ \A job \in outbox :
        /\ job[1] \in Submissions /\ job[2] \in DOMAIN timeline[job[1]]
        /\ job[3] \in Owed(job[1], job[2])
    /\ \A s \in Submissions : \A i \in DOMAIN timeline[s] : \A a \in Owed(s, i) :
            <<s, i, a>> \in outbox

(* Every transition in a timeline is one that the pinned workflow allows,  *)
(* and the fields it requires had a value when it was made, whatever the   *)
(* same request set or unset.                                              *)
TransitionsLegal ==
    \A s \in Submissions : \A i \in DOMAIN timeline[s] :
        LET e  == timeline[s][i]
            tr == Definition(s).transitions[e.transition]
        IN  e.type = "transition" =>
                /\ e.transition \in DOMAIN Definition(s).transitions
                /\ e.from \in tr.from /\ e.to = tr.to
                /\ \A k \in tr.requireFields : Told(s, k, i) \notin EmptyValues \cup {Unset}

(* A timeline is a path that the workflow allows, to the state of the row. *)
TimelineLegal == TimelineChains /\ TransitionsLegal

(* expectedState: what the caller saw still holds when its transition      *)
(* commits, however long the transaction stays open.                       *)
ExpectationHolds ==
    \A c \in Clients : Open(c) => tx[c].expected \in {"", state[tx[c].sub]}

(* public_status: the state a respondent is shown is one the history shown *)
(* with it reached, although the two are read by different statements.     *)
StatusConsistent == view.step = "done" => view.state \in view.history

(* What callers and respondents were shown holds when it is relied on. *)
ShownHolds == ExpectationHolds /\ StatusConsistent

(* With its locks and transactions, the engine is the atomic log. *)
ImplementsLog == Log!Spec
=============================================================================
