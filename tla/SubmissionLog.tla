--------------------------- MODULE SubmissionLog ---------------------------
(***************************************************************************)
(* What the workflow engine promises: every submission is a row with a     *)
(* timeline and an outbox, and each operation is one indivisible step on   *)
(* the three of them.  There are no locks, no transactions and no          *)
(* interleaving inside an operation here; WorkflowEngine has them and      *)
(* implements this specification.                                          *)
(***************************************************************************)
EXTENDS WorkflowRules, Naturals, Sequences

CONSTANTS
    Submissions,   \* ids of submissions
    Versions,      \* ids of workflow versions
    Workflow,      \* [Versions -> workflow definitions]
    NoWorkflow,    \* the workflow_version_id NULL of a form without a workflow
    NotCreated,    \* the version of a submission that does not exist yet
    Users,         \* ids of users
    Nobody,        \* the assignee_id NULL
    RemarkTypes    \* comment, action_succeeded, action_failed

VARIABLES
    state,         \* submissions.state
    fields,        \* submissions.fields
    assignee,      \* submissions.assignee_id
    version,       \* submissions.workflow_version_id
    timeline,      \* the events of each submission, in commit order
    outbox         \* the jobs: <<submission, index of the event, action>>

columns == <<state, fields, assignee, version>>
lvars   == <<columns, timeline, outbox>>

-----------------------------------------------------------------------------

NoFields == [k \in {} |-> Unset]

(* A row of submission_events; "" is NULL. *)
Event(type, from, to, transition, patch, user) ==
    [type |-> type, from |-> from, to |-> to, transition |-> transition,
     fields |-> patch, assignee |-> user]

InitialState(v) == IF v = NoWorkflow THEN "submitted" ELSE Workflow[v].initial
OnSubmit(v)     == IF v = NoWorkflow THEN {} ELSE Workflow[v].onSubmit

CreatedEvent(v) == Event("created", "", InitialState(v), "", NoFields, Nobody)

TransitionEvent(s, t, patch) ==
    Event("transition", state[s], Workflow[version[s]].transitions[t].to, t,
          changed(fields[s], patch), Nobody)

FieldsEvent(s, patch) ==
    Event("fields_updated", "", "", "", changed(fields[s], patch), Nobody)

AssignedEvent(u) == Event("assigned", "", "", "", NoFields, u)

RemarkEvent(type) == Event(type, "", "", "", NoFields, Nobody)

(* An event and the jobs of its actions, committed together. *)
Record(s, event, actions) ==
    /\ timeline' = [timeline EXCEPT ![s] = Append(@, event)]
    /\ outbox' = outbox \cup {<<s, Len(timeline[s]) + 1, a>> : a \in actions}

-----------------------------------------------------------------------------

Exists(s)      == version[s] # NotCreated
HasWorkflow(s) == version[s] \notin {NotCreated, NoWorkflow}
Definition(s)  == Workflow[version[s]]

PatchesOf(wf) == UNION {[K -> Values \cup {Unset}] : K \in SUBSET wf.fields}

Init ==
    /\ state = [s \in Submissions |-> ""]
    /\ fields = [s \in Submissions |-> NoFields]
    /\ assignee = [s \in Submissions |-> Nobody]
    /\ version = [s \in Submissions |-> NotCreated]
    /\ timeline = [s \in Submissions |-> << >>]
    /\ outbox = {}

Create(s, v) ==
    /\ ~Exists(s)
    /\ version' = [version EXCEPT ![s] = v]
    /\ state' = [state EXCEPT ![s] = InitialState(v)]
    /\ fields' = [fields EXCEPT ![s] = NoFields]
    /\ assignee' = [assignee EXCEPT ![s] = Nobody]
    /\ Record(s, CreatedEvent(v), OnSubmit(v))

(* A transition the pinned workflow allows from the current state, with    *)
(* the fields it requires. *)
Transition(s, t, patch) ==
    LET tr == Definition(s).transitions[t]
    IN  /\ state[s] \in tr.from
        /\ Missing(tr.requireFields, fields[s], patch) = {}
        /\ state' = [state EXCEPT ![s] = tr.to]
        /\ fields' = [fields EXCEPT ![s] = merged(@, patch)]
        /\ Record(s, TransitionEvent(s, t, patch), tr.actions)
        /\ UNCHANGED <<assignee, version>>

UpdateFields(s, patch) ==
    /\ ChangedKeys(fields[s], patch) # {}
    /\ fields' = [fields EXCEPT ![s] = merged(@, patch)]
    /\ Record(s, FieldsEvent(s, patch), {})
    /\ UNCHANGED <<state, assignee, version>>

Assign(s, u) ==
    /\ assignee' = [assignee EXCEPT ![s] = u]
    /\ Record(s, AssignedEvent(u), {})
    /\ UNCHANGED <<state, fields, version>>

Remark(s, type) ==
    /\ Record(s, RemarkEvent(type), {})
    /\ UNCHANGED columns

(* A deleted user is nobody's assignee, and no event says so. *)
ForgetUser(u) ==
    /\ assignee' = [s \in Submissions |-> IF assignee[s] = u THEN Nobody ELSE assignee[s]]
    /\ UNCHANGED <<state, fields, version, timeline, outbox>>

Next ==
    \/ \E s \in Submissions, v \in Versions \cup {NoWorkflow} : Create(s, v)
    \/ \E s \in Submissions :
        /\ HasWorkflow(s)
        /\ \E patch \in PatchesOf(Definition(s)) :
            \/ \E t \in DOMAIN Definition(s).transitions : Transition(s, t, patch)
            \/ UpdateFields(s, patch)
    \/ \E s \in Submissions :
        /\ Exists(s)
        /\ \/ \E u \in Users \cup {Nobody} : Assign(s, u)
           \/ \E type \in RemarkTypes : Remark(s, type)
    \/ \E u \in Users : ForgetUser(u)

Spec == Init /\ [][Next]_lvars
=============================================================================
