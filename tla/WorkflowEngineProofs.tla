------------------------ MODULE WorkflowEngineProofs -----------------------
(***************************************************************************)
(* Proofs about WorkflowEngine, for any submissions, clients, workflows    *)
(* and field patches.  The row lock is what carries them: while a          *)
(* transaction holds it, what the transaction staged is still what its     *)
(* operation computes from the row (Snapshot).  With it every step of the  *)
(* engine is a step of SubmissionLog or changes none of its variables.     *)
(***************************************************************************)
EXTENDS WorkflowEngine, TLAPS

(* What the transaction t staged is what its operation computes from a row *)
(* with state st, fields fl and workflow version v.                        *)
StagedCreate(t, v) ==
    /\ v = NotCreated
    /\ \E w \in Versions \cup {NoWorkflow} :
        /\ t.written = [state |-> Log!InitialState(w), fields |-> Log!NoFields,
                        assignee |-> Nobody, version |-> w]
        /\ t.event = Log!CreatedEvent(w)
        /\ t.actions = Log!OnSubmit(w)

StagedTransition(t, st, fl, v) ==
    /\ v \notin {NotCreated, NoWorkflow}
    /\ \E patch \in Log!PatchesOf(Workflow[v]), k \in DOMAIN Workflow[v].transitions :
        LET tr == Workflow[v].transitions[k]
        IN  /\ st \in tr.from
            /\ Missing(tr.requireFields, fl, patch) = {}
            /\ t.written.state = tr.to
            /\ t.written.fields = merged(fl, patch)
            /\ t.event = Log!Event("transition", st, tr.to, k, Log!changed(fl, patch), Nobody)
            /\ t.actions = tr.actions

StagedFields(t, fl, v) ==
    /\ v \notin {NotCreated, NoWorkflow}
    /\ \E patch \in Log!PatchesOf(Workflow[v]) :
        /\ ChangedKeys(fl, patch) # {}
        /\ t.written.fields = merged(fl, patch)
        /\ t.event = Log!Event("fields_updated", "", "", "", Log!changed(fl, patch), Nobody)
        /\ t.actions = {}

StagedAssign(t, v) ==
    /\ v # NotCreated
    /\ \E u \in Users \cup {Nobody} :
        /\ t.written.assignee = u
        /\ t.event = Log!AssignedEvent(u)
        /\ t.actions = {}

Staged(t, st, fl, v) ==
    \/ t.op = "create" /\ StagedCreate(t, v)
    \/ t.op = "transition" /\ StagedTransition(t, st, fl, v)
    \/ t.op = "fields" /\ StagedFields(t, fl, v)
    \/ t.op \in {"assign", "run_assign"} /\ StagedAssign(t, v)

(* The transaction of c works on a row it has locked, and fits that row.   *)
StagedBy(c) ==
    LET s == tx[c].sub
    IN  /\ s \in Submissions
        /\ lock[s] = c
        /\ tx[c].expected \in {"", state[s]}
        /\ Staged(tx[c], state[s], fields[s], version[s])

Snapshot == \A c \in Clients : Open(c) => StagedBy(c)

Typed ==
    /\ lock \in [Submissions -> Clients \cup {NoClient}]
    /\ DOMAIN tx = Clients
    /\ users \subseteq Users
    /\ current \in Versions \cup {NoWorkflow}

IInv == Typed /\ Snapshot

-----------------------------------------------------------------------------

(* The engine and the log it implements apply the same rules. *)
LEMMA SameRules ==
    ASSUME NEW fl, NEW patch
    PROVE  /\ merged(fl, patch) = Log!merged(fl, patch)
           /\ ChangedKeys(fl, patch) = Log!ChangedKeys(fl, patch)
           /\ changed(fl, patch) = Log!changed(fl, patch)
           /\ \A required :
                Missing(required, fl, patch) = Log!Missing(required, fl, patch)
<1>1. SetKeys(patch) = Log!SetKeys(patch) /\ UnsetKeys(patch) = Log!UnsetKeys(patch)
    BY DEF SetKeys, UnsetKeys, Log!SetKeys, Log!UnsetKeys
<1>2. merged(fl, patch) = Log!merged(fl, patch)
    BY <1>1 DEF merged, Log!merged
<1>3. ChangedKeys(fl, patch) = Log!ChangedKeys(fl, patch)
    BY DEF ChangedKeys, Log!ChangedKeys
<1>4. changed(fl, patch) = Log!changed(fl, patch)
    BY <1>3 DEF changed, Log!changed
<1>5. ASSUME NEW required
      PROVE  Missing(required, fl, patch) = Log!Missing(required, fl, patch)
    BY <1>2 DEF Missing, Log!Missing, is_empty, Log!is_empty
<1>6. QED BY <1>2, <1>3, <1>4, <1>5

(* A patch that passes the check is one the abstract log accepts. *)
LEMMA ValidPatch ==
    ASSUME NEW s, NEW patch \in Patches, PatchValid(Definition(s), patch)
    PROVE  patch \in Log!PatchesOf(Definition(s))
<1>1. patch \in [DOMAIN patch -> Values \cup {Unset, Invalid}]
    BY EngineAssumption DEF EngineAssumption
<1>2. \A k \in DOMAIN patch : patch[k] \in Values \cup {Unset}
    BY <1>1 DEF PatchValid
<1>3. patch \in [DOMAIN patch -> Values \cup {Unset}]
    BY <1>1, <1>2
<1>4. DOMAIN patch \in SUBSET Definition(s).fields
    BY DEF PatchValid
<1>5. QED BY <1>3, <1>4 DEF Log!PatchesOf, Definition

(* Staging keeps every other transaction's snapshot. *)
LEMMA StageKeeps ==
    ASSUME IInv, NEW c \in Clients, NEW s \in Submissions, NEW op, NEW written,
           NEW expected, NEW event, NEW actions,
           Stage(c, s, op, written, expected, event, actions), expected \in {"", state[s]},
           Staged([op |-> op, sub |-> s, written |-> written, expected |-> expected,
                   event |-> event, actions |-> actions], state[s], fields[s], version[s])
    PROVE  IInv'
<1>1. Typed'
    BY DEF IInv, Typed, Stage
<1>2. ASSUME NEW d \in Clients, Open(d)' PROVE StagedBy(d)'
    <2>1. CASE d = c
        <3> DEFINE t == [op |-> op, sub |-> s, written |-> written, expected |-> expected,
                         event |-> event, actions |-> actions]
        <3>1. tx'[c] = t
            BY DEF IInv, Typed, Stage
        <3>2. lock'[s] = c /\ UNCHANGED tables
            BY DEF IInv, Typed, Stage
        <3>3. /\ t.sub = s /\ t.expected \in {"", state[s]}
              /\ Staged(t, state[s], fields[s], version[s])
            OBVIOUS
        <3> HIDE DEF t
        <3>4. QED BY <2>1, <3>1, <3>2, <3>3 DEF StagedBy, tables, columns
    <2>2. CASE d # c
        <3>1. tx'[d] = tx[d]
            BY <2>2 DEF IInv, Typed, Stage
        <3>2. StagedBy(d)
            BY <1>2, <3>1 DEF IInv, Snapshot, Open
        <3>3. tx[d].sub # s
            BY <3>2, EngineAssumption DEF StagedBy, Stage, Free, EngineAssumption
        <3>4. lock'[tx[d].sub] = d
            BY <3>2, <3>3 DEF StagedBy, Stage, IInv, Typed
        <3>5. UNCHANGED tables
            BY DEF Stage
        <3>6. QED
            BY <3>1, <3>2, <3>4, <3>5 DEF StagedBy, tables, columns
    <2>3. QED BY <2>1, <2>2
<1>3. QED BY <1>1, <1>2 DEF IInv, Snapshot

(* A step that opens no transaction and leaves the locked rows' state,     *)
(* fields and version alone keeps the invariant.                           *)
LEMMA RowsKept ==
    ASSUME IInv, UNCHANGED <<lock, tx, state, fields, version>>,
           users' \subseteq users, current' \in Versions \cup {NoWorkflow}
    PROVE  IInv'
BY DEF IInv, Typed, Snapshot, Open, StagedBy

LEMMA InitHolds == Init => IInv
<1>1. ASSUME Init PROVE Typed
    BY <1>1 DEF Init, Typed
<1>2. ASSUME Init PROVE Snapshot
    BY <1>2 DEF Init, Snapshot, Open, NoTx
<1>3. QED BY <1>1, <1>2 DEF IInv

LEMMA BeginCreateKeeps ==
    ASSUME IInv, NEW c \in Clients, NEW s \in Submissions, BeginCreate(c, s)
    PROVE  IInv'
<1> DEFINE written == [state |-> Log!InitialState(current), fields |-> Log!NoFields,
                       assignee |-> Nobody, version |-> current]
           event == Log!CreatedEvent(current)
           actions == Log!OnSubmit(current)
           t == [op |-> "create", sub |-> s, written |-> written, expected |-> "",
                 event |-> event, actions |-> actions]
<1>1. Stage(c, s, "create", written, "", event, actions)
    BY DEF BeginCreate
<1>2. StagedCreate(t, version[s])
    BY DEF BeginCreate, Exists, Log!Exists, StagedCreate, IInv, Typed
<1>3. Staged(t, state[s], fields[s], version[s])
    BY <1>2 DEF Staged
<1>4. QED
    <2> HIDE DEF written, event, actions
    <2> QED BY <1>1, <1>3, StageKeeps

LEMMA BeginTransitionKeeps ==
    ASSUME IInv, NEW c \in Clients, NEW s \in Submissions, BeginTransition(c, s)
    PROVE  IInv'
<1>1. PICK k \in DOMAIN Definition(s).transitions, roles \in Principals,
           patch \in Patches, expected \in Expectations :
        /\ Refusal(Definition(s), state[s], fields[s], roles, k, patch, expected) = "ok"
        /\ Stage(c, s, "transition",
                 Written(s, Definition(s).transitions[k].to, patch, assignee[s], version[s]),
                 expected,
                 Log!TransitionEvent(s, k, patch), Definition(s).transitions[k].actions)
    BY DEF BeginTransition
<1> DEFINE tr == Definition(s).transitions[k]
           written == Written(s, tr.to, patch, assignee[s], version[s])
           event == Log!TransitionEvent(s, k, patch)
           actions == tr.actions
           t == [op |-> "transition", sub |-> s, written |-> written, expected |-> expected,
                 event |-> event, actions |-> actions]
<1>2. /\ PatchValid(Definition(s), patch)
      /\ state[s] \in tr.from
      /\ Missing(tr.requireFields, fields[s], patch) = {}
    BY <1>1 DEF Refusal
<1>3. patch \in Log!PatchesOf(Workflow[version[s]])
    BY <1>2, ValidPatch DEF Definition, Log!Definition
<1>4. version[s] \notin {NotCreated, NoWorkflow}
    BY DEF BeginTransition, HasWorkflow, Log!HasWorkflow
<1>5. StagedTransition(t, state[s], fields[s], version[s])
    BY <1>2, <1>3, <1>4
    DEF StagedTransition, Definition, Log!Definition, Written, Log!TransitionEvent
<1>6. Staged(t, state[s], fields[s], version[s])
    BY <1>5 DEF Staged
<1>7. QED
    <2>1. Stage(c, s, "transition", written, expected, event, actions)
        BY <1>1
    <2>2. expected \in {"", state[s]}
        BY <1>1 DEF Refusal
    <2> HIDE DEF written, event, actions
    <2> QED BY <2>1, <2>2, <1>6, StageKeeps

LEMMA BeginUpdateFieldsKeeps ==
    ASSUME IInv, NEW c \in Clients, NEW s \in Submissions, BeginUpdateFields(c, s)
    PROVE  IInv'
<1>1. PICK patch \in Patches :
        /\ PatchValid(Definition(s), patch)
        /\ ChangedKeys(fields[s], patch) # {}
        /\ Stage(c, s, "fields",
                 Written(s, state[s], patch, assignee[s], version[s]), "",
                 Log!FieldsEvent(s, patch), {})
    BY DEF BeginUpdateFields
<1> DEFINE written == Written(s, state[s], patch, assignee[s], version[s])
           event == Log!FieldsEvent(s, patch)
           t == [op |-> "fields", sub |-> s, written |-> written, expected |-> "",
                 event |-> event, actions |-> {}]
<1>2. patch \in Log!PatchesOf(Workflow[version[s]])
    BY <1>1, ValidPatch DEF Definition, Log!Definition
<1>3. version[s] \notin {NotCreated, NoWorkflow}
    BY DEF BeginUpdateFields, HasWorkflow, Log!HasWorkflow
<1>4. StagedFields(t, fields[s], version[s])
    BY <1>1, <1>2, <1>3 DEF StagedFields, Written, Log!FieldsEvent
<1>5. Staged(t, state[s], fields[s], version[s])
    BY <1>4 DEF Staged
<1>6. QED
    <2>1. Stage(c, s, "fields", written, "", event, {})
        BY <1>1
    <2> HIDE DEF written, event
    <2> QED BY <2>1, <1>5, StageKeeps

(* assign and the assign action stage the same. *)
LEMMA AssignKeeps ==
    ASSUME IInv, NEW c \in Clients, NEW s \in Submissions, NEW u \in users \cup {Nobody},
           NEW op \in {"assign", "run_assign"}, Exists(s),
           Stage(c, s, op, Written(s, state[s], Log!NoFields, u, version[s]), "",
                 Log!AssignedEvent(u), {})
    PROVE  IInv'
<1> DEFINE written == Written(s, state[s], Log!NoFields, u, version[s])
           event == Log!AssignedEvent(u)
           t == [op |-> op, sub |-> s, written |-> written, expected |-> "",
                 event |-> event, actions |-> {}]
<1>1. u \in Users \cup {Nobody}
    BY DEF IInv, Typed
<1>2. StagedAssign(t, version[s])
    BY <1>1 DEF StagedAssign, Written, Exists, Log!Exists
<1>3. Staged(t, state[s], fields[s], version[s])
    BY <1>2 DEF Staged
<1>4. QED
    <2>1. Stage(c, s, op, written, "", event, {})
        OBVIOUS
    <2> HIDE DEF written, event
    <2> QED BY <2>1, <1>3, StageKeeps

(* The end of a transaction frees its row; no other transaction works on   *)
(* that row, so what Commit writes to it disturbs nobody's snapshot.       *)
LEMMA FinishKeeps ==
    ASSUME IInv, NEW c \in Clients, Open(c), Finish(c),
           \A s \in Submissions : s # tx[c].sub =>
               state'[s] = state[s] /\ fields'[s] = fields[s] /\ version'[s] = version[s]
    PROVE  IInv'
<1>1. Typed'
    BY DEF IInv, Typed, Finish
<1>2. ASSUME NEW d \in Clients, Open(d)' PROVE StagedBy(d)'
    <2>1. d # c
        BY <1>2 DEF Open, Finish, NoTx, IInv, Typed
    <2>2. tx'[d] = tx[d]
        BY <2>1 DEF Finish, IInv, Typed
    <2>3. StagedBy(d) /\ StagedBy(c)
        BY <1>2, <2>2 DEF IInv, Snapshot, Open
    <2>4. tx[d].sub # tx[c].sub
        BY <2>1, <2>3 DEF StagedBy
    <2>5. lock'[tx[d].sub] = d
        BY <2>3, <2>4 DEF Finish, StagedBy, IInv, Typed
    <2>6. QED BY <2>2, <2>3, <2>4, <2>5 DEF StagedBy
<1>3. QED BY <1>1, <1>2 DEF IInv, Snapshot

LEMMA CommitKeeps ==
    ASSUME IInv, NEW c \in Clients, Commit(c)
    PROVE  IInv'
<1>1. Open(c) /\ Finish(c)
    BY DEF Commit
<1>2. \A s : s # tx[c].sub =>
          state'[s] = state[s] /\ fields'[s] = fields[s] /\ version'[s] = version[s]
    BY DEF Commit, Put
<1>3. QED BY <1>1, <1>2, FinishKeeps

LEMMA AbortKeeps ==
    ASSUME IInv, NEW c \in Clients, Abort(c)
    PROVE  IInv'
BY FinishKeeps DEF Abort, tables, columns

LEMMA NextHolds == IInv /\ [Next]_vars => IInv'
<1> SUFFICES ASSUME IInv, [Next]_vars PROVE IInv'
    OBVIOUS
<1>0. users \subseteq users /\ current \in Versions \cup {NoWorkflow}
    BY DEF IInv, Typed
<1>1. ASSUME NEW c \in Clients, NEW s \in Submissions, BeginCreate(c, s) PROVE IInv'
    BY <1>1, BeginCreateKeeps
<1>2. ASSUME NEW c \in Clients, NEW s \in Submissions, BeginTransition(c, s) PROVE IInv'
    BY <1>2, BeginTransitionKeeps
<1>3. ASSUME NEW c \in Clients, NEW s \in Submissions, BeginUpdateFields(c, s) PROVE IInv'
    BY <1>3, BeginUpdateFieldsKeeps
<1>4. ASSUME NEW c \in Clients, NEW s \in Submissions, BeginAssign(c, s) PROVE IInv'
    BY <1>4, AssignKeeps DEF BeginAssign
<1>5. ASSUME NEW c \in Clients, NEW s \in Submissions, BeginRunAssign(c, s) PROVE IInv'
    <2>1. PICK u \in users :
            Stage(c, s, "run_assign", Written(s, state[s], Log!NoFields, u, version[s]), "",
                  Log!AssignedEvent(u), {})
        BY <1>5 DEF BeginRunAssign
    <2>2. Exists(s)
        BY <1>5 DEF BeginRunAssign
    <2>3. QED BY <2>1, <2>2, AssignKeeps
<1>6. ASSUME NEW c \in Clients, Commit(c) PROVE IInv'
    BY <1>6, CommitKeeps
<1>7. ASSUME NEW c \in Clients, Abort(c) PROVE IInv'
    BY <1>7, AbortKeeps
<1>8. ASSUME NEW s \in Submissions, Remark(s) PROVE IInv'
    BY <1>0, <1>8, RowsKept DEF Remark, columns
<1>9. ASSUME NEW s \in Submissions, ReadState(s) PROVE IInv'
    BY <1>0, <1>9, RowsKept DEF ReadState, tables, columns
<1>10. CASE ReadHistory
    BY <1>0, <1>10, RowsKept DEF ReadHistory, tables, columns
<1>11. CASE Respond
    BY <1>0, <1>11, RowsKept DEF Respond, tables, columns
<1>12. ASSUME NEW u \in Users, DeleteUser(u) PROVE IInv'
    BY <1>0, <1>12, RowsKept DEF DeleteUser
<1>13. CASE Publish
    BY <1>0, <1>13, RowsKept DEF Publish, tables, columns
<1>14. CASE UNCHANGED vars
    BY <1>0, <1>14, RowsKept DEF vars, tables, columns
<1>15. QED
    BY <1>1, <1>2, <1>3, <1>4, <1>5, <1>6, <1>7, <1>8, <1>9, <1>10, <1>11, <1>12, <1>13,
       <1>14 DEF Next

(* The staged snapshot of every open transaction fits the row it locks. *)
THEOREM SnapshotsHold == Spec => []IInv
BY InitHolds, NextHolds, PTL DEF Spec

-----------------------------------------------------------------------------
(* Refinement: a commit is the log's step of the same operation. *)

LEMMA CommitIsLogStep ==
    ASSUME IInv, NEW c \in Clients, Commit(c)
    PROVE  Log!Next
<1> DEFINE s == tx[c].sub
           w == tx[c].written
<1>1. StagedBy(c)
    BY DEF Commit, IInv, Snapshot
<1>2. s \in Submissions /\ Staged(tx[c], state[s], fields[s], version[s])
    BY <1>1 DEF StagedBy
<1>3. /\ state' = Put(state, s, w.state, tx[c].op, {"create", "transition"})
      /\ fields' = Put(fields, s, w.fields, tx[c].op, {"create", "transition", "fields"})
      /\ assignee' = Put(assignee, s, w.assignee, tx[c].op, {"create", "assign", "run_assign"})
      /\ version' = Put(version, s, w.version, tx[c].op, {"create"})
      /\ Log!Record(s, tx[c].event, tx[c].actions)
    BY DEF Commit
<1> HIDE DEF s, w
<1>4. CASE tx[c].op = "create" /\ StagedCreate(tx[c], version[s])
    <2>1. PICK v \in Versions \cup {NoWorkflow} :
            /\ w = [state |-> Log!InitialState(v), fields |-> Log!NoFields,
                    assignee |-> Nobody, version |-> v]
            /\ tx[c].event = Log!CreatedEvent(v)
            /\ tx[c].actions = Log!OnSubmit(v)
        BY <1>4 DEF StagedCreate, w
    <2>2. ~Log!Exists(s)
        BY <1>4 DEF StagedCreate, Log!Exists
    <2>3. Log!Create(s, v)
        BY <1>3, <1>4, <2>1, <2>2 DEF Log!Create, Put
    <2>4. QED BY <1>2, <2>3 DEF Log!Next
<1>5. CASE tx[c].op = "transition" /\ StagedTransition(tx[c], state[s], fields[s], version[s])
    <2>1. PICK patch \in Log!PatchesOf(Workflow[version[s]]),
               k \in DOMAIN Workflow[version[s]].transitions :
            LET tr == Workflow[version[s]].transitions[k]
            IN  /\ state[s] \in tr.from
                /\ Missing(tr.requireFields, fields[s], patch) = {}
                /\ w.state = tr.to
                /\ w.fields = merged(fields[s], patch)
                /\ tx[c].event = Log!Event("transition", state[s], tr.to, k,
                                          Log!changed(fields[s], patch), Nobody)
                /\ tx[c].actions = tr.actions
        BY <1>5 DEF StagedTransition, w
    <2> DEFINE tr == Log!Definition(s).transitions[k]
    <2>2. tx[c].event = Log!TransitionEvent(s, k, patch) /\ tx[c].actions = tr.actions
        BY <2>1 DEF Log!TransitionEvent, Log!Definition
    <2>3. state' = [state EXCEPT ![s] = tr.to]
        BY <1>3, <1>5, <2>1 DEF Put, Log!Definition
    <2>4. fields' = [fields EXCEPT ![s] = Log!merged(fields[s], patch)]
        BY <1>3, <1>5, <2>1, SameRules DEF Put
    <2>5. UNCHANGED <<assignee, version>>
        BY <1>3, <1>5 DEF Put
    <2>6. state[s] \in tr.from /\ Log!Missing(tr.requireFields, fields[s], patch) = {}
        BY <2>1, SameRules DEF Log!Definition
    <2>7. Log!Transition(s, k, patch)
        BY <1>3, <2>2, <2>3, <2>4, <2>5, <2>6 DEF Log!Transition
    <2>8. Log!HasWorkflow(s)
        BY <1>5 DEF StagedTransition, Log!HasWorkflow
    <2>9. QED BY <1>2, <2>1, <2>7, <2>8 DEF Log!Next, Log!Definition
<1>6. CASE tx[c].op = "fields" /\ StagedFields(tx[c], fields[s], version[s])
    <2>1. PICK patch \in Log!PatchesOf(Workflow[version[s]]) :
            /\ ChangedKeys(fields[s], patch) # {}
            /\ w.fields = merged(fields[s], patch)
            /\ tx[c].event = Log!Event("fields_updated", "", "", "",
                                      Log!changed(fields[s], patch), Nobody)
            /\ tx[c].actions = {}
        BY <1>6 DEF StagedFields, w
    <2>2. tx[c].event = Log!FieldsEvent(s, patch)
        BY <2>1 DEF Log!FieldsEvent
    <2>3. fields' = [fields EXCEPT ![s] = Log!merged(fields[s], patch)]
        BY <1>3, <1>6, <2>1, SameRules DEF Put
    <2>4. UNCHANGED <<state, assignee, version>>
        BY <1>3, <1>6 DEF Put
    <2>5. Log!UpdateFields(s, patch)
        BY <1>3, <2>1, <2>2, <2>3, <2>4, SameRules DEF Log!UpdateFields
    <2>6. Log!HasWorkflow(s)
        BY <1>6 DEF StagedFields, Log!HasWorkflow
    <2>7. QED BY <1>2, <2>1, <2>5, <2>6 DEF Log!Next, Log!Definition
<1>7. CASE tx[c].op \in {"assign", "run_assign"} /\ StagedAssign(tx[c], version[s])
    <2>1. PICK u \in Users \cup {Nobody} :
            /\ w.assignee = u
            /\ tx[c].event = Log!AssignedEvent(u)
            /\ tx[c].actions = {}
        BY <1>7 DEF StagedAssign, w
    <2>2. Log!Assign(s, u)
        BY <1>3, <1>7, <2>1 DEF Log!Assign, Put
    <2>3. Log!Exists(s)
        BY <1>7 DEF StagedAssign, Log!Exists
    <2>4. QED BY <1>2, <2>2, <2>3 DEF Log!Next
<1>8. QED BY <1>2, <1>4, <1>5, <1>6, <1>7 DEF Staged

LEMMA StepIsLogStep == IInv /\ [Next]_vars => [Log!Next]_(Log!lvars)
<1> SUFFICES ASSUME IInv, [Next]_vars PROVE Log!Next \/ UNCHANGED tables
    BY DEF tables, columns, Log!lvars, Log!columns
<1>1. ASSUME NEW c \in Clients, NEW s \in Submissions,
             BeginCreate(c, s) \/ BeginTransition(c, s) \/ BeginUpdateFields(c, s)
                \/ BeginAssign(c, s) \/ BeginRunAssign(c, s)
      PROVE  UNCHANGED tables
    BY <1>1 DEF BeginCreate, BeginTransition, BeginUpdateFields, BeginAssign, BeginRunAssign,
                Stage
<1>2. ASSUME NEW c \in Clients, Commit(c) PROVE Log!Next
    BY <1>2, CommitIsLogStep
<1>3. ASSUME NEW c \in Clients, Abort(c) PROVE UNCHANGED tables
    BY <1>3 DEF Abort
<1>4. ASSUME NEW s \in Submissions, Remark(s) PROVE Log!Next
    BY <1>4 DEF Remark, Log!Remark, Log!Next, Exists, columns, Log!columns
<1>5. ASSUME NEW u \in Users, DeleteUser(u) PROVE Log!Next
    BY <1>5 DEF DeleteUser, Log!ForgetUser, Log!Next
<1>6. CASE ReadHistory \/ Respond \/ Publish \/ \E s \in Submissions : ReadState(s)
    BY <1>6 DEF ReadHistory, Respond, Publish, ReadState
<1>7. CASE UNCHANGED vars
    BY <1>7 DEF vars
<1>8. QED BY <1>1, <1>2, <1>3, <1>4, <1>5, <1>6, <1>7 DEF Next

(* The engine implements the log: with row locks and transactions, every   *)
(* operation looks like one indivisible step on row, timeline and outbox.  *)
THEOREM EngineImplementsLog == Spec => ImplementsLog
<1>1. Init => Log!Init
    BY DEF Init
<1>2. QED BY <1>1, InitHolds, NextHolds, StepIsLogStep, PTL DEF Spec, ImplementsLog, Log!Spec

(* What the caller of a transition expected holds until it commits. *)
THEOREM ExpectationsHold == Spec => []ExpectationHolds
<1>1. IInv => ExpectationHolds
    BY DEF IInv, Snapshot, StagedBy, ExpectationHolds
<1>2. QED BY <1>1, SnapshotsHold, PTL

-----------------------------------------------------------------------------
(* The timeline of a row: every step of the log appends at most one event  *)
(* to it, and the event fits the row.                                      *)

IsSeq(q) == \E S : q \in Seq(S)

(* TimelineChains for one row with timeline q, state st and version v. *)
Moves(q, i) == q[i].type \in {"created", "transition"}

LastMove(q, i, n) == Moves(q, i) /\ \A j \in (i + 1)..(n - 1) : ~Moves(q, j)

Chained(q, st, v) ==
    /\ v # NotCreated <=> q # << >>
    /\ \A i \in DOMAIN q : q[i].type = "created" <=> i = 1
    /\ \A i \in DOMAIN q : q[i].type = "transition" =>
            \E j \in 1..(i - 1) : LastMove(q, j, i) /\ q[j].to = q[i].from
    /\ v # NotCreated =>
            \E j \in DOMAIN q : LastMove(q, j, Len(q) + 1) /\ q[j].to = st

ChainInv ==
    /\ DOMAIN timeline = Submissions /\ DOMAIN version = Submissions
    /\ DOMAIN state = Submissions
    /\ \A s \in Submissions : IsSeq(timeline[s]) /\ Chained(timeline[s], state[s], version[s])

LEMMA AppendIsSeq ==
    ASSUME NEW q, NEW e, IsSeq(q)
    PROVE  /\ IsSeq(Append(q, e))
           /\ Len(q) \in Nat /\ DOMAIN q = 1..Len(q)
           /\ Len(Append(q, e)) = Len(q) + 1
           /\ DOMAIN Append(q, e) = 1..(Len(q) + 1)
           /\ \A i \in 1..Len(q) : Append(q, e)[i] = q[i]
           /\ Append(q, e)[Len(q) + 1] = e
<1>1. PICK S : q \in Seq(S)
    BY DEF IsSeq
<1>2. q \in Seq(S \cup {e}) /\ e \in S \cup {e}
    BY <1>1
<1>3. Append(q, e) \in Seq(S \cup {e})
    BY <1>2
<1>4. QED BY <1>2, <1>3 DEF IsSeq

LEMMA ChainedMove ==
    ASSUME NEW q, NEW e, NEW st, NEW v, IsSeq(q), Chained(q, st, v), v # NotCreated,
           e.type = "transition", e.from = st
    PROVE  Chained(Append(q, e), e.to, v)
<1> DEFINE p == Append(q, e)
           n == Len(q)
<1>1. /\ n \in Nat /\ DOMAIN q = 1..n /\ Len(p) = n + 1 /\ DOMAIN p = 1..(n + 1)
      /\ \A i \in 1..n : p[i] = q[i]
      /\ p[n + 1] = e
    BY AppendIsSeq
<1> HIDE DEF p, n
<1>2. n > 0
    BY <1>1 DEF Chained
<1>3. PICK m \in DOMAIN q : LastMove(q, m, n + 1) /\ q[m].to = st
    BY DEF Chained, n
<1>4. \A i \in 1..n, k \in 1..(n + 1) : LastMove(q, i, k) => LastMove(p, i, k)
    BY <1>1 DEF LastMove, Moves
<1>5. v # NotCreated <=> p # << >>
    BY <1>1
<1>6. \A i \in DOMAIN p : p[i].type = "created" <=> i = 1
    BY <1>1, <1>2 DEF Chained
<1>7. ASSUME NEW i \in DOMAIN p, p[i].type = "transition"
      PROVE  \E j \in 1..(i - 1) : LastMove(p, j, i) /\ p[j].to = p[i].from
    <2>1. CASE i = n + 1
        <3>1. m \in 1..(i - 1) /\ LastMove(p, m, i) /\ p[m].to = p[i].from
            BY <1>1, <1>3, <1>4, <2>1
        <3>2. QED BY <3>1
    <2>2. CASE i \in 1..n
        <3>1. PICK j \in 1..(i - 1) : LastMove(q, j, i) /\ q[j].to = q[i].from
            BY <1>1, <1>7, <2>2 DEF Chained
        <3>2. j \in 1..n /\ i \in 1..(n + 1)
            BY <1>1, <2>2
        <3>3. LastMove(p, j, i) /\ p[j].to = p[i].from
            BY <1>1, <1>4, <2>2, <3>1, <3>2
        <3>4. QED BY <3>3
    <2>3. QED BY <1>1, <2>1, <2>2
<1>8. n + 1 \in DOMAIN p /\ LastMove(p, n + 1, Len(p) + 1) /\ p[n + 1].to = e.to
    BY <1>1 DEF LastMove, Moves
<1>9. QED
    <2>1. \E j \in DOMAIN p : LastMove(p, j, Len(p) + 1) /\ p[j].to = e.to
        BY <1>8
    <2>2. QED BY <1>5, <1>6, <1>7, <2>1 DEF Chained, p

LEMMA ChainedRemark ==
    ASSUME NEW q, NEW e, NEW st, NEW v, IsSeq(q), Chained(q, st, v), v # NotCreated,
           e.type \notin {"created", "transition"}
    PROVE  Chained(Append(q, e), st, v)
<1> DEFINE p == Append(q, e)
           n == Len(q)
<1>1. /\ n \in Nat /\ DOMAIN q = 1..n /\ Len(p) = n + 1 /\ DOMAIN p = 1..(n + 1)
      /\ \A i \in 1..n : p[i] = q[i]
      /\ p[n + 1] = e
    BY AppendIsSeq
<1> HIDE DEF p, n
<1>2. n > 0
    BY <1>1 DEF Chained
<1>3. PICK m \in DOMAIN q : LastMove(q, m, n + 1) /\ q[m].to = st
    BY DEF Chained, n
<1>4. \A i \in 1..n, k \in 1..(n + 1) : LastMove(q, i, k) => LastMove(p, i, k)
    BY <1>1 DEF LastMove, Moves
<1>5. v # NotCreated <=> p # << >>
    BY <1>1
<1>6. \A i \in DOMAIN p : p[i].type = "created" <=> i = 1
    BY <1>1, <1>2 DEF Chained
<1>7. ASSUME NEW i \in DOMAIN p, p[i].type = "transition"
      PROVE  \E j \in 1..(i - 1) : LastMove(p, j, i) /\ p[j].to = p[i].from
    <2>1. i \in 1..n
        BY <1>1, <1>7
    <2>2. PICK j \in 1..(i - 1) : LastMove(q, j, i) /\ q[j].to = q[i].from
        BY <1>1, <1>7, <2>1 DEF Chained
    <2>3. j \in 1..n /\ i \in 1..(n + 1)
        BY <1>1, <2>1
    <2>4. LastMove(p, j, i) /\ p[j].to = p[i].from
        BY <1>1, <1>4, <2>1, <2>2, <2>3
    <2>5. QED BY <2>4
<1>8. m \in DOMAIN p /\ LastMove(p, m, Len(p) + 1) /\ p[m].to = st
    BY <1>1, <1>3 DEF LastMove, Moves
<1>9. QED
    <2>1. \E j \in DOMAIN p : LastMove(p, j, Len(p) + 1) /\ p[j].to = st
        BY <1>8
    <2>2. QED BY <1>5, <1>6, <1>7, <2>1 DEF Chained, p

LEMMA ChainedCreated ==
    ASSUME NEW q, NEW e, NEW st, NEW v, IsSeq(q), Chained(q, st, NotCreated), v # NotCreated,
           e.type = "created"
    PROVE  Chained(Append(q, e), e.to, v)
<1> DEFINE p == Append(q, e)
<1>1. q = << >>
    BY DEF Chained
<1>2. Len(p) = 1 /\ DOMAIN p = 1..1 /\ p[1] = e
    BY <1>1
<1> HIDE DEF p
<1>3. LastMove(p, 1, Len(p) + 1)
    BY <1>2 DEF LastMove, Moves
<1>4. p # << >>
    BY <1>2
<1>5. \A i \in DOMAIN p : i = 1 /\ p[i].type = "created" /\ p[i].type # "transition"
    BY <1>2
<1>6. QED
    <2>1. 1 \in DOMAIN p /\ p[1].to = e.to
        BY <1>2
    <2>2. \E j \in DOMAIN p : LastMove(p, j, Len(p) + 1) /\ p[j].to = e.to
        BY <1>3, <2>1
    <2>3. QED BY <1>4, <1>5, <2>2 DEF Chained, p

(* A step of the log leaves a row alone, or it appends one event that fits *)
(* what the row is and becomes.                                            *)
RowStep(q, st, v, q1, st1, v1) ==
    \/ q1 = q /\ st1 = st /\ v1 = v
    \/ \E e :
        /\ q1 = Append(q, e)
        /\ \/ v = NotCreated /\ v1 # NotCreated /\ e.type = "created" /\ st1 = e.to
           \/ /\ v # NotCreated /\ v1 = v
              /\ \/ e.type = "transition" /\ e.from = st /\ st1 = e.to
                 \/ e.type \notin {"created", "transition"} /\ st1 = st

LEMMA RecordSteps ==
    ASSUME ChainInv, NEW s \in Submissions, NEW r \in Submissions, NEW e, NEW actions,
           Log!Record(s, e, actions)
    PROVE  /\ DOMAIN timeline' = Submissions
           /\ timeline'[r] = IF r = s THEN Append(timeline[r], e) ELSE timeline[r]
BY DEF ChainInv, Log!Record

LEMMA LogRowStep ==
    ASSUME ChainInv, Log!Next, NEW r \in Submissions
    PROVE  /\ DOMAIN timeline' = Submissions /\ DOMAIN version' = Submissions
           /\ DOMAIN state' = Submissions
           /\ RowStep(timeline[r], state[r], version[r],
                      timeline'[r], state'[r], version'[r])
<1> DEFINE Goal ==
        /\ DOMAIN timeline' = Submissions /\ DOMAIN version' = Submissions
        /\ DOMAIN state' = Submissions
        /\ RowStep(timeline[r], state[r], version[r], timeline'[r], state'[r], version'[r])
<1>1. ASSUME NEW s \in Submissions, NEW v \in Versions \cup {NoWorkflow}, Log!Create(s, v)
      PROVE  Goal
    <2> DEFINE e == Log!CreatedEvent(v)
    <2>1. e.type = "created" /\ e.to = Log!InitialState(v)
        BY DEF Log!CreatedEvent, Log!Event
    <2> HIDE DEF e
    <2>2. v # NotCreated /\ version[s] = NotCreated
        BY <1>1, EngineAssumption DEF EngineAssumption, Log!Create, Log!Exists
    <2>3. /\ DOMAIN timeline' = Submissions
          /\ timeline'[r] = IF r = s THEN Append(timeline[r], e) ELSE timeline[r]
        BY <1>1, RecordSteps DEF Log!Create, e
    <2>4. /\ DOMAIN version' = Submissions /\ DOMAIN state' = Submissions
          /\ version'[r] = IF r = s THEN v ELSE version[r]
          /\ state'[r] = IF r = s THEN e.to ELSE state[r]
        BY <1>1, <2>1 DEF Log!Create, ChainInv
    <2>5. QED BY <2>1, <2>2, <2>3, <2>4 DEF RowStep
<1>2. ASSUME NEW s \in Submissions, Log!HasWorkflow(s), NEW patch, NEW t, Log!Transition(s, t, patch)
      PROVE  Goal
    <2> DEFINE e == Log!TransitionEvent(s, t, patch)
    <2>1. /\ e.type = "transition" /\ e.from = state[s]
          /\ e.to = Log!Definition(s).transitions[t].to
        BY DEF Log!TransitionEvent, Log!Event, Log!Definition
    <2> HIDE DEF e
    <2>2. version[s] # NotCreated
        BY <1>2 DEF Log!HasWorkflow
    <2>3. /\ DOMAIN timeline' = Submissions
          /\ timeline'[r] = IF r = s THEN Append(timeline[r], e) ELSE timeline[r]
        BY <1>2, RecordSteps DEF Log!Transition, e
    <2>4. /\ version' = version /\ DOMAIN state' = Submissions
          /\ state'[r] = IF r = s THEN e.to ELSE state[r]
        BY <1>2, <2>1 DEF Log!Transition, ChainInv
    <2>5. QED BY <2>1, <2>2, <2>3, <2>4 DEF RowStep, ChainInv
<1>3. ASSUME NEW s \in Submissions, NEW e, NEW actions, Log!Record(s, e, actions),
             version[s] # NotCreated, e.type \notin {"created", "transition"},
             UNCHANGED <<state, version>>
      PROVE  Goal
    BY <1>3, RecordSteps DEF RowStep, ChainInv
<1>4. ASSUME NEW s \in Submissions, Log!HasWorkflow(s), NEW patch, Log!UpdateFields(s, patch)
      PROVE  Goal
    <2>1. Log!FieldsEvent(s, patch).type = "fields_updated"
        BY DEF Log!FieldsEvent, Log!Event
    <2>2. Log!Record(s, Log!FieldsEvent(s, patch), {}) /\ UNCHANGED <<state, version>>
        BY <1>4 DEF Log!UpdateFields
    <2>3. version[s] # NotCreated
        BY <1>4 DEF Log!HasWorkflow
    <2>4. QED BY <1>3, <2>1, <2>2, <2>3
<1>5. ASSUME NEW s \in Submissions, Log!Exists(s), NEW u, Log!Assign(s, u)
      PROVE  Goal
    <2>1. Log!AssignedEvent(u).type = "assigned"
        BY DEF Log!AssignedEvent, Log!Event
    <2>2. Log!Record(s, Log!AssignedEvent(u), {}) /\ UNCHANGED <<state, version>>
        BY <1>5 DEF Log!Assign
    <2>3. version[s] # NotCreated
        BY <1>5 DEF Log!Exists
    <2>4. QED BY <1>3, <2>1, <2>2, <2>3
<1>6. ASSUME NEW s \in Submissions, Log!Exists(s), NEW type \in RemarkTypes, Log!Remark(s, type)
      PROVE  Goal
    <2>1. Log!RemarkEvent(type).type \notin {"created", "transition"}
        BY EngineAssumption DEF EngineAssumption, Log!RemarkEvent, Log!Event
    <2>2. Log!Record(s, Log!RemarkEvent(type), {}) /\ UNCHANGED <<state, version>>
        BY <1>6 DEF Log!Remark, Log!columns
    <2>3. version[s] # NotCreated
        BY <1>6 DEF Log!Exists
    <2>4. QED BY <1>3, <2>1, <2>2, <2>3
<1>7. ASSUME NEW u \in Users, Log!ForgetUser(u)
      PROVE  Goal
    BY <1>7 DEF Log!ForgetUser, RowStep, ChainInv
<1>8. QED
    <2> HIDE DEF Goal
    <2>1. Goal
        BY <1>1, <1>2, <1>4, <1>5, <1>6, <1>7 DEF Log!Next
    <2>2. QED BY <2>1 DEF Goal

LEMMA ChainedRowStep ==
    ASSUME NEW q, NEW st, NEW v, NEW q1, NEW st1, NEW v1,
           IsSeq(q), Chained(q, st, v), RowStep(q, st, v, q1, st1, v1)
    PROVE  IsSeq(q1) /\ Chained(q1, st1, v1)
<1>1. CASE q1 = q /\ st1 = st /\ v1 = v
    BY <1>1
<1>2. ASSUME NEW e, q1 = Append(q, e), v = NotCreated, v1 # NotCreated, e.type = "created",
             st1 = e.to
      PROVE  IsSeq(q1) /\ Chained(q1, st1, v1)
    BY <1>2, AppendIsSeq, ChainedCreated
<1>3. ASSUME NEW e, q1 = Append(q, e), v # NotCreated, v1 = v, e.type = "transition",
             e.from = st, st1 = e.to
      PROVE  IsSeq(q1) /\ Chained(q1, st1, v1)
    BY <1>3, AppendIsSeq, ChainedMove
<1>4. ASSUME NEW e, q1 = Append(q, e), v # NotCreated, v1 = v, st1 = st,
             e.type \notin {"created", "transition"}
      PROVE  IsSeq(q1) /\ Chained(q1, st1, v1)
    BY <1>4, AppendIsSeq, ChainedRemark
<1>5. QED BY <1>1, <1>2, <1>3, <1>4 DEF RowStep

LEMMA LogDomains ==
    ASSUME ChainInv, Log!Next
    PROVE  /\ DOMAIN timeline' = Submissions /\ DOMAIN version' = Submissions
           /\ DOMAIN state' = Submissions
BY DEF ChainInv, Log!Next, Log!Create, Log!Transition, Log!UpdateFields, Log!Assign,
       Log!Remark, Log!ForgetUser, Log!Record, Log!columns

LEMMA ChainStep == ChainInv /\ [Log!Next]_(Log!lvars) => ChainInv'
<1>1. ASSUME ChainInv, Log!Next PROVE ChainInv'
    <2>1. /\ DOMAIN timeline' = Submissions /\ DOMAIN version' = Submissions
          /\ DOMAIN state' = Submissions
        BY <1>1, LogDomains
    <2>2. ASSUME NEW r \in Submissions
          PROVE  IsSeq(timeline'[r]) /\ Chained(timeline'[r], state'[r], version'[r])
        <3>1. RowStep(timeline[r], state[r], version[r],
                      timeline'[r], state'[r], version'[r])
            BY <1>1, LogRowStep
        <3>2. IsSeq(timeline[r]) /\ Chained(timeline[r], state[r], version[r])
            BY <1>1 DEF ChainInv
        <3>3. QED
            BY <3>1, <3>2, ChainedRowStep
    <2>3. QED BY <2>1, <2>2 DEF ChainInv
<1>2. ASSUME ChainInv, UNCHANGED Log!lvars PROVE ChainInv'
    BY <1>2 DEF ChainInv, Log!lvars, Log!columns
<1>3. QED BY <1>1, <1>2

LEMMA ChainInit == Init => ChainInv
<1> SUFFICES ASSUME Init, NEW s \in Submissions
             PROVE  /\ IsSeq(timeline[s]) /\ Chained(timeline[s], state[s], version[s])
                    /\ DOMAIN timeline = Submissions /\ DOMAIN version = Submissions
                    /\ DOMAIN state = Submissions
    BY DEF ChainInv, Init, Log!Init
<1>1. timeline[s] = << >> /\ version[s] = NotCreated
    BY DEF Init, Log!Init
<1>2. << >> \in Seq({})
    OBVIOUS
<1>3. IsSeq(<< >>)
    BY <1>2 DEF IsSeq
<1>4. Chained(<< >>, state[s], NotCreated)
    BY DEF Chained
<1>5. QED BY <1>1, <1>3, <1>4 DEF Init, Log!Init

(* Every timeline tells the whole story of its row's state. *)
THEOREM TimelinesChain == Spec => []TimelineChains
<1>1. ChainInv => TimelineChains
    BY DEF ChainInv, TimelineChains, Chained, LastMove, Moves, LastMoveBefore, IsMove,
           Exists, Log!Exists
<1>2. Spec => []ChainInv
    BY ChainInit, ChainStep, InitHolds, NextHolds, StepIsLogStep, PTL DEF Spec
<1>3. QED BY <1>1, <1>2, PTL

-----------------------------------------------------------------------------
(* The outbox: a step of the log queues the jobs its event owes. *)

(* Owed, for event e of a row with workflow version v. *)
OwedBy(e, v) ==
    CASE e.type = "created"    -> Log!OnSubmit(v)
      [] e.type = "transition" -> Workflow[v].transitions[e.transition].actions
      [] OTHER -> {}

OutboxInv ==
    /\ \A job \in outbox :
        /\ job[1] \in Submissions /\ job[2] \in DOMAIN timeline[job[1]]
        /\ job[3] \in OwedBy(timeline[job[1]][job[2]], version[job[1]])
    /\ \A s \in Submissions : \A i \in DOMAIN timeline[s] :
        \A a \in OwedBy(timeline[s][i], version[s]) : <<s, i, a>> \in outbox

LEMMA OutboxRecord ==
    ASSUME ChainInv, OutboxInv, NEW s \in Submissions, NEW e, NEW actions,
           Log!Record(s, e, actions),
           \A r \in Submissions : version[r] # NotCreated => version'[r] = version[r],
           OwedBy(e, version'[s]) = actions
    PROVE  OutboxInv'
<1> DEFINE n == Len(timeline[s])
           added == {<<s, n + 1, a>> : a \in actions}
<1>1. /\ timeline' = [timeline EXCEPT ![s] = Append(@, e)]
      /\ outbox' = outbox \cup added
    BY DEF Log!Record
<1>2. IsSeq(timeline[s])
    BY DEF ChainInv
<1>3. /\ n \in Nat /\ DOMAIN timeline[s] = 1..n
      /\ DOMAIN timeline'[s] = 1..(n + 1)
      /\ \A i \in 1..n : timeline'[s][i] = timeline[s][i]
      /\ timeline'[s][n + 1] = e
    BY <1>1, <1>2, AppendIsSeq DEF ChainInv
<1>4. \A r \in Submissions : r # s => timeline'[r] = timeline[r]
    BY <1>1 DEF ChainInv
<1>5. ASSUME NEW r \in Submissions, NEW i \in DOMAIN timeline[r]
      PROVE  /\ i \in DOMAIN timeline'[r] /\ timeline'[r][i] = timeline[r][i]
             /\ version'[r] = version[r]
    <2>1. version[r] # NotCreated
        <3>1. Chained(timeline[r], state[r], version[r])
            BY DEF ChainInv
        <3>2. timeline[r] # << >>
            BY <1>5
        <3>3. QED BY <3>1, <3>2 DEF Chained
    <2>2. CASE r = s
        BY <1>3, <2>1, <2>2
    <2>3. CASE r # s
        BY <1>4, <2>1, <2>3
    <2>4. QED BY <2>2, <2>3
<1>6. ASSUME NEW job \in outbox'
      PROVE  /\ job[1] \in Submissions /\ job[2] \in DOMAIN timeline'[job[1]]
             /\ job[3] \in OwedBy(timeline'[job[1]][job[2]], version'[job[1]])
    <2>1. CASE job \in outbox
        <3>1. /\ job[1] \in Submissions /\ job[2] \in DOMAIN timeline[job[1]]
              /\ job[3] \in OwedBy(timeline[job[1]][job[2]], version[job[1]])
            BY <2>1 DEF OutboxInv
        <3>2. QED BY <3>1, <1>5
    <2>2. CASE job \in added
        <3>1. PICK a \in actions : job = <<s, n + 1, a>>
            BY <2>2
        <3>2. job[1] = s /\ job[2] = n + 1 /\ job[3] = a
            BY <3>1
        <3>3. QED BY <3>2, <1>3
    <2>3. QED BY <1>1, <1>6, <2>1, <2>2
<1>7. ASSUME NEW r \in Submissions, NEW i \in DOMAIN timeline'[r],
             NEW a \in OwedBy(timeline'[r][i], version'[r])
      PROVE  <<r, i, a>> \in outbox'
    <2>1. CASE i \in DOMAIN timeline[r]
        <3>1. a \in OwedBy(timeline[r][i], version[r])
            BY <1>5, <1>7, <2>1
        <3>2. <<r, i, a>> \in outbox
            BY <2>1, <3>1 DEF OutboxInv
        <3>3. QED BY <1>1, <3>2
    <2>2. CASE i \notin DOMAIN timeline[r]
        <3>1. r = s /\ i = n + 1
            BY <1>3, <1>4, <1>7, <2>2
        <3>2. a \in actions
            BY <1>3, <1>7, <3>1
        <3>3. QED BY <1>1, <3>1, <3>2
    <2>3. QED BY <2>1, <2>2
<1>8. QED BY <1>6, <1>7 DEF OutboxInv

LEMMA OutboxStep == ChainInv /\ OutboxInv /\ [Log!Next]_(Log!lvars) => OutboxInv'
<1> SUFFICES ASSUME ChainInv, OutboxInv, [Log!Next]_(Log!lvars) PROVE OutboxInv'
    OBVIOUS
<1>1. ASSUME NEW s \in Submissions, NEW v \in Versions \cup {NoWorkflow}, Log!Create(s, v)
      PROVE  OutboxInv'
    <2> DEFINE e == Log!CreatedEvent(v)
    <2>1. e.type = "created"
        BY DEF Log!CreatedEvent, Log!Event
    <2> HIDE DEF e
    <2>2. /\ version'[s] = v
          /\ \A r \in Submissions : version[r] # NotCreated => version'[r] = version[r]
        BY <1>1 DEF Log!Create, Log!Exists, ChainInv
    <2>3. OwedBy(e, version'[s]) = Log!OnSubmit(v)
        BY <2>1, <2>2 DEF OwedBy
    <2>4. Log!Record(s, e, Log!OnSubmit(v))
        BY <1>1 DEF Log!Create, e
    <2>5. QED BY <2>2, <2>3, <2>4, OutboxRecord
<1>2. ASSUME NEW s \in Submissions, NEW patch, NEW t, Log!Transition(s, t, patch)
      PROVE  OutboxInv'
    <2> DEFINE e == Log!TransitionEvent(s, t, patch)
               actions == Workflow[version[s]].transitions[t].actions
    <2>1. e.type = "transition" /\ e.transition = t
        BY DEF Log!TransitionEvent, Log!Event
    <2>2. Log!Record(s, e, actions) /\ version' = version
        BY <1>2 DEF Log!Transition, Log!Definition
    <2> HIDE DEF e
    <2>3. OwedBy(e, version'[s]) = actions
        BY <2>1, <2>2 DEF OwedBy
    <2> HIDE DEF actions
    <2>4. QED BY <2>2, <2>3, OutboxRecord
<1>3. ASSUME NEW s \in Submissions, NEW e, Log!Record(s, e, {}),
             e.type \notin {"created", "transition"}, version' = version
      PROVE  OutboxInv'
    <2>1. OwedBy(e, version'[s]) = {}
        BY <1>3 DEF OwedBy
    <2>2. QED BY <1>3, <2>1, OutboxRecord
<1>4. ASSUME NEW s \in Submissions, NEW patch, Log!UpdateFields(s, patch)
      PROVE  OutboxInv'
    <2>1. Log!FieldsEvent(s, patch).type = "fields_updated"
        BY DEF Log!FieldsEvent, Log!Event
    <2>2. Log!Record(s, Log!FieldsEvent(s, patch), {}) /\ version' = version
        BY <1>4 DEF Log!UpdateFields
    <2>3. QED BY <1>3, <2>1, <2>2
<1>5. ASSUME NEW s \in Submissions, NEW u, Log!Assign(s, u)
      PROVE  OutboxInv'
    <2>1. Log!AssignedEvent(u).type = "assigned"
        BY DEF Log!AssignedEvent, Log!Event
    <2>2. Log!Record(s, Log!AssignedEvent(u), {}) /\ version' = version
        BY <1>5 DEF Log!Assign
    <2>3. QED BY <1>3, <2>1, <2>2
<1>6. ASSUME NEW s \in Submissions, NEW type \in RemarkTypes, Log!Remark(s, type)
      PROVE  OutboxInv'
    <2>1. Log!RemarkEvent(type).type \notin {"created", "transition"}
        BY EngineAssumption DEF EngineAssumption, Log!RemarkEvent, Log!Event
    <2>2. Log!Record(s, Log!RemarkEvent(type), {}) /\ version' = version
        BY <1>6 DEF Log!Remark, Log!columns
    <2>3. QED BY <1>3, <2>1, <2>2
<1>7. ASSUME UNCHANGED <<timeline, outbox, version>> PROVE OutboxInv'
    BY <1>7 DEF OutboxInv
<1>8. QED
    BY <1>1, <1>2, <1>4, <1>5, <1>6, <1>7
    DEF Log!Next, Log!ForgetUser, Log!lvars, Log!columns

(* The jobs are exactly those the committed events owe. *)
THEOREM OutboxIsExact == Spec => []OutboxExact
<1>1. OutboxInv => OutboxExact
    BY DEF OutboxInv, OutboxExact, OwedBy, Owed, Definition, Log!Definition
<1>2. Init => OutboxInv
    <2>1. ASSUME Init PROVE outbox = {} /\ \A s \in Submissions : DOMAIN timeline[s] = {}
        <3>1. DOMAIN << >> = {}
            OBVIOUS
        <3>2. QED BY <2>1, <3>1 DEF Init, Log!Init
    <2>2. QED BY <2>1 DEF OutboxInv
<1>3. QED
    BY <1>1, <1>2, ChainInit, ChainStep, OutboxStep, InitHolds, NextHolds, StepIsLogStep,
       PTL DEF Spec
-----------------------------------------------------------------------------
(***************************************************************************)
(* A submission's row is what its timeline adds up to: its fields, its     *)
(* assignee and the legality of its transitions.  Every step of the log    *)
(* appends at most one event to a row, and the event says which of the     *)
(* row's values change and to what (RowEvent); what the events tell about  *)
(* a key (Tells) then follows the row.  The assignee needs the engine's    *)
(* transactions as well, because a user may be deleted while one of them   *)
(* is open.                                                                *)
(***************************************************************************)

(* x is what the first n events of q tell about field k. *)
Tells(q, k, n, x) ==
    \/ x = Unset /\ \A i \in 1..n : k \notin DOMAIN q[i].fields
    \/ \E i \in 1..n :
        /\ k \in DOMAIN q[i].fields /\ x = q[i].fields[k]
        /\ \A j \in (i + 1)..n : k \notin DOMAIN q[j].fields

ValueOf(fl, k) == IF k \in DOMAIN fl THEN fl[k] ELSE Unset

Provided(x) == x \notin EmptyValues \cup {Unset}

KeysOf(v) == IF v \in {NotCreated, NoWorkflow} THEN {} ELSE Workflow[v].fields

(* If event i of q is a transition, the workflow v allows it. *)
LegalMove(q, i, v) ==
    LET e  == q[i]
        tr == Workflow[v].transitions[e.transition]
    IN  e.type = "transition" =>
            /\ e.transition \in DOMAIN Workflow[v].transitions
            /\ e.from \in tr.from /\ e.to = tr.to
            /\ \A k \in tr.requireFields : \E x : Tells(q, k, i, x) /\ Provided(x)

(* A row with timeline q, state st, fields fl and workflow version v. *)
RowSound(q, st, fl, v) ==
    /\ v \in Versions \cup {NoWorkflow, NotCreated}
    /\ v # NotCreated => st # ""
    /\ DOMAIN fl \subseteq KeysOf(v)
    /\ \A k \in DOMAIN fl : fl[k] \in Values
    /\ \A k : Tells(q, k, Len(q), ValueOf(fl, k))
    /\ \A i \in DOMAIN q : LegalMove(q, i, v)

RowInv ==
    /\ DOMAIN fields = Submissions
    /\ version \in [Submissions -> Versions \cup {NoWorkflow, NotCreated}]
    /\ \A s \in Submissions : RowSound(timeline[s], state[s], fields[s], version[s])

-----------------------------------------------------------------------------
(* What the events tell. *)

(* The relation determines Told, which chooses the last event.             *)
LEMMA TellsTold ==
    ASSUME NEW s, NEW k, NEW n \in Nat, NEW x, Tells(timeline[s], k, n, x)
    PROVE  Told(s, k, n) = x
<1> DEFINE telling == {i \in 1..n : k \in DOMAIN timeline[s][i].fields}
           last == CHOOSE i \in telling : \A j \in telling : j <= i
<1>1. CASE x = Unset /\ \A i \in 1..n : k \notin DOMAIN timeline[s][i].fields
    <2>1. telling = {}
        BY <1>1
    <2>2. QED BY <1>1, <2>1 DEF Told
<1>2. ASSUME NEW i \in 1..n, k \in DOMAIN timeline[s][i].fields,
             x = timeline[s][i].fields[k],
             \A j \in (i + 1)..n : k \notin DOMAIN timeline[s][j].fields
      PROVE  Told(s, k, n) = x
    <2>1. i \in telling /\ telling # {}
        BY <1>2
    <2>2. \A j \in telling : j <= i
        BY <1>2
    <2>3. last \in telling /\ \A j \in telling : j <= last
        BY <2>1, <2>2
    <2>4. last = i
        BY <2>1, <2>2, <2>3
    <2>5. Told(s, k, n) = timeline[s][last].fields[k]
        BY <2>1 DEF Told
    <2>6. QED BY <1>2, <2>4, <2>5
<1>3. QED BY <1>1, <1>2 DEF Tells

(* An event appended changes nothing that the earlier events told.         *)
LEMMA TellsBefore ==
    ASSUME NEW q, NEW e, IsSeq(q), NEW k, NEW x, NEW i \in 0..Len(q), Tells(q, k, i, x)
    PROVE  Tells(Append(q, e), k, i, x)
<1>1. Len(q) \in Nat /\ \A j \in 1..Len(q) : Append(q, e)[j] = q[j]
    BY AppendIsSeq
<1>2. QED BY <1>1 DEF Tells

(* What it tells itself replaces what was told before.                     *)
LEMMA TellsAppend ==
    ASSUME NEW q, NEW e, IsSeq(q), NEW k, NEW x, Tells(q, k, Len(q), x), NEW y,
           y = IF k \in DOMAIN e.fields THEN e.fields[k] ELSE x
    PROVE  Tells(Append(q, e), k, Len(q) + 1, y)
<1> DEFINE p == Append(q, e)
           n == Len(q)
<1>1. n \in Nat /\ (\A j \in 1..n : p[j] = q[j]) /\ p[n + 1] = e
    BY AppendIsSeq
<1>0. Tells(q, k, n, x)
    OBVIOUS
<1> HIDE DEF p, n
<1>2. CASE k \in DOMAIN e.fields
    <2>1. n + 1 \in 1..(n + 1) /\ (n + 1) + 1 \in Nat /\ \A j : j \notin ((n + 1) + 1)..(n + 1)
        BY <1>1
    <2>2. k \in DOMAIN p[n + 1].fields /\ y = p[n + 1].fields[k]
        BY <1>1, <1>2
    <2>3. Tells(p, k, n + 1, y)
        BY <2>1, <2>2 DEF Tells
    <2>4. QED BY <2>3 DEF p, n
<1>3. CASE k \notin DOMAIN e.fields
    <2>1. y = x /\ k \notin DOMAIN p[n + 1].fields
        BY <1>1, <1>3
    <2>2. CASE x = Unset /\ \A i \in 1..n : k \notin DOMAIN q[i].fields
        <3>1. \A i \in 1..(n + 1) : k \notin DOMAIN p[i].fields
            <4>1. \A i \in 1..(n + 1) : i \in 1..n \/ i = n + 1
                BY <1>1
            <4>2. QED BY <1>1, <2>1, <2>2, <4>1
        <3>2. Tells(p, k, n + 1, y)
            BY <2>1, <2>2, <3>1 DEF Tells
        <3>3. QED BY <3>2 DEF p, n
    <2>3. ASSUME NEW i \in 1..n, k \in DOMAIN q[i].fields, x = q[i].fields[k],
                 \A j \in (i + 1)..n : k \notin DOMAIN q[j].fields
          PROVE  Tells(p, k, n + 1, y)
        <3>1. i \in 1..(n + 1) /\ k \in DOMAIN p[i].fields /\ y = p[i].fields[k]
            BY <1>1, <2>1, <2>3
        <3>2. ASSUME NEW j \in (i + 1)..(n + 1) PROVE k \notin DOMAIN p[j].fields
            <4>1. j = n + 1 \/ (j \in (i + 1)..n /\ j \in 1..n)
                BY <1>1, <3>2
            <4>2. QED BY <1>1, <2>1, <2>3, <4>1
        <3>3. QED BY <3>1, <3>2 DEF Tells
    <2>4. QED BY <1>0, <2>2, <2>3 DEF Tells, p, n
<1>4. QED BY <1>2, <1>3

-----------------------------------------------------------------------------
(* merge_fields. *)

(* The changed keys and values are what the merge really does: elsewhere   *)
(* the fields stay, and every value stored is a value.                     *)
LEMMA MergeTold ==
    ASSUME NEW fl, \A k \in DOMAIN fl : fl[k] \in Values, NEW K,
           NEW patch \in [K -> Values \cup {Unset}]
    PROVE  /\ \A k : ValueOf(merged(fl, patch), k) =
                        IF k \in DOMAIN changed(fl, patch) THEN changed(fl, patch)[k]
                        ELSE ValueOf(fl, k)
           /\ \A k \in DOMAIN merged(fl, patch) : merged(fl, patch)[k] \in Values
           /\ DOMAIN merged(fl, patch) \subseteq DOMAIN fl \cup K
<1> DEFINE m == merged(fl, patch)
           c == changed(fl, patch)
<1>1. /\ DOMAIN m = (DOMAIN fl \ UnsetKeys(patch)) \cup SetKeys(patch)
      /\ \A k \in DOMAIN m : m[k] = IF k \in SetKeys(patch) THEN patch[k] ELSE fl[k]
    BY DEF merged
<1>2. /\ DOMAIN c = ChangedKeys(fl, patch)
      /\ \A k \in DOMAIN c : c[k] = patch[k]
    BY DEF changed
<1>3. DOMAIN patch = K /\ \A k \in K : patch[k] \in Values \cup {Unset}
    OBVIOUS
<1>4. Unset \notin Values
    BY RulesAssumption DEF RulesAssumption
<1> HIDE DEF m, c
<1>5. ASSUME NEW k PROVE ValueOf(m, k) = IF k \in DOMAIN c THEN c[k] ELSE ValueOf(fl, k)
    <2>1. CASE k \notin K
        BY <1>1, <1>2, <1>3, <2>1 DEF ValueOf, SetKeys, UnsetKeys, ChangedKeys
    <2>2. CASE k \in K /\ patch[k] = Unset
        BY <1>1, <1>2, <1>3, <2>2 DEF ValueOf, SetKeys, UnsetKeys, ChangedKeys
    <2>3. CASE k \in K /\ patch[k] # Unset
        BY <1>1, <1>2, <1>3, <2>3 DEF ValueOf, SetKeys, UnsetKeys, ChangedKeys
    <2>4. QED BY <2>1, <2>2, <2>3
<1>6. \A k \in DOMAIN m : m[k] \in Values
    BY <1>1, <1>3 DEF SetKeys, UnsetKeys
<1>7. DOMAIN m \subseteq DOMAIN fl \cup K
    BY <1>1, <1>3 DEF SetKeys
<1>8. QED BY <1>5, <1>6, <1>7 DEF m, c

-----------------------------------------------------------------------------
(* A step of the log leaves a row alone, or it appends one event that says *)
(* what it does to the row.                                                *)

LegalEvent(e, fl, v) ==
    LET tr == Workflow[v].transitions[e.transition]
    IN  e.type = "transition" =>
            /\ e.transition \in DOMAIN Workflow[v].transitions
            /\ e.from \in tr.from /\ e.to = tr.to
            /\ \A k \in tr.requireFields : Provided(ValueOf(fl, k))

RowEvent(e, fl, v, st1, fl1, v1) ==
    /\ v = NotCreated \/ v1 = v
    /\ v1 \in Versions \cup {NoWorkflow}
    /\ st1 # ""
    /\ DOMAIN fl1 \subseteq KeysOf(v1)
    /\ \A k \in DOMAIN fl1 : fl1[k] \in Values
    /\ \A k : ValueOf(fl1, k) = IF k \in DOMAIN e.fields THEN e.fields[k] ELSE ValueOf(fl, k)
    /\ LegalEvent(e, fl1, v1)

LEMMA RowEventKeeps ==
    ASSUME NEW q, NEW st, NEW fl, NEW v, NEW e, NEW st1, NEW fl1, NEW v1,
           IsSeq(q), Chained(q, st, v), RowSound(q, st, fl, v),
           RowEvent(e, fl, v, st1, fl1, v1)
    PROVE  RowSound(Append(q, e), st1, fl1, v1)
<1> DEFINE p == Append(q, e)
           n == Len(q)
<1>1. /\ n \in Nat /\ DOMAIN q = 1..n /\ Len(p) = n + 1 /\ DOMAIN p = 1..(n + 1)
      /\ \A i \in 1..n : p[i] = q[i]
      /\ p[n + 1] = e
    BY AppendIsSeq
<1>2. \A k, i, x : i \in 0..n /\ Tells(q, k, i, x) => Tells(p, k, i, x)
    BY TellsBefore
<1>3. \A k : Tells(p, k, n + 1, ValueOf(fl1, k))
    <2> SUFFICES ASSUME NEW k PROVE Tells(p, k, n + 1, ValueOf(fl1, k))
        OBVIOUS
    <2>1. Tells(q, k, n, ValueOf(fl, k))
        BY DEF RowSound
    <2>2. ValueOf(fl1, k) = IF k \in DOMAIN e.fields THEN e.fields[k] ELSE ValueOf(fl, k)
        BY DEF RowEvent
    <2>3. QED BY <2>1, <2>2, TellsAppend
<1> HIDE DEF p, n
<1>4. ASSUME NEW i \in DOMAIN p PROVE LegalMove(p, i, v1)
    <2>1. CASE i = n + 1
        <3>1. LegalEvent(e, fl1, v1)
            BY DEF RowEvent
        <3>2. QED BY <1>1, <1>3, <2>1, <3>1 DEF LegalMove, LegalEvent
    <2>2. CASE i \in 1..n
        <3>1. v1 = v
            <4>1. q # << >>
                BY <1>1, <2>2
            <4>2. QED BY <4>1 DEF Chained, RowEvent
        <3>2. LegalMove(q, i, v)
            BY <1>1, <2>2 DEF RowSound
        <3>3. p[i] = q[i] /\ i \in 0..n
            BY <1>1, <2>2
        <3>4. \A k, x : Tells(q, k, i, x) => Tells(p, k, i, x)
            BY <1>2, <3>3
        <3>5. QED BY <3>1, <3>2, <3>3, <3>4 DEF LegalMove
    <2>3. QED BY <1>1, <1>4, <2>1, <2>2
<1>5. QED BY <1>1, <1>3, <1>4 DEF RowSound, RowEvent, p

(* An event without fields, on a row whose fields stay.                    *)
LEMMA QuietEvent ==
    ASSUME NEW q, NEW st, NEW fl, NEW v, NEW e, RowSound(q, st, fl, v), v # NotCreated,
           e.type # "transition", e.fields = Log!NoFields
    PROVE  RowEvent(e, fl, v, st, fl, v)
<1>1. DOMAIN e.fields = {}
    BY DEF Log!NoFields
<1>2. QED BY <1>1 DEF RowEvent, RowSound, LegalEvent

(* What remains to be said of a step that appends event e to row s alone.  *)
WritesRow(s, e) ==
    /\ s \in Submissions
    /\ timeline' = [timeline EXCEPT ![s] = Append(@, e)]
    /\ DOMAIN fields' = Submissions
    /\ version' \in [Submissions -> Versions \cup {NoWorkflow, NotCreated}]
    /\ \A r \in Submissions \ {s} :
        state'[r] = state[r] /\ fields'[r] = fields[r] /\ version'[r] = version[r]
    /\ RowEvent(e, fields[s], version[s], state'[s], fields'[s], version'[s])

LEMMA WrittenRowSound ==
    ASSUME ChainInv, RowInv, NEW s, NEW e, WritesRow(s, e)
    PROVE  RowInv'
<1>1. ASSUME NEW r \in Submissions
      PROVE  RowSound(timeline'[r], state'[r], fields'[r], version'[r])
    <2>1. /\ IsSeq(timeline[r]) /\ Chained(timeline[r], state[r], version[r])
          /\ RowSound(timeline[r], state[r], fields[r], version[r])
        BY DEF ChainInv, RowInv
    <2>2. CASE r = s
        <3>1. timeline'[r] = Append(timeline[r], e)
            BY <2>2 DEF WritesRow, ChainInv
        <3>2. RowEvent(e, fields[r], version[r], state'[r], fields'[r], version'[r])
            BY <2>2 DEF WritesRow
        <3>3. QED BY <2>1, <3>1, <3>2, RowEventKeeps
    <2>3. CASE r # s
        BY <2>1, <2>3 DEF WritesRow, ChainInv
    <2>4. QED BY <2>2, <2>3
<1>2. QED BY <1>1 DEF RowInv, WritesRow

LEMMA CreateWrites ==
    ASSUME ChainInv, RowInv, NEW s \in Submissions, NEW v \in Versions \cup {NoWorkflow},
           Log!Create(s, v)
    PROVE  WritesRow(s, Log!CreatedEvent(v))
<1> DEFINE e == Log!CreatedEvent(v)
<1>1. e.type = "created" /\ e.fields = Log!NoFields
    BY DEF Log!CreatedEvent, Log!Event
<1>2. timeline' = [timeline EXCEPT ![s] = Append(@, e)]
    BY DEF Log!Create, Log!Record
<1> HIDE DEF e
<1>3. /\ version[s] = NotCreated /\ version' = [version EXCEPT ![s] = v]
      /\ state' = [state EXCEPT ![s] = Log!InitialState(v)]
      /\ fields' = [fields EXCEPT ![s] = Log!NoFields]
    BY DEF Log!Create, Log!Exists
<1>4. Log!InitialState(v) # ""
    BY StatesNamed DEF StatesNamed, Log!InitialState
<1>5. \A k : ValueOf(fields[s], k) = Unset
    <2>1. Chained(timeline[s], state[s], version[s]) /\ IsSeq(timeline[s])
        BY DEF ChainInv
    <2>2. timeline[s] = << >>
        BY <1>3, <2>1 DEF Chained
    <2>3. RowSound(<< >>, state[s], fields[s], version[s])
        BY <2>2 DEF RowInv
    <2>4. \A i : i \notin 1..Len(<< >>)
        OBVIOUS
    <2>5. QED BY <2>3, <2>4 DEF RowSound, Tells
<1>6. RowEvent(e, fields[s], version[s], Log!InitialState(v), Log!NoFields, v)
    <2>1. DOMAIN Log!NoFields = {}
        BY DEF Log!NoFields
    <2>2. QED BY <1>1, <1>3, <1>4, <1>5, <2>1 DEF RowEvent, LegalEvent, ValueOf
<1>7. QED BY <1>2, <1>3, <1>6 DEF WritesRow, ChainInv, RowInv, e

LEMMA TransitionWrites ==
    ASSUME ChainInv, RowInv, NEW s \in Submissions, Log!HasWorkflow(s),
           NEW patch \in Log!PatchesOf(Log!Definition(s)),
           NEW t \in DOMAIN Log!Definition(s).transitions, Log!Transition(s, t, patch)
    PROVE  WritesRow(s, Log!TransitionEvent(s, t, patch))
<1> DEFINE e == Log!TransitionEvent(s, t, patch)
           fl == fields[s]
           v == version[s]
           tr == Workflow[v].transitions[t]
<1>1. /\ e.type = "transition" /\ e.from = state[s] /\ e.to = tr.to /\ e.transition = t
      /\ e.fields = changed(fl, patch)
    BY SameRules DEF Log!TransitionEvent, Log!Event
<1>2. timeline' = [timeline EXCEPT ![s] = Append(@, e)]
    BY DEF Log!Transition, Log!Record
<1> HIDE DEF e
<1>3. /\ state[s] \in tr.from
      /\ \A k \in tr.requireFields : ~is_empty(merged(fl, patch), k)
      /\ state' = [state EXCEPT ![s] = tr.to]
      /\ fields' = [fields EXCEPT ![s] = merged(fl, patch)]
      /\ version' = version
    <2>1. Missing(tr.requireFields, fl, patch) = {}
        BY SameRules DEF Log!Transition, Log!Definition
    <2>2. \A k \in tr.requireFields : ~is_empty(merged(fl, patch), k)
        BY <2>1 DEF Missing
    <2>3. QED BY <2>2, SameRules DEF Log!Transition, Log!Definition
<1>4. /\ v \in Versions /\ v # NotCreated /\ DOMAIN fl \subseteq Workflow[v].fields
      /\ \A k \in DOMAIN fl : fl[k] \in Values
    BY DEF RowInv, RowSound, KeysOf, Log!HasWorkflow
<1>5. PICK K \in SUBSET Workflow[v].fields : patch \in [K -> Values \cup {Unset}]
    BY DEF Log!PatchesOf, Log!Definition
<1>6. /\ \A k : ValueOf(merged(fl, patch), k) =
                   IF k \in DOMAIN changed(fl, patch) THEN changed(fl, patch)[k]
                   ELSE ValueOf(fl, k)
      /\ \A k \in DOMAIN merged(fl, patch) : merged(fl, patch)[k] \in Values
      /\ DOMAIN merged(fl, patch) \subseteq Workflow[v].fields
    BY <1>4, <1>5, MergeTold
<1>7. tr.to # ""
    BY <1>4, StatesNamed DEF StatesNamed, Log!Definition
<1>8. LegalEvent(e, merged(fl, patch), v)
    <2>1. \A k \in tr.requireFields : Provided(ValueOf(merged(fl, patch), k))
        BY <1>3, <1>6, RulesAssumption DEF is_empty, ValueOf, Provided, RulesAssumption
    <2>2. t \in DOMAIN Workflow[v].transitions
        BY DEF Log!Definition
    <2>3. QED BY <1>1, <1>3, <2>1, <2>2 DEF LegalEvent
<1>9. RowEvent(e, fl, v, tr.to, merged(fl, patch), v)
    <2>1. DOMAIN merged(fl, patch) \subseteq KeysOf(v)
        BY <1>6 DEF KeysOf, Log!HasWorkflow
    <2>2. QED BY <1>1, <1>4, <1>6, <1>7, <1>8, <2>1 DEF RowEvent
<1>10. QED BY <1>2, <1>3, <1>9 DEF WritesRow, ChainInv, RowInv, e

LEMMA UpdateFieldsWrites ==
    ASSUME ChainInv, RowInv, NEW s \in Submissions, Log!HasWorkflow(s),
           NEW patch \in Log!PatchesOf(Log!Definition(s)), Log!UpdateFields(s, patch)
    PROVE  WritesRow(s, Log!FieldsEvent(s, patch))
<1> DEFINE e == Log!FieldsEvent(s, patch)
           fl == fields[s]
           v == version[s]
<1>1. e.type = "fields_updated" /\ e.fields = changed(fl, patch)
    BY SameRules DEF Log!FieldsEvent, Log!Event
<1>2. timeline' = [timeline EXCEPT ![s] = Append(@, e)]
    BY DEF Log!UpdateFields, Log!Record
<1> HIDE DEF e
<1>3. /\ fields' = [fields EXCEPT ![s] = merged(fl, patch)]
      /\ state' = state /\ version' = version
    BY SameRules DEF Log!UpdateFields
<1>4. /\ v \in Versions /\ v # NotCreated /\ DOMAIN fl \subseteq Workflow[v].fields
      /\ \A k \in DOMAIN fl : fl[k] \in Values
      /\ state[s] # ""
    BY DEF RowInv, RowSound, KeysOf, Log!HasWorkflow
<1>5. PICK K \in SUBSET Workflow[v].fields : patch \in [K -> Values \cup {Unset}]
    BY DEF Log!PatchesOf, Log!Definition
<1>6. /\ \A k : ValueOf(merged(fl, patch), k) =
                   IF k \in DOMAIN changed(fl, patch) THEN changed(fl, patch)[k]
                   ELSE ValueOf(fl, k)
      /\ \A k \in DOMAIN merged(fl, patch) : merged(fl, patch)[k] \in Values
      /\ DOMAIN merged(fl, patch) \subseteq Workflow[v].fields
    BY <1>4, <1>5, MergeTold
<1>7. RowEvent(e, fl, v, state[s], merged(fl, patch), v)
    <2>1. DOMAIN merged(fl, patch) \subseteq KeysOf(v)
        BY <1>6 DEF KeysOf, Log!HasWorkflow
    <2>2. QED BY <1>1, <1>4, <1>6, <2>1 DEF RowEvent, LegalEvent
<1>8. QED BY <1>2, <1>3, <1>7 DEF WritesRow, ChainInv, RowInv, e

LEMMA QuietWrites ==
    ASSUME ChainInv, RowInv, NEW s \in Submissions, Log!Exists(s), NEW e, NEW actions,
           Log!Record(s, e, actions), UNCHANGED <<state, fields, version>>,
           e.type # "transition", e.fields = Log!NoFields
    PROVE  WritesRow(s, e)
<1>1. RowSound(timeline[s], state[s], fields[s], version[s])
    BY DEF RowInv
<1>2. RowEvent(e, fields[s], version[s], state[s], fields[s], version[s])
    BY <1>1, QuietEvent DEF Log!Exists
<1>3. QED BY <1>2 DEF WritesRow, Log!Record, RowInv

LEMMA RowKept == ChainInv /\ RowInv /\ [Log!Next]_(Log!lvars) => RowInv'
<1> SUFFICES ASSUME ChainInv, RowInv, [Log!Next]_(Log!lvars) PROVE RowInv'
    OBVIOUS
<1>1. ASSUME NEW s \in Submissions, NEW v \in Versions \cup {NoWorkflow}, Log!Create(s, v)
      PROVE  RowInv'
    BY <1>1, CreateWrites, WrittenRowSound
<1>2. ASSUME NEW s \in Submissions, Log!HasWorkflow(s),
             NEW patch \in Log!PatchesOf(Log!Definition(s)),
             NEW t \in DOMAIN Log!Definition(s).transitions, Log!Transition(s, t, patch)
      PROVE  RowInv'
    BY <1>2, TransitionWrites, WrittenRowSound
<1>3. ASSUME NEW s \in Submissions, Log!HasWorkflow(s),
             NEW patch \in Log!PatchesOf(Log!Definition(s)), Log!UpdateFields(s, patch)
      PROVE  RowInv'
    BY <1>3, UpdateFieldsWrites, WrittenRowSound
<1>4. ASSUME NEW s \in Submissions, Log!Exists(s), NEW u, Log!Assign(s, u)
      PROVE  RowInv'
    <2>1. /\ Log!AssignedEvent(u).type # "transition"
          /\ Log!AssignedEvent(u).fields = Log!NoFields
        BY DEF Log!AssignedEvent, Log!Event
    <2>2. Log!Record(s, Log!AssignedEvent(u), {}) /\ UNCHANGED <<state, fields, version>>
        BY <1>4 DEF Log!Assign
    <2>3. WritesRow(s, Log!AssignedEvent(u))
        BY <1>4, <2>1, <2>2, QuietWrites
    <2>4. QED BY <2>3, WrittenRowSound
<1>5. ASSUME NEW s \in Submissions, Log!Exists(s), NEW type \in RemarkTypes, Log!Remark(s, type)
      PROVE  RowInv'
    <2>1. /\ Log!RemarkEvent(type).type # "transition"
          /\ Log!RemarkEvent(type).fields = Log!NoFields
        BY EngineAssumption DEF EngineAssumption, Log!RemarkEvent, Log!Event
    <2>2. Log!Record(s, Log!RemarkEvent(type), {}) /\ UNCHANGED <<state, fields, version>>
        BY <1>5 DEF Log!Remark, Log!columns
    <2>3. WritesRow(s, Log!RemarkEvent(type))
        BY <1>5, <2>1, <2>2, QuietWrites
    <2>4. QED BY <2>3, WrittenRowSound
<1>6. ASSUME UNCHANGED <<timeline, state, fields, version>> PROVE RowInv'
    BY <1>6 DEF RowInv
<1>7. QED
    BY <1>1, <1>2, <1>3, <1>4, <1>5, <1>6
    DEF Log!Next, Log!ForgetUser, Log!lvars, Log!columns

LEMMA RowInit == Init => RowInv
<1> SUFFICES ASSUME Init PROVE RowInv
    OBVIOUS
<1>1. ASSUME NEW s \in Submissions PROVE RowSound(timeline[s], state[s], fields[s], version[s])
    <2>1. timeline[s] = << >> /\ version[s] = NotCreated /\ fields[s] = Log!NoFields
        BY DEF Init, Log!Init
    <2>2. DOMAIN Log!NoFields = {}
        BY DEF Log!NoFields
    <2>3. Len(<< >>) = 0 /\ DOMAIN << >> = {} /\ \A i : i \notin 1..0
        OBVIOUS
    <2>4. \A k : Tells(<< >>, k, Len(<< >>), ValueOf(Log!NoFields, k))
        BY <2>2, <2>3 DEF Tells, ValueOf
    <2>5. QED BY <2>1, <2>2, <2>3, <2>4 DEF RowSound
<1>2. QED BY <1>1 DEF RowInv, Init, Log!Init

THEOREM RowsSound == Spec => [](ChainInv /\ RowInv)
BY ChainInit, ChainStep, RowInit, RowKept, InitHolds, NextHolds, StepIsLogStep, PTL DEF Spec

(* Every transition in a timeline was allowed, with its required fields.   *)
THEOREM TransitionsAreLegal == Spec => []TransitionsLegal
<1>1. ChainInv /\ RowInv => TransitionsLegal
    <2> SUFFICES ASSUME ChainInv, RowInv, NEW s \in Submissions, NEW i \in DOMAIN timeline[s],
                        timeline[s][i].type = "transition"
                 PROVE  LET e  == timeline[s][i]
                            tr == Definition(s).transitions[e.transition]
                        IN  /\ e.transition \in DOMAIN Definition(s).transitions
                            /\ e.from \in tr.from /\ e.to = tr.to
                            /\ \A k \in tr.requireFields :
                                 Told(s, k, i) \notin EmptyValues \cup {Unset}
        BY DEF TransitionsLegal
    <2>1. LegalMove(timeline[s], i, version[s])
        BY DEF RowInv, RowSound
    <2>2. i \in Nat
        <3>1. IsSeq(timeline[s])
            BY DEF ChainInv
        <3>2. QED BY <3>1 DEF IsSeq
    <2>3. \A k, x : Tells(timeline[s], k, i, x) => Told(s, k, i) = x
        BY <2>2, TellsTold
    <2>4. QED BY <2>1, <2>3 DEF LegalMove, Provided, Definition, Log!Definition
<1>2. QED BY <1>1, RowsSound, PTL

(* The fields of a row are what its events add up to. *)
THEOREM FieldsAreTold == Spec => []FieldsMatchTimeline
<1>1. ChainInv /\ RowInv => FieldsMatchTimeline
    <2> SUFFICES ASSUME ChainInv, RowInv, NEW s \in Submissions, NEW k
                 PROVE  Told(s, k, Len(timeline[s])) = ValueOf(fields[s], k)
        BY DEF FieldsMatchTimeline, ValueOf
    <2>1. IsSeq(timeline[s]) /\ Tells(timeline[s], k, Len(timeline[s]), ValueOf(fields[s], k))
        BY DEF ChainInv, RowInv, RowSound
    <2>2. Len(timeline[s]) \in Nat
        BY <2>1 DEF IsSeq
    <2>3. QED BY <2>1, <2>2, TellsTold
<1>2. QED BY <1>1, RowsSound, PTL

-----------------------------------------------------------------------------
(* The assignee, the locks and the bound on a timeline.                    *)

Assigns(e) == e.type = "assigned"

(* u is the user the last assigned event of q names, or nobody.            *)
NamedLast(q, u) ==
    \/ u = Nobody /\ \A i \in 1..Len(q) : ~Assigns(q[i])
    \/ \E i \in 1..Len(q) :
        /\ Assigns(q[i]) /\ u = q[i].assignee
        /\ \A j \in (i + 1)..Len(q) : ~Assigns(q[j])

(* The row's assignee is the user last named, unless that user is gone.    *)
Kept(u, present) == IF u \in present THEN u ELSE Nobody

RowsAssigned ==
    /\ assignee \in [Submissions -> Users \cup {Nobody}]
    /\ \A s \in Submissions : \E u :
        NamedLast(timeline[s], u) /\ assignee[s] = Kept(u, users)

(* An open assignment holds a key lock on the user it names.               *)
AssignsPresent ==
    \A c \in Clients : Open(c) /\ tx[c].op \in {"assign", "run_assign"} =>
        tx[c].written.assignee \in users \cup {Nobody}

LocksHeld ==
    \A s \in Submissions : lock[s] # NoClient => Open(lock[s]) /\ tx[lock[s]].sub = s

RoomLeft ==
    \A s \in Submissions :
        Len(timeline[s]) <= MaxEvents /\ (lock[s] # NoClient => Len(timeline[s]) < MaxEvents)

EngineInv == RowsAssigned /\ AssignsPresent /\ LocksHeld /\ RoomLeft

LEMMA NamedAppend ==
    ASSUME NEW q, NEW e, IsSeq(q), NEW u, NamedLast(q, u)
    PROVE  NamedLast(Append(q, e), IF Assigns(e) THEN e.assignee ELSE u)
<1> DEFINE p == Append(q, e)
           n == Len(q)
<1>1. n \in Nat /\ Len(p) = n + 1 /\ (\A j \in 1..n : p[j] = q[j]) /\ p[n + 1] = e
    BY AppendIsSeq
<1>2. NamedLast(q, u)
    OBVIOUS
<1> HIDE DEF p
<1>3. CASE Assigns(e)
    <2>1. \A j : j \notin ((n + 1) + 1)..(n + 1)
        BY <1>1
    <2>2. n + 1 \in 1..Len(p) /\ Assigns(p[n + 1]) /\ p[n + 1].assignee = e.assignee
        BY <1>1, <1>3
    <2>3. NamedLast(p, e.assignee)
        BY <1>1, <2>1, <2>2 DEF NamedLast
    <2>4. QED BY <1>3, <2>3 DEF p
<1>4. CASE ~Assigns(e)
    <2>1. CASE u = Nobody /\ \A i \in 1..n : ~Assigns(q[i])
        <3>1. \A i \in 1..(n + 1) : i \in 1..n \/ i = n + 1
            BY <1>1
        <3>2. \A i \in 1..Len(p) : ~Assigns(p[i])
            BY <1>1, <1>4, <2>1, <3>1
        <3>3. NamedLast(p, u)
            BY <2>1, <3>2 DEF NamedLast
        <3>4. QED BY <1>4, <3>3 DEF p
    <2>2. ASSUME NEW i \in 1..n, Assigns(q[i]), u = q[i].assignee,
                 \A j \in (i + 1)..n : ~Assigns(q[j])
          PROVE  NamedLast(p, u)
        <3>1. i \in 1..Len(p) /\ Assigns(p[i]) /\ u = p[i].assignee
            BY <1>1, <2>2
        <3>2. ASSUME NEW j \in (i + 1)..Len(p) PROVE ~Assigns(p[j])
            <4>1. j = n + 1 \/ (j \in (i + 1)..n /\ j \in 1..n)
                BY <1>1, <3>2
            <4>2. QED BY <1>1, <1>4, <2>2, <4>1
        <3>3. QED BY <3>1, <3>2 DEF NamedLast
    <2>3. QED BY <1>2, <1>4, <2>1, <2>2 DEF NamedLast, p
<1>5. QED BY <1>3, <1>4

(* What Commit does, once the staged event is known.                       *)
LEMMA CommitFacts ==
    ASSUME IInv, ChainInv, LocksHeld, NEW c \in Clients, Commit(c)
    PROVE  /\ Open(c) /\ tx[c].sub \in Submissions /\ lock[tx[c].sub] = c
           /\ Staged(tx[c], state[tx[c].sub], fields[tx[c].sub], version[tx[c].sub])
           /\ timeline' = [timeline EXCEPT ![tx[c].sub] = Append(@, tx[c].event)]
           /\ assignee' = Put(assignee, tx[c].sub, tx[c].written.assignee, tx[c].op,
                              {"create", "assign", "run_assign"})
           /\ Finish(c)
<1>1. Open(c) /\ StagedBy(c)
    BY DEF Commit, IInv, Snapshot
<1>2. QED BY <1>1 DEF Commit, StagedBy, Log!Record

LEMMA FinishFrees ==
    ASSUME IInv, LocksHeld, AssignsPresent, NEW c \in Clients, Open(c), Finish(c)
    PROVE  LocksHeld' /\ AssignsPresent'
<1>1. StagedBy(c)
    BY DEF IInv, Snapshot
<1>2. /\ lock' = [lock EXCEPT ![tx[c].sub] = NoClient] /\ tx' = [tx EXCEPT ![c] = NoTx]
      /\ users' = users
    BY DEF Finish
<1>3. ASSUME NEW s \in Submissions, lock'[s] # NoClient
      PROVE  tx'[lock'[s]].op # "none" /\ tx'[lock'[s]].sub = s
    <2>1. s # tx[c].sub /\ lock'[s] = lock[s]
        BY <1>1, <1>2, <1>3 DEF IInv, Typed
    <2>2. tx[lock[s]].op # "none" /\ tx[lock[s]].sub = s /\ lock[s] \in Clients
        BY <1>3, <2>1 DEF LocksHeld, Open, IInv, Typed
    <2>3. lock[s] # c
        BY <2>1, <2>2
    <2>4. QED BY <1>2, <2>1, <2>2, <2>3 DEF IInv, Typed
<1>4. \A d \in Clients : tx'[d] = IF d = c THEN NoTx ELSE tx[d]
    BY <1>2 DEF IInv, Typed
<1>5. AssignsPresent'
    BY <1>2, <1>4 DEF AssignsPresent, Open, NoTx
<1>6. QED BY <1>3, <1>5 DEF LocksHeld, Open

LEMMA RoomMeans ==
    ASSUME ChainInv, NEW s \in Submissions, Room(s)
    PROVE  /\ Len(timeline[s]) < MaxEvents
           /\ lock[s] # NoClient => Len(timeline[s]) + 1 < MaxEvents
<1>1. MaxEvents \in Nat
    BY EngineAssumption DEF EngineAssumption
<1>2. Len(timeline[s]) \in Nat
    BY AppendIsSeq DEF ChainInv
<1>3. CASE Free(s)
    <2>1. Len(timeline[s]) + 0 < MaxEvents
        BY <1>3 DEF Room
    <2>2. QED BY <1>1, <1>2, <1>3, <2>1 DEF Free
<1>4. CASE ~Free(s)
    <2>1. Len(timeline[s]) + 1 < MaxEvents
        BY <1>4 DEF Room
    <2>2. QED BY <1>1, <1>2, <2>1
<1>5. QED BY <1>3, <1>4

LEMMA EventTypes ==
    ASSUME NEW v, NEW st, NEW to, NEW t, NEW pt, NEW u
    PROVE  /\ Log!CreatedEvent(v).type = "created"
           /\ Log!Event("transition", st, to, t, pt, u).type = "transition"
           /\ Log!Event("fields_updated", st, to, t, pt, u).type = "fields_updated"
           /\ Log!AssignedEvent(u).type = "assigned" /\ Log!AssignedEvent(u).assignee = u
BY DEF Log!CreatedEvent, Log!Event, Log!AssignedEvent

LEMMA StageKeepsEngine ==
    ASSUME IInv, ChainInv, EngineInv, NEW c \in Clients, NEW s \in Submissions, NEW op, NEW written,
           NEW expected, NEW event, NEW actions,
           Stage(c, s, op, written, expected, event, actions), op # "none",
           op \in {"assign", "run_assign"} => written.assignee \in users \cup {Nobody}
    PROVE  EngineInv'
<1> DEFINE t == [op |-> op, sub |-> s, written |-> written, expected |-> expected,
                 event |-> event, actions |-> actions]
<1>1. /\ lock' = [lock EXCEPT ![s] = c] /\ tx' = [tx EXCEPT ![c] = t]
      /\ UNCHANGED <<timeline, assignee, users>>
      /\ ~Open(c) /\ Free(s) /\ Room(s)
    BY DEF Stage, tables, columns
<1>2. t.op = op /\ t.sub = s /\ t.written = written
    OBVIOUS
<1> HIDE DEF t
<1>3. /\ \A d \in Clients : tx'[d] = IF d = c THEN t ELSE tx[d]
      /\ \A r \in Submissions : lock'[r] = IF r = s THEN c ELSE lock[r]
    BY <1>1 DEF IInv, Typed
<1>4. RowsAssigned'
    BY <1>1 DEF EngineInv, RowsAssigned
<1>5. AssignsPresent'
    BY <1>1, <1>2, <1>3 DEF EngineInv, AssignsPresent, Open
<1>6. ASSUME NEW r \in Submissions, lock'[r] # NoClient
      PROVE  tx'[lock'[r]].op # "none" /\ tx'[lock'[r]].sub = r
    <2>1. CASE r = s
        BY <1>2, <1>3, <2>1
    <2>2. CASE r # s
        <3>1. lock'[r] = lock[r] /\ lock[r] \in Clients
            BY <1>3, <1>6, <2>2 DEF IInv, Typed
        <3>2. Open(lock[r]) /\ tx[lock[r]].sub = r
            BY <1>6, <3>1 DEF EngineInv, LocksHeld
        <3>3. QED BY <1>1, <1>3, <3>1, <3>2 DEF Open
    <2>3. QED BY <2>1, <2>2
<1>7. ASSUME NEW r \in Submissions
      PROVE  /\ Len(timeline[r]) <= MaxEvents
             /\ lock'[r] # NoClient => Len(timeline[r]) < MaxEvents
    <2>1. /\ Len(timeline[r]) <= MaxEvents
          /\ lock[r] # NoClient => Len(timeline[r]) < MaxEvents
        BY DEF EngineInv, RoomLeft
    <2>2. Len(timeline[s]) < MaxEvents
        BY <1>1, RoomMeans
    <2>3. QED BY <1>3, <2>1, <2>2
<1>8. QED BY <1>1, <1>4, <1>5, <1>6, <1>7 DEF EngineInv, LocksHeld, RoomLeft, Open

LEMMA BeginKeepsEngine ==
    ASSUME IInv, ChainInv, EngineInv, NEW c \in Clients, NEW s \in Submissions,
           BeginCreate(c, s) \/ BeginTransition(c, s) \/ BeginUpdateFields(c, s)
                \/ BeginAssign(c, s) \/ BeginRunAssign(c, s)
    PROVE  EngineInv'
<1>1. CASE BeginCreate(c, s)
    BY <1>1, StageKeepsEngine DEF BeginCreate
<1>2. CASE BeginTransition(c, s)
    BY <1>2, StageKeepsEngine DEF BeginTransition
<1>3. CASE BeginUpdateFields(c, s)
    BY <1>3, StageKeepsEngine DEF BeginUpdateFields
<1>4. ASSUME NEW u \in users \cup {Nobody}, NEW op \in {"assign", "run_assign"},
             Stage(c, s, op, Written(s, state[s], Log!NoFields, u, version[s]), "",
                   Log!AssignedEvent(u), {})
      PROVE  EngineInv'
    <2> DEFINE written == Written(s, state[s], Log!NoFields, u, version[s])
    <2>1. written.assignee \in users \cup {Nobody}
        BY DEF Written
    <2> HIDE DEF written
    <2>2. op # "none" /\ Stage(c, s, op, written, "", Log!AssignedEvent(u), {})
        BY <1>4 DEF written
    <2>3. QED BY <2>1, <2>2, StageKeepsEngine
<1>5. CASE BeginAssign(c, s)
    BY <1>4, <1>5 DEF BeginAssign
<1>6. CASE BeginRunAssign(c, s)
    <2>1. PICK u \in users :
            Stage(c, s, "run_assign", Written(s, state[s], Log!NoFields, u, version[s]), "",
                  Log!AssignedEvent(u), {})
        BY <1>6 DEF BeginRunAssign
    <2>2. QED BY <1>4, <2>1
<1>7. QED BY <1>1, <1>2, <1>3, <1>5, <1>6

(* Whom the committed event names, against what the commit writes.         *)
LEMMA CommitAssigns ==
    ASSUME IInv, ChainInv, EngineInv, NEW c \in Clients, Commit(c)
    PROVE  RowsAssigned'
<1> DEFINE s == tx[c].sub
           e == tx[c].event
           a == tx[c].written.assignee
           op == tx[c].op
<1>1. /\ Open(c) /\ s \in Submissions
      /\ Staged(tx[c], state[s], fields[s], version[s])
      /\ timeline' = [timeline EXCEPT ![s] = Append(@, e)]
      /\ assignee' = Put(assignee, s, a, op, {"create", "assign", "run_assign"})
      /\ users' = users
    BY CommitFacts DEF EngineInv, Finish
<1>2. PICK u : NamedLast(timeline[s], u) /\ assignee[s] = Kept(u, users)
    BY <1>1 DEF EngineInv, RowsAssigned
<1> DEFINE w == IF Assigns(e) THEN e.assignee ELSE u
<1>3. NamedLast(Append(timeline[s], e), w)
    BY <1>1, <1>2, NamedAppend DEF ChainInv
<1>4. Nobody \notin users
    BY EngineAssumption DEF EngineAssumption, IInv, Typed
<1>5. assignee'[s] = Kept(w, users)
    <2>1. CASE op = "create" /\ StagedCreate(tx[c], version[s])
        <3>1. a = Nobody /\ ~Assigns(e)
            <4>1. PICK v : /\ tx[c].written =
                                [state |-> Log!InitialState(v), fields |-> Log!NoFields,
                                 assignee |-> Nobody, version |-> v]
                           /\ e = Log!CreatedEvent(v)
                BY <2>1 DEF StagedCreate
            <4>2. tx[c].written.assignee = Nobody
                BY <4>1
            <4>3. e.type = "created"
                BY <4>1, EventTypes
            <4>4. QED BY <4>2, <4>3 DEF Assigns
        <3>2. assignee'[s] = Nobody
            BY <1>1, <2>1, <3>1 DEF Put, EngineInv, RowsAssigned
        <3>3. timeline[s] = << >>
            <4>1. Chained(timeline[s], state[s], version[s])
                BY <1>1 DEF ChainInv
            <4>2. QED BY <2>1, <4>1 DEF Chained, StagedCreate
        <3>4. u = Nobody
            <4>1. \A i : i \notin 1..Len(<< >>)
                OBVIOUS
            <4>2. QED BY <1>2, <3>3, <4>1 DEF NamedLast
        <3>5. QED BY <1>4, <3>1, <3>2, <3>4 DEF Kept
    <2>2. CASE op = "transition" /\ StagedTransition(tx[c], state[s], fields[s], version[s])
        <3>1. ~Assigns(e)
            <4>1. PICK st, to, t, pt : e = Log!Event("transition", st, to, t, pt, Nobody)
                BY <2>2 DEF StagedTransition
            <4>2. e.type = "transition"
                BY <4>1, EventTypes
            <4>3. QED BY <4>2 DEF Assigns
        <3>2. assignee'[s] = assignee[s]
            BY <1>1, <2>2 DEF Put
        <3>3. QED BY <1>2, <3>1, <3>2
    <2>3. CASE op = "fields" /\ StagedFields(tx[c], fields[s], version[s])
        <3>1. ~Assigns(e)
            <4>1. PICK pt : e = Log!Event("fields_updated", "", "", "", pt, Nobody)
                BY <2>3 DEF StagedFields
            <4>2. Log!Event("fields_updated", "", "", "", pt, Nobody).type = "fields_updated"
                BY DEF Log!Event
            <4>3. e.type = "fields_updated"
                BY <4>1, <4>2, Zenon
            <4>4. QED BY <4>3 DEF Assigns
        <3>2. assignee'[s] = assignee[s]
            BY <1>1, <2>3 DEF Put
        <3>3. QED BY <1>2, <3>1, <3>2
    <2>4. CASE op \in {"assign", "run_assign"} /\ StagedAssign(tx[c], version[s])
        <3>1. Assigns(e) /\ e.assignee = a
            <4>1. e = Log!AssignedEvent(a)
                BY <2>4 DEF StagedAssign
            <4>2. e.type = "assigned" /\ e.assignee = a
                BY <4>1, EventTypes
            <4>3. QED BY <4>2 DEF Assigns
        <3>2. a \in users \cup {Nobody}
            BY <1>1, <2>4 DEF EngineInv, AssignsPresent
        <3>3. assignee'[s] = a
            BY <1>1, <2>4 DEF Put, EngineInv, RowsAssigned
        <3>4. QED BY <3>1, <3>2, <3>3 DEF Kept
    <2>5. QED BY <1>1, <2>1, <2>2, <2>3, <2>4 DEF Staged
<1> HIDE DEF w, s, e, a, op
<1>6. ASSUME NEW r \in Submissions
      PROVE  \E x : NamedLast(timeline'[r], x) /\ assignee'[r] = Kept(x, users)
    <2>1. CASE r = s
        <3>1. timeline'[r] = Append(timeline[s], e)
            BY <1>1, <2>1 DEF ChainInv
        <3>2. QED BY <1>3, <1>5, <2>1, <3>1
    <2>2. CASE r # s
        <3>1. timeline'[r] = timeline[r] /\ assignee'[r] = assignee[r]
            BY <1>1, <2>2 DEF ChainInv, Put
        <3>2. QED BY <3>1 DEF EngineInv, RowsAssigned
    <2>3. QED BY <2>1, <2>2
<1>7. assignee' \in [Submissions -> Users \cup {Nobody}]
    <2>1. users \subseteq Users
        BY DEF IInv, Typed
    <2>2. assignee'[s] \in Users \cup {Nobody}
        BY <1>5, <2>1 DEF Kept
    <2>3. assignee' = assignee \/ assignee' = [assignee EXCEPT ![s] = a]
        BY <1>1 DEF Put
    <2>4. assignee \in [Submissions -> Users \cup {Nobody}]
        BY DEF EngineInv, RowsAssigned
    <2>5. QED BY <1>1, <2>2, <2>3, <2>4
<1>8. QED BY <1>1, <1>6, <1>7 DEF RowsAssigned

LEMMA CommitRoom ==
    ASSUME IInv, ChainInv, EngineInv, NEW c \in Clients, Commit(c)
    PROVE  RoomLeft'
<1> DEFINE s == tx[c].sub
           e == tx[c].event
<1>1. /\ s \in Submissions /\ lock[s] = c
      /\ timeline' = [timeline EXCEPT ![s] = Append(@, e)]
      /\ lock' = [lock EXCEPT ![s] = NoClient]
    BY CommitFacts DEF EngineInv, Finish
<1> HIDE DEF s, e
<1>2. ASSUME NEW r \in Submissions
      PROVE  /\ Len(timeline'[r]) <= MaxEvents
             /\ lock'[r] # NoClient => Len(timeline'[r]) < MaxEvents
    <2>1. /\ Len(timeline[r]) <= MaxEvents
          /\ lock[r] # NoClient => Len(timeline[r]) < MaxEvents
        BY DEF EngineInv, RoomLeft
    <2>2. CASE r = s
        <3>1. Len(timeline'[r]) = Len(timeline[r]) + 1 /\ Len(timeline[r]) \in Nat
            BY <1>1, <2>2, AppendIsSeq DEF ChainInv
        <3>2. lock[r] # NoClient /\ lock'[r] = NoClient
            BY <1>1, <2>2, EngineAssumption DEF EngineAssumption, IInv, Typed
        <3>3. MaxEvents \in Nat
            BY EngineAssumption DEF EngineAssumption
        <3>4. QED BY <2>1, <3>1, <3>2, <3>3
    <2>3. CASE r # s
        BY <1>1, <2>1, <2>3 DEF ChainInv, IInv, Typed
    <2>4. QED BY <2>2, <2>3
<1>3. QED BY <1>2 DEF RoomLeft

LEMMA AbortKeepsEngine ==
    ASSUME IInv, ChainInv, EngineInv, NEW c \in Clients, Abort(c)
    PROVE  EngineInv'
<1>1. /\ Open(c) /\ Finish(c) /\ UNCHANGED <<timeline, assignee, users>>
      /\ lock' = [lock EXCEPT ![tx[c].sub] = NoClient]
    BY DEF Abort, Finish, tables, columns
<1>2. LocksHeld' /\ AssignsPresent'
    BY <1>1, FinishFrees DEF EngineInv
<1>3. RoomLeft'
    <2>1. \A r \in Submissions : lock'[r] = lock[r] \/ lock'[r] = NoClient
        BY <1>1 DEF IInv, Typed
    <2>2. QED BY <1>1, <2>1 DEF EngineInv, RoomLeft
<1>4. RowsAssigned'
    BY <1>1 DEF EngineInv, RowsAssigned
<1>5. QED BY <1>2, <1>3, <1>4 DEF EngineInv

LEMMA RemarkKeepsEngine ==
    ASSUME IInv, ChainInv, EngineInv, NEW s \in Submissions, Remark(s)
    PROVE  EngineInv'
<1>1. PICK type \in RemarkTypes : Log!Record(s, Log!RemarkEvent(type), {})
    BY DEF Remark
<1> DEFINE e == Log!RemarkEvent(type)
<1>2. ~Assigns(e)
    BY EngineAssumption DEF EngineAssumption, Log!RemarkEvent, Log!Event, Assigns
<1> HIDE DEF e
<1>3. /\ timeline' = [timeline EXCEPT ![s] = Append(@, e)]
      /\ UNCHANGED <<assignee, users, lock, tx>> /\ Room(s)
    BY <1>1 DEF Remark, Log!Record, columns, e
<1>4. ASSUME NEW r \in Submissions
      PROVE  \E x : NamedLast(timeline'[r], x) /\ assignee[r] = Kept(x, users)
    <2>1. PICK x : NamedLast(timeline[r], x) /\ assignee[r] = Kept(x, users)
        BY DEF EngineInv, RowsAssigned
    <2>2. CASE r = s
        <3>1. NamedLast(Append(timeline[r], e), x)
            BY <1>2, <2>1, NamedAppend DEF ChainInv
        <3>2. QED BY <1>3, <2>1, <2>2, <3>1 DEF ChainInv
    <2>3. CASE r # s
        BY <1>3, <2>1, <2>3 DEF ChainInv
    <2>4. QED BY <2>2, <2>3
<1>5. ASSUME NEW r \in Submissions
      PROVE  /\ Len(timeline'[r]) <= MaxEvents
             /\ lock[r] # NoClient => Len(timeline'[r]) < MaxEvents
    <2>1. CASE r = s
        <3>1. Len(timeline'[r]) = Len(timeline[r]) + 1 /\ Len(timeline[r]) \in Nat
            BY <1>3, <2>1, AppendIsSeq DEF ChainInv
        <3>2. /\ Len(timeline[r]) < MaxEvents
              /\ lock[r] # NoClient => Len(timeline[r]) + 1 < MaxEvents
            BY <1>3, <2>1, RoomMeans
        <3>3. MaxEvents \in Nat
            BY EngineAssumption DEF EngineAssumption
        <3>4. QED BY <3>1, <3>2, <3>3
    <2>2. CASE r # s
        BY <1>3, <2>2 DEF ChainInv, EngineInv, RoomLeft
    <2>3. QED BY <2>1, <2>2
<1>6. LocksHeld' /\ AssignsPresent'
    BY <1>3 DEF EngineInv, LocksHeld, AssignsPresent, Open
<1>7. QED BY <1>3, <1>4, <1>5, <1>6 DEF EngineInv, RowsAssigned, RoomLeft

(* The deletion of a user clears the rows that name the user, and waits    *)
(* for the transactions that are about to.                                 *)
LEMMA DeleteUserKeepsEngine ==
    ASSUME IInv, ChainInv, EngineInv, NEW u \in Users, DeleteUser(u)
    PROVE  EngineInv'
<1>1. /\ users' = users \ {u} /\ UNCHANGED <<timeline, lock, tx>> /\ u \in users
      /\ assignee' = [s \in Submissions |-> IF assignee[s] = u THEN Nobody ELSE assignee[s]]
      /\ \A c \in Clients : Open(c) =>
            tx[c].op \notin {"assign", "run_assign"} \/ tx[c].written.assignee # u
    BY DEF DeleteUser
<1>2. u # Nobody
    BY EngineAssumption DEF EngineAssumption
<1>3. ASSUME NEW s \in Submissions
      PROVE  \E x : NamedLast(timeline[s], x) /\ assignee'[s] = Kept(x, users')
    <2>1. PICK x : NamedLast(timeline[s], x) /\ assignee[s] = Kept(x, users)
        BY DEF EngineInv, RowsAssigned
    <2>2. assignee'[s] = Kept(x, users')
        BY <1>1, <1>2, <2>1 DEF Kept
    <2>3. QED BY <2>1, <2>2
<1>4. AssignsPresent'
    BY <1>1 DEF EngineInv, AssignsPresent, Open
<1>5. QED BY <1>1, <1>3, <1>4 DEF EngineInv, RowsAssigned, LocksHeld, RoomLeft, Open

LEMMA EngineStep == IInv /\ ChainInv /\ EngineInv /\ [Next]_vars => EngineInv'
<1> SUFFICES ASSUME IInv, ChainInv, EngineInv, [Next]_vars PROVE EngineInv'
    OBVIOUS
<1>1. ASSUME NEW c \in Clients, Commit(c) PROVE EngineInv'
    <2>1. RowsAssigned' /\ RoomLeft'
        BY <1>1, CommitAssigns, CommitRoom
    <2>2. LocksHeld' /\ AssignsPresent'
        BY <1>1, CommitFacts, FinishFrees DEF EngineInv
    <2>3. QED BY <2>1, <2>2 DEF EngineInv
<1>2. ASSUME UNCHANGED <<timeline, assignee, users, lock, tx>> PROVE EngineInv'
    BY <1>2 DEF EngineInv, RowsAssigned, AssignsPresent, LocksHeld, RoomLeft, Open
<1>3. CASE ReadHistory \/ Respond \/ Publish \/ \E s \in Submissions : ReadState(s)
    BY <1>2, <1>3 DEF ReadHistory, Respond, Publish, ReadState, tables, columns
<1>4. CASE UNCHANGED vars
    BY <1>2, <1>4 DEF vars, tables, columns
<1>5. QED
    BY <1>1, <1>3, <1>4, BeginKeepsEngine, AbortKeepsEngine, RemarkKeepsEngine,
       DeleteUserKeepsEngine DEF Next

LEMMA EngineInit == Init => EngineInv
<1> SUFFICES ASSUME Init PROVE EngineInv
    OBVIOUS
<1>1. \A s \in Submissions : timeline[s] = << >> /\ assignee[s] = Nobody /\ Free(s)
    BY DEF Init, Log!Init, Free
<1>2. Len(<< >>) = 0 /\ \A i : i \notin 1..0
    OBVIOUS
<1>3. NamedLast(<< >>, Nobody)
    BY <1>2 DEF NamedLast
<1>4. RowsAssigned
    BY <1>1, <1>3 DEF RowsAssigned, Kept, Init, Log!Init
<1>5. RoomLeft
    <2>1. MaxEvents \in Nat
        BY EngineAssumption DEF EngineAssumption
    <2>2. 0 <= MaxEvents
        BY <2>1
    <2>3. QED BY <1>1, <1>2, <2>2 DEF RoomLeft, Free
<1>6. AssignsPresent /\ LocksHeld
    BY DEF Init, AssignsPresent, LocksHeld, Open, NoTx
<1>7. QED BY <1>4, <1>5, <1>6 DEF EngineInv

LEMMA EngineHolds == Spec => [](IInv /\ ChainInv /\ RowInv /\ EngineInv)
BY ChainInit, ChainStep, RowInit, RowKept, EngineInit, EngineStep, InitHolds, NextHolds,
   StepIsLogStep, PTL DEF Spec

(* The assignee of a row is the last one named who still exists. *)
THEOREM AssigneesAreTold == Spec => []AssigneeMatchesTimeline
<1>1. ASSUME ChainInv, RowsAssigned, NEW s \in Submissions
      PROVE  LET assigned == {i \in DOMAIN timeline[s] : timeline[s][i].type = "assigned"}
                 last == IF assigned = {} THEN Nobody
                         ELSE timeline[s][CHOOSE i \in assigned :
                                             \A j \in assigned : j <= i].assignee
             IN  assignee[s] = IF last \in users THEN last ELSE Nobody
    <2> DEFINE q == timeline[s]
               assigned == {i \in DOMAIN q : q[i].type = "assigned"}
               latest == CHOOSE i \in assigned : \A j \in assigned : j <= i
               last == IF assigned = {} THEN Nobody ELSE q[latest].assignee
    <2>1. PICK u : NamedLast(q, u) /\ assignee[s] = Kept(u, users)
        BY <1>1 DEF RowsAssigned
    <2>2. Len(q) \in Nat /\ DOMAIN q = 1..Len(q)
        BY <1>1, AppendIsSeq DEF ChainInv
    <2>3. last = u
        <3>1. CASE u = Nobody /\ \A i \in 1..Len(q) : ~Assigns(q[i])
            BY <2>2, <3>1 DEF Assigns
        <3>2. ASSUME NEW i \in 1..Len(q), Assigns(q[i]), u = q[i].assignee,
                     \A j \in (i + 1)..Len(q) : ~Assigns(q[j])
              PROVE  last = u
            <4>1. i \in assigned /\ \A j \in assigned : j <= i
                BY <2>2, <3>2 DEF Assigns
            <4>2. latest \in assigned /\ \A j \in assigned : j <= latest
                BY <4>1
            <4>3. latest = i
                BY <2>2, <4>1, <4>2
            <4>4. QED BY <3>2, <4>1, <4>3
        <3>3. QED BY <2>1, <3>1, <3>2 DEF NamedLast
    <2>4. QED BY <2>1, <2>3 DEF Kept
<1>2. ChainInv /\ EngineInv => AssigneeMatchesTimeline
    BY <1>1 DEF AssigneeMatchesTimeline, EngineInv
<1>3. QED BY <1>2, EngineHolds, PTL

(* A row is well formed, its locks are those of open transactions, and it  *)
(* is what its timeline adds up to.                                        *)
THEOREM RowsMatchTimelines == Spec => []RowMatchesTimeline
<1>1. IInv /\ ChainInv /\ RowInv /\ EngineInv => TypeOK
    <2> SUFFICES ASSUME IInv, ChainInv, RowInv, EngineInv PROVE TypeOK
        OBVIOUS
    <2>1. version \in [Submissions -> Versions \cup {NoWorkflow, NotCreated}]
        BY DEF RowInv
    <2>2. assignee \in [Submissions -> Users \cup {Nobody}]
        BY DEF EngineInv, RowsAssigned
    <2>3. ASSUME NEW s \in Submissions
          PROVE  /\ DOMAIN fields[s] \subseteq
                        (IF HasWorkflow(s) THEN Definition(s).fields ELSE {})
                 /\ \A k \in DOMAIN fields[s] : fields[s][k] \in Values
                 /\ Len(timeline[s]) <= MaxEvents
        <3>1. RowSound(timeline[s], state[s], fields[s], version[s])
            BY DEF RowInv
        <3>2. Len(timeline[s]) <= MaxEvents
            BY DEF EngineInv, RoomLeft
        <3>3. QED
            BY <3>1, <3>2
            DEF RowSound, KeysOf, HasWorkflow, Definition, Log!HasWorkflow, Log!Definition
    <2>4. \A c \in Clients : Open(c) => lock[tx[c].sub] = c
        BY DEF IInv, Snapshot, StagedBy
    <2>5. \A s \in Submissions : lock[s] # NoClient => Open(lock[s])
        BY DEF EngineInv, LocksHeld
    <2>6. /\ users \subseteq Users /\ current \in Versions \cup {NoWorkflow}
          /\ lock \in [Submissions -> Clients \cup {NoClient}]
        BY DEF IInv, Typed
    <2>7. QED BY <2>1, <2>2, <2>3, <2>4, <2>5, <2>6 DEF TypeOK
<1>2. QED BY <1>1, EngineHolds, FieldsAreTold, AssigneesAreTold, PTL DEF RowMatchesTimeline

-----------------------------------------------------------------------------
(* public_status: the row it read first was reached by an event that its   *)
(* second statement still finds, whatever was committed in between.        *)

RowRead(s, x) ==
    /\ view = [step |-> "row", sub |-> s, state |-> x, history |-> {}]
    /\ x # "" /\ \E i \in DOMAIN timeline[s] : timeline[s][i].to = x

ViewInv ==
    \/ view = NoView
    \/ \E s \in Submissions : \E x : RowRead(s, x)
    \/ view.step = "done" /\ view.state \in view.history

(* An event that is there stays there. *)
LEMMA EventsStay ==
    ASSUME ChainInv, [Log!Next]_(Log!lvars), NEW s \in Submissions, NEW i \in DOMAIN timeline[s]
    PROVE  i \in DOMAIN timeline'[s] /\ timeline'[s][i] = timeline[s][i]
<1>1. CASE Log!Next
    <2>1. RowStep(timeline[s], state[s], version[s], timeline'[s], state'[s], version'[s])
        BY <1>1, LogRowStep
    <2>2. CASE timeline'[s] = timeline[s]
        BY <2>2
    <2>3. ASSUME NEW e, timeline'[s] = Append(timeline[s], e)
          PROVE  i \in DOMAIN timeline'[s] /\ timeline'[s][i] = timeline[s][i]
        <3>1. IsSeq(timeline[s])
            BY DEF ChainInv
        <3>2. QED BY <2>3, <3>1, AppendIsSeq
    <2>4. QED BY <2>1, <2>2, <2>3 DEF RowStep
<1>2. CASE UNCHANGED Log!lvars
    BY <1>2 DEF Log!lvars
<1>3. QED BY <1>1, <1>2

LEMMA ViewStep ==
    IInv /\ ChainInv /\ RowInv /\ ViewInv /\ [Next]_vars => ViewInv'
<1> SUFFICES ASSUME IInv, ChainInv, RowInv, ViewInv, [Next]_vars PROVE ViewInv'
    OBVIOUS
<1>1. [Log!Next]_(Log!lvars)
    BY StepIsLogStep
<1>2. CASE view' = view
    <2>1. ASSUME NEW s \in Submissions, NEW x, RowRead(s, x) PROVE RowRead(s, x)'
        <3>1. PICK i \in DOMAIN timeline[s] : timeline[s][i].to = x
            BY <2>1 DEF RowRead
        <3>2. i \in DOMAIN timeline'[s] /\ timeline'[s][i] = timeline[s][i]
            BY <1>1, EventsStay
        <3>3. QED BY <1>2, <2>1, <3>1, <3>2 DEF RowRead
    <2>2. QED BY <1>2, <2>1 DEF ViewInv
<1>3. ASSUME NEW s \in Submissions, ReadState(s) PROVE ViewInv'
    <2>1. /\ view' = [step |-> "row", sub |-> s, state |-> state[s], history |-> {}]
          /\ timeline' = timeline /\ state' = state /\ version[s] # NotCreated
        BY <1>3 DEF ReadState, tables, columns, Exists, Log!Exists
    <2>2. state[s] # ""
        BY <2>1 DEF RowInv, RowSound
    <2>3. Chained(timeline[s], state[s], version[s])
        BY DEF ChainInv
    <2>4. \E i \in DOMAIN timeline[s] : timeline[s][i].to = state[s]
        BY <2>1, <2>3 DEF Chained
    <2>5. RowRead(s, state[s])'
        BY <2>1, <2>2, <2>4 DEF RowRead
    <2>6. QED BY <2>5 DEF ViewInv
<1>4. CASE ReadHistory
    <2>1. /\ view.step = "row"
          /\ view' = [view EXCEPT !.history = {timeline[view.sub][i].to :
                                                 i \in DOMAIN timeline[view.sub]} \ {""},
                                  !.step = "done"]
        BY <1>4 DEF ReadHistory
    <2>2. PICK s \in Submissions : \E x : RowRead(s, x)
        BY <2>1 DEF ViewInv, NoView
    <2>3. PICK x : RowRead(s, x)
        BY <2>2
    <2>4. /\ view = [step |-> "row", sub |-> s, state |-> x, history |-> {}]
          /\ x # ""
        BY <2>3 DEF RowRead
    <2>5. PICK i \in DOMAIN timeline[s] : timeline[s][i].to = x
        BY <2>3 DEF RowRead
    <2>6. x \in {timeline[s][j].to : j \in DOMAIN timeline[s]} \ {""}
        BY <2>4, <2>5
    <2> DEFINE seen == {timeline[s][j].to : j \in DOMAIN timeline[s]} \ {""}
    <2> HIDE DEF seen
    <2>7. view' = [view EXCEPT !.history = seen, !.step = "done"]
        BY <2>1, <2>4 DEF seen
    <2>8. view'.step = "done" /\ view'.state = x /\ view'.history = seen
        BY <2>4, <2>7
    <2>9. x \in seen
        BY <2>6 DEF seen
    <2>10. QED BY <2>8, <2>9 DEF ViewInv
<1>5. CASE Respond
    BY <1>5 DEF Respond, ViewInv
<1>6. ASSUME ~ReadHistory, ~Respond, \A s \in Submissions : ~ReadState(s) PROVE view' = view
    <2>1. ASSUME NEW c \in Clients, NEW s \in Submissions,
                 BeginCreate(c, s) \/ BeginTransition(c, s) \/ BeginUpdateFields(c, s)
                    \/ BeginAssign(c, s) \/ BeginRunAssign(c, s)
          PROVE  view' = view
        BY <2>1 DEF BeginCreate, BeginTransition, BeginUpdateFields, BeginAssign,
                    BeginRunAssign, Stage
    <2>2. ASSUME NEW c \in Clients, Commit(c) \/ Abort(c) PROVE view' = view
        BY <2>2 DEF Commit, Abort, Finish
    <2>3. ASSUME NEW s \in Submissions, Remark(s) PROVE view' = view
        BY <2>3 DEF Remark
    <2>4. ASSUME NEW u \in Users, DeleteUser(u) PROVE view' = view
        BY <2>4 DEF DeleteUser
    <2>5. CASE Publish \/ UNCHANGED vars
        BY <2>5 DEF Publish, vars
    <2>6. QED BY <1>6, <2>1, <2>2, <2>3, <2>4, <2>5 DEF Next
<1>7. QED BY <1>2, <1>3, <1>4, <1>5, <1>6

(* The state a respondent sees is one the history seen with it reached. *)
THEOREM StatusIsConsistent == Spec => []StatusConsistent
<1>1. Init => ViewInv
    BY DEF Init, ViewInv
<1>2. ViewInv => StatusConsistent
    <2>1. NoView.step # "done"
        BY DEF NoView
    <2>2. ASSUME NEW s, NEW x, RowRead(s, x) PROVE view.step = "row"
        BY <2>2 DEF RowRead
    <2>3. QED BY <2>1, <2>2 DEF ViewInv, StatusConsistent
<1>3. QED
    BY <1>1, <1>2, ViewStep, ChainInit, ChainStep, RowInit, RowKept, InitHolds, NextHolds,
       StepIsLogStep, PTL DEF Spec

(* A timeline is a path that the workflow allows, to the state of the row. *)
THEOREM TimelinesAreLegal == Spec => []TimelineLegal
BY TimelinesChain, TransitionsAreLegal, PTL DEF TimelineLegal

(* What a caller expected holds when its transition commits, and what a    *)
(* respondent sees fits together.                                          *)
THEOREM ShownIsSo == Spec => []ShownHolds
BY ExpectationsHold, StatusIsConsistent, PTL DEF ShownHolds
=============================================================================
