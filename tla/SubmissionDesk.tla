--------------------------- MODULE SubmissionDesk ---------------------------
(* The server as the pages see it: submissions that the engine moves and   *)
(* edits one commit at a time (SubmissionLog is what it promises), what it *)
(* answers to who may see a submission, and the people elsewhere who work  *)
(* on the same submissions.                                                *)
EXTENDS WorkflowRules, Integers, FiniteSets, SequencesExt

CONSTANTS
    Workflow,       \* the pinned version
    Terminal,       \* its final states
    Submissions,
    OtherRoles,     \* of the others
    MaxOthers       \* what they do, in all

Blank == ""

StateNames == {Workflow.states[i] : i \in DOMAIN Workflow.states}

(* A definition's states have keys of their own, its transitions lead to   *)
(* them, and its names are not those the pages give to no state at all.    *)
ASSUME DeskAssumption ==
    /\ Workflow.states \in Seq(StateNames) /\ IsInjective(Workflow.states)
    /\ Workflow.initial \in StateNames
    /\ StateNames \cap {Blank, "none", "unread", "not_found"} = {}
    /\ \A t \in DOMAIN Workflow.transitions :
        t # Blank /\ Workflow.transitions[t].to \in StateNames

VARIABLES
    desk,      \* submission -> state, workflow fields, states so far, updatedAt
    othersDid

deskVars == <<desk, othersDid>>

DeskInit ==
    /\ desk = [s \in Submissions |->
                  [state |-> Workflow.initial, fields |-> << >>,
                   history |-> <<Workflow.initial>>, updatedAt |-> 1]]
    /\ othersDid = 0

With(f, key, value) == [k \in DOMAIN f \cup {key} |-> IF k = key THEN value ELSE f[k]]

(* What a transition and an edit make of a submission. *)
Moved(d, t, patch) ==
    LET to == Workflow.transitions[t].to
    IN  [state |-> to, fields |-> merged(d.fields, patch),
         history |-> Append(d.history, to), updatedAt |-> d.updatedAt + 1]

Edited(d, patch) ==
    IF ChangedKeys(d.fields, patch) = {} THEN d
    ELSE [d EXCEPT !.fields = merged(d.fields, patch), !.updatedAt = @ + 1]

(* Engine.available: the transitions from a state, and if a role may. *)
available(state, roles) ==
    [t \in {t \in DOMAIN Workflow.transitions : state \in Workflow.transitions[t].from} |->
        has_any_role(roles, Workflow.transitions[t].roles)]

(* GET /submissions/{id} *)
Detail(s, roles) ==
    [state |-> desk[s].state, fields |-> desk[s].fields, updatedAt |-> desk[s].updatedAt,
     transitions |-> available(desk[s].state, roles)]

Patches == UNION {[K -> Values] : K \in SUBSET Workflow.fields}

OtherMoves ==
    \E s \in Submissions, t \in DOMAIN Workflow.transitions :
        \E patch \in [Workflow.transitions[t].requireFields -> Values] :
            /\ Refusal(Workflow, desk[s].state, desk[s].fields, OtherRoles, t, patch, Blank) = "ok"
            /\ desk' = [desk EXCEPT ![s] = Moved(@, t, patch)]

OtherEdits ==
    \E s \in Submissions, k \in Workflow.fields, v \in Values :
        /\ desk' = [desk EXCEPT ![s] = Edited(@, [x \in {k} |-> v])]
        /\ desk' # desk

OthersAct ==
    /\ othersDid < MaxOthers
    /\ othersDid' = othersDid + 1
    /\ OtherMoves \/ OtherEdits
=============================================================================
