--------------------------- MODULE WorkflowRules ---------------------------
(***************************************************************************)
(* The rules of a workflow definition, as the engine applies them to one   *)
(* submission (server/workflow/engine.py, definition/types.py,             *)
(* definition/workflow_fields.py): no state, operators only.               *)
(*                                                                         *)
(* A workflow version is a record                                          *)
(*   [initial, transitions, fields, onSubmit]                              *)
(* where transitions is a function from transition keys to                 *)
(*   [from, to, roles, requireFields, actions]                             *)
(* and fields is the set of the workflow's field keys.  A submission's     *)
(* workflow fields are a function from the keys that are set to values.  A *)
(* patch is a function from keys to a value, to Unset (null, or a blank    *)
(* string) or to Invalid (a value the field's type refuses).               *)
(***************************************************************************)
CONSTANTS
    Values,        \* values of workflow fields, up to json_equal
    EmptyValues,   \* the values that count as not provided: FALSE, an empty list
    Unset,         \* null or a blank string in a patch
    Invalid        \* a value that fails the type check of its field

ASSUME RulesAssumption ==
    /\ EmptyValues \subseteq Values
    /\ Unset \notin Values
    /\ Invalid \notin Values
    /\ Unset # Invalid

Admin == "admin"

(* Principal.has_any_role: no roles asked for, admin, or a common role. *)
has_any_role(roles, wanted) ==
    wanted = {} \/ Admin \in roles \/ roles \cap wanted # {}

(* Whether a required field has no value: unset, or set to an empty one. *)
is_empty(fields, k) == k \notin DOMAIN fields \/ fields[k] \in EmptyValues

-----------------------------------------------------------------------------
(* merge_fields. *)

(* A patch with an unknown key or an invalid value is refused as a whole. *)
PatchValid(wf, patch) ==
    /\ DOMAIN patch \subseteq wf.fields
    /\ \A k \in DOMAIN patch : patch[k] # Invalid

SetKeys(patch)   == {k \in DOMAIN patch : patch[k] # Unset}
UnsetKeys(patch) == {k \in DOMAIN patch : patch[k] = Unset}

merged(current, patch) ==
    [k \in (DOMAIN current \ UnsetKeys(patch)) \cup SetKeys(patch) |->
        IF k \in SetKeys(patch) THEN patch[k] ELSE current[k]]

(* Mutant: a key that the patch unsets is not recorded. *)
ChangedKeysSetOnly(current, patch) ==
    {k \in SetKeys(patch) : k \notin DOMAIN current \/ current[k] # patch[k]}

(* The keys the patch really changes: what the event records. *)
ChangedKeys(current, patch) ==
    {k \in DOMAIN patch :
        IF patch[k] = Unset THEN k \in DOMAIN current
        ELSE k \notin DOMAIN current \/ current[k] # patch[k]}

changed(current, patch) == [k \in ChangedKeys(current, patch) |-> patch[k]]

-----------------------------------------------------------------------------
(* transition: the refusals, in the order the engine raises them. *)

(* Mutant: the required fields are looked up before the patch is applied. *)
MissingBeforeMerge(required, fields, patch) ==
    {k \in required : is_empty(fields, k) /\ k \notin DOMAIN patch}

Missing(required, fields, patch) ==
    {k \in required : is_empty(merged(fields, patch), k)}

Refusal(wf, state, fields, roles, t, patch, expected) ==
    LET tr == wf.transitions[t]
    IN  IF t \notin DOMAIN wf.transitions THEN "unknown_transition"
        ELSE IF expected \notin {"", state} THEN "state_conflict"
        ELSE IF state \notin tr.from THEN "invalid_state"
        ELSE IF ~has_any_role(roles, tr.roles) THEN "forbidden"
        ELSE IF ~PatchValid(wf, patch) THEN "validation_failed"
        ELSE IF Missing(tr.requireFields, fields, patch) # {} THEN "validation_failed"
        ELSE "ok"
=============================================================================
