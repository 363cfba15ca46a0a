---------------------------- MODULE WorkflowEditor --------------------------
(* workflowReducer.ts: the state of the workflow editor and what each      *)
(* action makes of it.  An editor is [def, sel, dirty]; sel is Settings or *)
(* the place of a state, a transition or a field.  The sources of a        *)
(* transition and the fields its guard requires are sets: the reducer      *)
(* drops duplicates, and orders sources like the states.                   *)
EXTENDS FormEditor, Filters

State(k, terminal) == [key |-> k, label |-> "fine", terminal |-> terminal]
Transition(k, from, to) ==
    [key |-> k, label |-> "fine", from |-> from, to |-> to, roles |-> "fine", needs |-> {}, actions |-> << >>]
WorkflowField(k, type, options) == [key |-> k, label |-> "fine", type |-> type, options |-> options]

(* "new" is 1 and "done" is 2. *)
newWorkflowDefinition ==
    [slug |-> "", title |-> "fine", initial |-> 1, states |-> <<State(1, FALSE), State(2, TRUE)>>,
     transitions |-> <<Transition(1, {1}, 2)>>, fields |-> << >>, onSubmit |-> << >>]

ActionTypes == {"webhook", "email", "assign"}

(* An address to post to without a host, a mail to nobody, no one to assign *)
(* to: neither side takes a new action as it is.                           *)
newAction(type) == [type |-> type, refusedBy |-> Sides]

(* normalizeWorkflow *)
States         == [key : Nat, label : Labels, terminal : BOOLEAN]
Actions        == [type : ActionTypes, refusedBy : SUBSET Sides]
Transitions    == [key : Nat, label : Labels, from : SUBSET Nat, to : Nat,
                   roles : Labels, needs : SUBSET Nat, actions : Seq(Actions)]
WorkflowFields == [key : Nat, label : Labels, type : FieldTypes, options : OptionLists]
IsWorkflow(def) ==
    /\ def = [slug |-> def.slug, title |-> def.title, initial |-> def.initial, states |-> def.states,
              transitions |-> def.transitions, fields |-> def.fields, onSubmit |-> def.onSubmit]
    /\ def.title \in Labels /\ def.initial \in Nat /\ def.states \in Seq(States) /\ def.transitions \in Seq(Transitions)
    /\ def.fields \in Seq(WorkflowFields) /\ def.onSubmit \in Seq(Actions)

ListAt(def, where) ==
    CASE where = "states" -> def.states [] where = "transitions" -> def.transitions
      [] where = "fields" -> def.fields [] OTHER -> << >>

validSelection(def, sel) == IF sel.i <= Len(ListAt(def, sel.at)) THEN sel ELSE Settings

Change(e, def, sel) == [def |-> def, sel |-> sel, dirty |-> TRUE]

Swap(k, old, new) == IF k = old THEN new ELSE k
SwapAll(S, old, new) == {Swap(k, old, new) : k \in S}
MapTransitions(def, F(_)) == [i \in DOMAIN def.transitions |-> F(def.transitions[i])]
FirstKey(list) == IF list = << >> THEN 0 ELSE list[1].key

setSlug(e, slug) == Change(e, [e.def EXCEPT !.slug = slug], e.sel)
setTitle(e, title) == Change(e, [e.def EXCEPT !.title = title], e.sel)
setInitial(e, k) == Change(e, [e.def EXCEPT !.initial = k], e.sel)

-----------------------------------------------------------------------------
(* States *)

addState(e) ==
    LET k == Fresh(KeysOf(e.def.states))
        states == Append(e.def.states, State(k, FALSE))
        initial == IF e.def.initial \in KeysOf(e.def.states) THEN e.def.initial ELSE k
    IN  Change(e, [e.def EXCEPT !.states = states, !.initial = initial], Place("states", Len(states)))

(* Transitions that leave a state made terminal stay. *)
updateState(e, i, s) == Change(e, [e.def EXCEPT !.states[i] = s], e.sel)

renameState(e, i, k) ==
    LET old == e.def.states[i].key
        def == [e.def EXCEPT !.states[i].key = k]
        F(t) == [t EXCEPT !.from = SwapAll(t.from, old, k), !.to = Swap(t.to, old, k)]
    IN  Change(e, IF ~Follows(e.def.states, old) THEN def
                  ELSE [def EXCEPT !.initial = Swap(def.initial, old, k),
                                   !.transitions = MapTransitions(def, F)], e.sel)

Freed(transitions, k) == [i \in DOMAIN transitions |-> [transitions[i] EXCEPT !.from = @ \ {k}]]

(* Mutant: transitions into a removed state stay. *)
WithoutSource(transitions, k) ==
    LET freed == Freed(transitions, k)
    IN  Kept(freed, {t \in Range(freed) : t.from # {}})

WithoutState(transitions, k) ==
    LET freed == Freed(transitions, k)
    IN  Kept(freed, {t \in Range(freed) : t.to # k /\ t.from # {}})

removeState(e, i) ==
    LET k == e.def.states[i].key
        states == RemoveAt(e.def.states, i)
        def == [e.def EXCEPT !.states = states]
    IN  Change(e, IF Count(states, k) > 0 THEN def
                  ELSE [def EXCEPT !.transitions = WithoutState(def.transitions, k),
                                   !.initial = Swap(def.initial, k, FirstKey(states))], Settings)

-----------------------------------------------------------------------------
(* Transitions *)

addTransition(e) ==
    LET states == e.def.states
        source == IF e.def.initial \in KeysOf(states) THEN e.def.initial ELSE FirstKey(states)
        others == {i \in DOMAIN states : states[i].key # source}
        to == IF others = {} THEN source
              ELSE states[CHOOSE i \in others : \A j \in others : i <= j].key
        t == Transition(Fresh(KeysOf(e.def.transitions)), {source} \ {0}, to)
        transitions == Append(e.def.transitions, t)
    IN  Change(e, [e.def EXCEPT !.transitions = transitions], Place("transitions", Len(transitions)))

(* updateTransition and setGuard *)
updateTransition(e, i, t) == Change(e, [e.def EXCEPT !.transitions[i] = t], e.sel)

removeTransition(e, i) ==
    Change(e, [e.def EXCEPT !.transitions = RemoveAt(e.def.transitions, i)], Settings)

-----------------------------------------------------------------------------
(* Fields reviewers fill in *)

addField(e) ==
    LET fields == Append(e.def.fields, WorkflowField(Fresh(KeysOf(e.def.fields)), "text", "none"))
    IN  Change(e, [e.def EXCEPT !.fields = fields], Place("fields", Len(fields)))

(* Whatever is changed, a choice has options and nothing else has. *)
FittingOptions(f) == IF f.type # "choice" THEN "none" ELSE IF f.options \in Filled THEN f.options ELSE "some"
updateField(e, i, f) ==
    Change(e, [e.def EXCEPT !.fields[i] = [f EXCEPT !.options = FittingOptions(f)]], e.sel)

(* A guard whose requirements change also loses its blank roles. *)
withRequireFields(t, k, needs) == IF k \in t.needs THEN [t EXCEPT !.needs = needs, !.roles = "fine"] ELSE t

renameField(e, i, k) ==
    LET old == e.def.fields[i].key
        def == [e.def EXCEPT !.fields[i].key = k]
        F(t) == withRequireFields(t, old, SwapAll(t.needs, old, k))
    IN  Change(e, IF ~Follows(e.def.fields, old) THEN def
                  ELSE [def EXCEPT !.transitions = MapTransitions(def, F)], e.sel)

removeField(e, i) ==
    LET k == e.def.fields[i].key
        fields == RemoveAt(e.def.fields, i)
        def == [e.def EXCEPT !.fields = fields]
        F(t) == withRequireFields(t, k, t.needs \ {k})
    IN  Change(e, IF Count(fields, k) > 0 THEN def
                  ELSE [def EXCEPT !.transitions = MapTransitions(def, F)], Settings)

-----------------------------------------------------------------------------
(* Actions of a transition, or of the workflow when sel is Settings *)

getActions(e) == IF e.sel = Settings THEN e.def.onSubmit ELSE e.def.transitions[e.sel.i].actions

setActions(e, actions) ==
    Change(e, IF e.sel = Settings THEN [e.def EXCEPT !.onSubmit = actions]
              ELSE [e.def EXCEPT !.transitions[e.sel.i].actions = actions], e.sel)

addAction(e, type) == setActions(e, Append(getActions(e), newAction(type)))
updateAction(e, j, sides) == setActions(e, [getActions(e) EXCEPT ![j].refusedBy = sides])
removeAction(e, j) == setActions(e, RemoveAt(getActions(e), j))

workflowSelect(e, place) == [e EXCEPT !.sel = validSelection(e.def, place)]
workflowReplace(e, def) == Change(e, def, validSelection(def, e.sel))

-----------------------------------------------------------------------------
(* What TransitionInspector offers: a label, a key, roles, of the states   *)
(* those there are, and only to drop a terminal source.  The guard is      *)
(* normalised with its roles and required fields.                          *)
TransitionPatches(def, i, labels, keys) ==
    LET t == def.transitions[i]
        sources == {k \in KeysOf(def.states) : k \in t.from \/ k \notin Terminal(def)}
        Toggled(S, k) == IF k \in S THEN S \ {k} ELSE S \cup {k}
    IN  {[t EXCEPT !.label = l] : l \in labels} \cup {[t EXCEPT !.key = k] : k \in keys}
        \cup {[t EXCEPT !.from = Toggled(t.from, k)] : k \in sources}
        \cup {[t EXCEPT !.to = k] : k \in KeysOf(def.states)}
        \cup {[t EXCEPT !.roles = "fine"]}
        \cup {[t EXCEPT !.needs = Toggled(t.needs, k), !.roles = "fine"] : k \in KeysOf(def.fields)}

(* StateInspector and WorkflowFieldInspector *)
StatePatches(s, labels) ==
    {[s EXCEPT !.label = l] : l \in labels} \cup {[s EXCEPT !.terminal = b] : b \in BOOLEAN}

WorkflowFieldPatches(f, labels) ==
    {[f EXCEPT !.label = l] : l \in labels} \cup {[f EXCEPT !.type = type] : type \in FieldTypes}
    \cup {[f EXCEPT !.options = o] : o \in OptionsOffered(f)}

-----------------------------------------------------------------------------
(* The diagram, by position: which state leads where, needing which fields. *)
Positions(list, k) == {i \in DOMAIN list : list[i].key = k}
At(list, keys) == UNION {Positions(list, k) : k \in keys}

Edges(def) ==
    {[from |-> At(def.states, t.from), to |-> Positions(def.states, t.to),
      needs |-> At(def.fields, t.needs)] : t \in {def.transitions[i] : i \in DOMAIN def.transitions}}

=============================================================================
