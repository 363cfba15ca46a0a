------------------------------ MODULE EditorRules ---------------------------
(* Definitions as the admin editors hold them, the problems the editors    *)
(* list (admin/src/editors/shared/validation.ts) and the problems the      *)
(* server answers with (openforms/definition/parse.py and validate_*.py).  *)
(* Both ask the same JSON schema first (schemas/*.schema.json).  The       *)
(* editors add their own rules to what it finds; the server stops there,   *)
(* and asks its own rules only when the schema is satisfied.               *)
(*                                                                         *)
(* A key is a number; 0 is the empty text, which is no key.  Other texts   *)
(* are told apart as far as one of the rules does.  Lengths, colours and   *)
(* unknown properties, which only the schema judges, the order of two      *)
(* bounds and wording are left out.  A problem is the place its path       *)
(* starts with.                                                            *)
EXTENDS Naturals, Sequences, FiniteSets

CONSTANTS GoodSlugs    \* slugs that match SLUG_RE; any other text is bad

KeysOf(list) == {list[i].key : i \in DOMAIN list}
Count(list, k) == Cardinality({i \in DOMAIN list : list[i].key = k})

(* KEY_RE, and the first holder of a key keeps it. *)
BadKey(list, i) == list[i].key = 0 \/ \E j \in 1 .. i - 1 : list[j].key = list[i].key

Place(where, i) == [at |-> where, i |-> i]
Settings == Place("settings", 0)
Places(where, list, Bad(_)) == {Place(where, i) : i \in {j \in DOMAIN list : Bad(j)}}
When(bad) == IF bad THEN {Settings} ELSE {}

(* A title, label or role: a text, only whitespace, or "" (or absent). *)
Labels == {"fine", "blank", "empty"}

FieldTypes == {"text", "choice", "number", "checkbox"}

(* The property is absent, the list is empty, or it has options: one with  *)
(* an empty value or label ("unnamed"), or two with the same value         *)
(* ("double"), or a value with a space at its end or a blank label         *)
(* ("padded"), or none of these.                                           *)
OptionLists == {"none", "empty", "some", "double", "padded", "unnamed"}
Filled == {"some", "double", "padded", "unnamed"}

(* Bounds on the length of a text and on a number, and a pattern: absent,  *)
(* or one that compiles in both of JavaScript's RegExp and RE2, in one of  *)
(* them ((?i)abc is RE2's, a lookahead is JavaScript's) or in neither.     *)
Limits == {"length", "range"}
Patterns == {"none", "shared", "re2", "js", "neither"}

(* showIf: the operator is "is" (equals or notEquals), "in" (a list of     *)
(* values), "inNothing" (an empty list), "null" (one, and its value is     *)
(* null), "nullAnd" (a proper one next to one that is null) or "broken"    *)
(* (none, or several that are not null).                                   *)
NoCondition == [field |-> 0, op |-> "no"]
Operators == {"is", "in", "inNothing", "null", "nullAnd", "broken"}

(* normalizeForm: whatever is opened or pasted has these properties.       *)
FormFields ==
    [key : Nat, label : Labels, type : FieldTypes, options : OptionLists, limits : SUBSET Limits,
     pattern : Patterns, showIf : {NoCondition} \cup [field : Nat, op : Operators]]
IsForm(def) ==
    /\ def = [slug |-> def.slug, title |-> def.title, fields |-> def.fields]
    /\ def.title \in Labels /\ def.fields \in Seq(FormFields)

FormField(k, t, o) ==
    [key |-> k, label |-> "fine", type |-> t, options |-> o, limits |-> {}, pattern |-> "none",
     showIf |-> NoCondition]

(* Who finds fault with what an action does: see actionProblems.           *)
Sides == {"editor", "server"}
RefusedBy(actions, side) == \E i \in DOMAIN actions : side \in actions[i].refusedBy

-----------------------------------------------------------------------------
(* The schema *)

formSchemaProblems(def) ==
    LET Bad(i) == LET f == def.fields[i] IN
            \/ f.key = 0
            \/ f.label = "empty"
            \/ f.options = "unnamed"
            \/ f.showIf.op # "no" /\ f.showIf.field = 0
    IN  When(def.slug \notin GoodSlugs \/ def.title = "empty" \/ def.fields = << >>)
        \cup Places("fields", def.fields, Bad)

workflowSchemaProblems(def) ==
    LET BadState(i) == def.states[i].key = 0 \/ def.states[i].label = "empty"
        BadField(i) == LET f == def.fields[i] IN
            f.key = 0 \/ f.label = "empty" \/ f.options = "unnamed"
        BadStep(i) == LET t == def.transitions[i] IN
            \/ t.key = 0 \/ t.label = "empty" \/ t.roles = "empty"
            \/ t.from = {} \/ 0 \in t.from \cup {t.to} \cup t.needs
    IN  When(def.slug \notin GoodSlugs \/ def.title = "empty" \/ def.initial = 0 \/ def.states = << >>)
        \cup Places("states", def.states, BadState)
        \cup Places("fields", def.fields, BadField)
        \cup Places("transitions", def.transitions, BadStep)

-----------------------------------------------------------------------------
(* The editors' own validation *)

MisplacedLimits(f) ==
    \/ ("length" \in f.limits \/ f.pattern # "none") /\ f.type # "text"
    \/ "range" \in f.limits /\ f.type # "number"

BadOptions(f) ==
    IF f.type = "choice" THEN f.options \in {"none", "empty", "double"} ELSE f.options \in Filled

(* Mutant: a condition may refer to the field itself. *)
EarlierOrItself(fields, i) == {fields[j].key : j \in 1 .. i}

Earlier(fields, i) == {fields[j].key : j \in 1 .. i - 1}

BadCondition(fields, i) ==
    LET c == fields[i].showIf
    IN  c.op # "no" /\ (c.field \notin Earlier(fields, i) \/ c.op \in {"nullAnd", "broken"})

formSemanticProblems(def) ==
    LET Bad(i) == \/ BadKey(def.fields, i)
                  \/ BadOptions(def.fields[i])
                  \/ MisplacedLimits(def.fields[i])
                  \/ def.fields[i].pattern \in {"re2", "neither"}
                  \/ BadCondition(def.fields, i)
    IN  When(def.slug \notin GoodSlugs) \cup Places("fields", def.fields, Bad)

validateForm(def) == formSchemaProblems(def) \cup formSemanticProblems(def)

Terminal(def) == {def.states[i].key : i \in {j \in DOMAIN def.states : def.states[j].terminal}}

BadTransition(def, t) ==
    \/ t.from = {}
    \/ ~(t.from \cup {t.to} \subseteq KeysOf(def.states) \ {0})
    \/ t.from \cap Terminal(def) # {}
    \/ ~(t.needs \subseteq KeysOf(def.fields) \ {0})
    \/ RefusedBy(t.actions, "editor")

workflowSemanticProblems(def) ==
    LET BadState(i) == BadKey(def.states, i)
        BadField(i) == \/ BadKey(def.fields, i)
                       \/ def.fields[i].type = "choice" /\ def.fields[i].options \in {"none", "empty"}
        BadStep(i) == BadKey(def.transitions, i) \/ BadTransition(def, def.transitions[i])
    IN  When(\/ def.slug \notin GoodSlugs
             \/ def.initial \notin KeysOf(def.states) \ {0}
             \/ RefusedBy(def.onSubmit, "editor"))
        \cup Places("states", def.states, BadState)
        \cup Places("fields", def.fields, BadField)
        \cup Places("transitions", def.transitions, BadStep)

validateWorkflow(def) == workflowSchemaProblems(def) \cup workflowSemanticProblems(def)

-----------------------------------------------------------------------------
(* The server's validation *)

(* The field that "seen" knows a key by: the first that has it. *)
seen(list, k) == {i \in DOMAIN list : list[i].key = k /\ ~BadKey(list, i)}

validate_options(f) ==
    IF f.type = "choice" THEN f.options = "some" ELSE f.options \in {"none", "empty"}

validate_condition(fields, i) ==
    LET c == fields[i].showIf
    IN  c.op # "no" => /\ \E j \in seen(fields, c.field) : j < i
                       /\ c.op \in {"is", "in", "nullAnd"}

Blank(label) == label \in {"blank", "empty"}

validate_form(def) ==
    LET Bad(i) == \/ BadKey(def.fields, i)
                  \/ Blank(def.fields[i].label)
                  \/ ~validate_options(def.fields[i])
                  \/ MisplacedLimits(def.fields[i])
                  \/ def.fields[i].pattern \in {"js", "neither"}
                  \/ ~validate_condition(def.fields, i)
    IN  When(def.slug \notin GoodSlugs \/ Blank(def.title) \/ def.fields = << >>)
        \cup Places("fields", def.fields, Bad)

parse_form(def) ==
    IF formSchemaProblems(def) # {} THEN formSchemaProblems(def) ELSE validate_form(def)

validate_transition(def, t) ==
    /\ ~Blank(t.label) /\ ~Blank(t.roles)
    /\ t.from # {}
    /\ \A k \in t.from : \E i \in seen(def.states, k) : ~def.states[i].terminal
    /\ seen(def.states, t.to) # {}
    /\ \A k \in t.needs : seen(def.fields, k) # {}
    /\ ~RefusedBy(t.actions, "server")

validate_workflow(def) ==
    LET BadState(i) == BadKey(def.states, i) \/ Blank(def.states[i].label)
        BadField(i) == \/ BadKey(def.fields, i)
                       \/ Blank(def.fields[i].label)
                       \/ ~validate_options(def.fields[i])
        BadStep(i) == BadKey(def.transitions, i) \/ ~validate_transition(def, def.transitions[i])
    IN  When(\/ def.slug \notin GoodSlugs \/ Blank(def.title)
             \/ def.states = << >> \/ seen(def.states, def.initial) = {}
             \/ RefusedBy(def.onSubmit, "server"))
        \cup Places("states", def.states, BadState)
        \cup Places("fields", def.fields, BadField)
        \cup Places("transitions", def.transitions, BadStep)

parse_workflow(def) ==
    IF workflowSchemaProblems(def) # {} THEN workflowSchemaProblems(def) ELSE validate_workflow(def)

=============================================================================
