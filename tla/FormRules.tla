------------------------------ MODULE FormRules -----------------------------
(* What a form shows, accepts and sends (web/packages/sdk/src/logic.ts), and *)
(* what its inputs can produce (web/packages/react/src/fields.tsx).        *)
(*                                                                         *)
(* A JSON value is a tuple of its type and its content.  A string is known *)
(* by its trimmed text and whether it has blanks around it; what matters   *)
(* of a text (length, formats, patterns) is in Text.  Optional members of  *)
(* a field, a validation or a condition are absent from its record.        *)
EXTENDS Filters, Integers, SequencesExt

CONSTANT Text   \* text -> [length, formats, patterns]

Blank == ""

ASSUME TextAssumption ==
    /\ Blank \in DOMAIN Text
    /\ \A s \in DOMAIN Text : Text[s].length \in Nat

None       == <<"none">>              \* undefined or null
Str(s)     == <<"string", s, FALSE>>
Padded(s)  == <<"string", s, TRUE>>
Num(n)     == <<"number", n>>
Bool(b)    == <<"boolean", b>>
List(seq)  == <<"array", seq>>        \* of texts

IsValue(v) ==
    \/ v = None
    \/ \E s \in DOMAIN Text : v \in {Str(s), Padded(s)}
    \/ v \in {Bool(TRUE), Bool(FALSE)}
    \/ v[1] = "number" /\ v = Num(v[2]) /\ v[2] \in Int
    \/ v[1] = "array" /\ v = List(v[2]) /\ v[2] \in Seq(DOMAIN Text)

Has(r, member) == member \in DOMAIN r

(* ------------------------------ Conditions ---------------------------- *)

(* A value matches a target; one of a multiselect's choices is enough. *)
Matches(controller, value, target) ==
    IF controller.type = "multiselect" /\ value[1] = "array"
    THEN \E i \in DOMAIN value[2] : Str(value[2][i]) = target
    ELSE value = target

(* Mutant: an absent value satisfies no condition. *)
conditionHoldsPresent(cond, controller, value, provided) ==
    LET matches(target) == Matches(controller, value, target)
    IN  /\ provided
        /\ IF Has(cond, "equals") THEN matches(cond.equals)
           ELSE IF Has(cond, "notEquals") THEN ~matches(cond.notEquals)
           ELSE Has(cond, "in") => \E t \in cond.in : matches(t)

conditionHolds(cond, controller, value, provided) ==
    LET matches(target) == provided /\ Matches(controller, value, target)
    IN  IF Has(cond, "equals") THEN matches(cond.equals)
        ELSE IF Has(cond, "notEquals") THEN ~matches(cond.notEquals)
        ELSE Has(cond, "in") => \E t \in cond.in : matches(t)

(* -------------------------------- Values ------------------------------- *)

NoError  == "none"
Absent   == [provided |-> FALSE, value |-> None, error |-> NoError]
Wrong(e) == [provided |-> FALSE, value |-> None, error |-> e]
Good(v)  == [provided |-> TRUE, value |-> v, error |-> NoError]

(* The first check that fails, of a sequence of <<fails, error>>. *)
FirstFailing(checks, value) ==
    LET failing == {i \in DOMAIN checks : checks[i][1]}
    IN  IF failing = {} THEN Good(value)
        ELSE Wrong(checks[CHOOSE i \in failing : \A j \in failing : i <= j][2])

OptionsOf(field) == IF Has(field, "options") THEN ToSet(field.options) ELSE {}
Limits(field)    == IF Has(field, "validation") THEN field.validation ELSE << >>

CheckNumber(v, raw) ==
    IF raw[1] # "number" THEN Wrong("number")
    ELSE FirstFailing(<< <<Has(v, "min") /\ raw[2] < v["min"], "min">>,
                         <<Has(v, "max") /\ raw[2] > v["max"], "max">> >>, raw)

CheckChoices(options, raw) ==
    IF raw[1] # "array" THEN Wrong("choice")
    ELSE IF raw[2] = << >> THEN Absent
    ELSE FirstFailing(<< <<~(ToSet(raw[2]) \subseteq options), "choice">>,
                         <<~IsInjective(raw[2]), "duplicate">> >>, raw)

(* What isDate, isHttpUrl and the pattern for e-mail find of a text. *)
HasFormat(format, text) == format \in text.formats

matchesPattern(pattern, text) == pattern \in text.patterns

(* Strings are trimmed first; a blank one is no answer. *)
CheckText(field, v, options, raw) ==
    IF raw[1] # "string" THEN Wrong("text")
    ELSE IF raw[2] = Blank THEN Absent
    ELSE LET text == Text[raw[2]]
         IN  FirstFailing(
                << <<field.type \in {"email", "url", "date"} /\ ~HasFormat(field.type, text), field.type>>,
                   <<field.type = "select" /\ raw[2] \notin options, "choice">>,
                   <<Has(v, "minLength") /\ text.length < v["minLength"], "minLength">>,
                   <<Has(v, "maxLength") /\ text.length > v["maxLength"], "maxLength">>,
                   <<Has(v, "pattern") /\ ~matchesPattern(v["pattern"], text), "pattern">> >>,
                Str(raw[2]))

checkValue(field, raw) ==
    IF raw = None THEN Absent
    ELSE CASE field.type = "number"      -> CheckNumber(Limits(field), raw)
           [] field.type = "checkbox"    -> IF raw[1] = "boolean" THEN Good(raw) ELSE Wrong("boolean")
           [] field.type = "multiselect" -> CheckChoices(OptionsOf(field), raw)
           [] OTHER                      -> CheckText(field, Limits(field), OptionsOf(field), raw)

(* ------------------------------ Evaluation ---------------------------- *)

Answer(data, key) == IF key \in DOMAIN data THEN data[key] ELSE None

With(f, key, value) == [k \in DOMAIN f \cup {key} |-> IF k = key THEN value ELSE f[k]]

NothingYet == [shown |-> << >>, clean |-> << >>, problems |-> << >>]

(* Mutant: a condition sees the answer as typed, hidden or invalid. *)
ShownRaw(fields, i, before, data) ==
    Has(fields[i], "showIf") =>
        LET cond  == fields[i].showIf
            named == {j \in 1..(i - 1) : fields[j].key = cond.field}
        IN  /\ named # {}
            /\ LET controller == fields[CHOOSE j \in named : \A k \in named : k <= j]
               IN  conditionHolds(cond, controller, Answer(data, cond.field),
                                  Answer(data, cond.field) # None)

(* A field is shown when its controller is an earlier field, shown itself, *)
(* whose cleaned value satisfies the condition.                            *)
Shown(fields, i, before, data) ==
    Has(fields[i], "showIf") =>
        LET cond  == fields[i].showIf
            named == {j \in 1..(i - 1) : fields[j].key = cond.field}
        IN  /\ named # {}
            /\ before.shown[cond.field]
            /\ LET controller == fields[CHOOSE j \in named : \A k \in named : k <= j]
               IN  conditionHolds(cond, controller, Answer(before.clean, cond.field),
                                  cond.field \in DOMAIN before.clean)

Problem(key, error) == [key |-> key, error |-> error]

IsRequired(field) == Has(field, "required") /\ field.required

(* The error of a shown field's checked answer. *)
ErrorOf(field, res) ==
    IF res.error # NoError THEN res.error
    ELSE IF ~res.provided THEN IF IsRequired(field) THEN "required" ELSE NoError
    ELSE IF field.type = "checkbox" /\ IsRequired(field) /\ res.value # Bool(TRUE) THEN "mustTick"
    ELSE NoError

(* What field i adds to what was found before it. *)
Walked(fields, i, before, data) ==
    LET key   == fields[i].key
        vis   == Shown(fields, i, before, data)
        res   == checkValue(fields[i], Answer(data, key))
        error == ErrorOf(fields[i], res)
    IN  [shown    |-> With(before.shown, key, vis),
         clean    |-> IF vis /\ error = NoError /\ res.provided
                      THEN With(before.clean, key, res.value) ELSE before.clean,
         problems |-> IF vis /\ error # NoError
                      THEN Append(before.problems, Problem(key, error)) ELSE before.problems]

(* Fields are walked in the order of their declaration. *)
Evaluate(form, data) ==
    LET walk[i \in 0..Len(form.fields)] ==
            IF i = 0 THEN NothingYet ELSE Walked(form.fields, i, walk[i - 1], data)
    IN  walk[Len(form.fields)]

visible(form, data) == Evaluate(form, data).shown

Valid(form, data) == Evaluate(form, data).problems = << >>
clean(form, data) == Evaluate(form, data).clean

FORM_ERROR_KEY == "_form"

(* The first error of each field; what names no field concerns the form. *)
problemsToErrors(problems) ==
    LET named(k) == {i \in DOMAIN problems : problems[i].key = k}
        first(k) == CHOOSE i \in named(k) : \A j \in named(k) : i <= j
    IN  [k \in {problems[i].key : i \in DOMAIN problems} |-> problems[first(k)].error]

(* What validate_form lets through, as far as it matters here. *)
FieldTypes == {"text", "textarea", "email", "url", "date", "select", "number", "checkbox", "multiselect"}

IsField(field) ==
    /\ field.key # FORM_ERROR_KEY
    /\ field.type \in FieldTypes
    /\ \A m \in DOMAIN Limits(field) : m # "pattern" => Limits(field)[m] \in Int
    /\ field.type \in {"select", "multiselect"} =>
            /\ Has(field, "options") /\ field.options \in Seq(DOMAIN Text \ {Blank})
            /\ IsInjective(field.options)

IsForm(form) ==
    LET fields == form.fields
    IN  /\ fields \in Seq(ToSet(fields))
        /\ \A i, j \in DOMAIN fields : fields[i].key = fields[j].key => i = j
        /\ \A i \in DOMAIN fields : IsField(fields[i])

(* -------------------------------- Inputs ------------------------------- *)

(* Ticking or unticking a choice keeps the order of the options. *)
toggle(field, value, choice, on) ==
    LET selected == IF value[1] = "array" THEN ToSet(value[2]) ELSE {}
        next     == Kept(field.options, IF on THEN selected \cup {choice} ELSE selected \ {choice})
    IN  IF next = << >> THEN None ELSE List(next)

(* Mutant: a cleared number input is a blank string. *)
NumberChangesBlank(numbers) == {Num(n) : n \in numbers} \cup {Str(Blank)}

(* A number input that is cleared, or cannot be read, is no answer. *)
NumberChanges(numbers) == {Num(n) : n \in numbers} \cup {None}

(* What one change of a field's default input can make of its value. *)
Changed(field, value, texts, numbers) ==
    CASE field.type = "number"      -> NumberChanges(numbers)
      [] field.type = "checkbox"    -> {Bool(value # Bool(TRUE))}
      [] field.type = "select"      -> {Str(o) : o \in OptionsOf(field)} \cup {None}
      [] field.type = "multiselect" ->
            {toggle(field, value, o, ~(value[1] = "array" /\ o \in ToSet(value[2]))) : o \in OptionsOf(field)}
      [] OTHER                      -> {Str(s) : s \in texts} \cup {Padded(s) : s \in texts}
=============================================================================
