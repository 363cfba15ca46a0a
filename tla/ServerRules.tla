----------------------------- MODULE ServerRules ----------------------------
(* The server's side of the same rules: src/openforms/definition/,         *)
(* submission.py and values.py.  The values are those of FormRules.        *)
EXTENDS FormRules

StringTypes == {"text", "textarea", "email", "url", "date", "select"}

contains(items, v) == \E i \in DOMAIN items : Str(items[i]) = v

holds(c, type, value, present) ==
    LET multi == type = "multiselect"
        is(target) == IF multi THEN contains(value[2], target) ELSE value = target
    IN  IF Has(c, "equals") THEN present /\ is(c.equals)
        ELSE IF Has(c, "notEquals") THEN present => ~is(c.notEquals)
        ELSE IF Has(c, "in")
             THEN present /\ IF multi THEN \E i \in DOMAIN value[2] : Str(value[2][i]) \in c.in
                             ELSE value \in c.in
        ELSE TRUE

check_string(field, v, s) ==
    /\ field.type \in {"email", "url", "date"} => field.type \in Text[s].formats
    /\ field.type = "select" => s \in OptionsOf(field)
    /\ Has(v, "minLength") => Text[s].length >= v["minLength"]
    /\ Has(v, "maxLength") => Text[s].length <= v["maxLength"]
    /\ Has(v, "pattern") => v["pattern"] \in Text[s].patterns

(* "absent", "wrong" or "given", and the value that is kept. *)
check_value(field, raw) ==
    LET v     == Limits(field)
        ok(b) == IF b THEN "given" ELSE "wrong"
    IN  IF raw = None THEN <<"absent", None>>
        ELSE CASE field.type \in StringTypes ->
                    IF raw[1] # "string" THEN <<"wrong", None>>
                    ELSE IF raw[2] = Blank THEN <<"absent", None>>
                    ELSE <<ok(check_string(field, v, raw[2])), Str(raw[2])>>
               [] field.type = "number" ->
                    <<ok(/\ raw[1] = "number"
                         /\ Has(v, "min") => raw[2] >= v["min"]
                         /\ Has(v, "max") => raw[2] <= v["max"]), raw>>
               [] field.type = "checkbox" -> <<ok(raw[1] = "boolean"), raw>>
               [] OTHER ->
                    IF raw = List(<< >>) THEN <<"absent", None>>
                    ELSE <<ok(/\ raw[1] = "array"
                              /\ ToSet(raw[2]) \subseteq OptionsOf(field)
                              /\ IsInjective(raw[2])), raw>>

(* What one field adds to the accumulated types, visible keys, data that   *)
(* is kept and keys in error.                                              *)
Judged(acc, field, data) ==
    LET c     == field.showIf
        shown == Has(field, "showIf") =>
                    /\ c.field \in acc.vis
                    /\ holds(c, acc.types[c.field], Answer(acc.clean, c.field), c.field \in DOMAIN acc.clean)
        res   == check_value(field, Answer(data, field.key))
        bad   == \/ res[1] = "wrong"
                 \/ res[1] = "absent" /\ IsRequired(field)
                 \/ res = <<"given", Bool(FALSE)>> /\ field.type = "checkbox" /\ IsRequired(field)
    IN  [types |-> With(acc.types, field.key, field.type),
         vis   |-> IF shown THEN acc.vis \cup {field.key} ELSE acc.vis \ {field.key},
         clean |-> IF shown /\ ~bad /\ res[1] = "given" THEN With(acc.clean, field.key, res[2]) ELSE acc.clean,
         bad   |-> IF shown /\ bad THEN acc.bad \cup {field.key} ELSE acc.bad]

NothingJudged == [types |-> << >>, vis |-> {}, clean |-> << >>, bad |-> {}]

ServerEvaluate(form, data) ==
    LET acc[i \in 0..Len(form.fields)] ==
            IF i = 0 THEN NothingJudged ELSE Judged(acc[i - 1], form.fields[i], data)
    IN  acc[Len(form.fields)]
=============================================================================
