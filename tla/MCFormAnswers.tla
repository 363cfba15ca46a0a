---------------------------- MODULE MCFormAnswers ---------------------------
(* Forms of three fields: a controller of each type, a field shown by it,  *)
(* and one shown by the second; and one whose condition looks ahead.       *)
EXTENDS FormAnswers

MCText ==
    [s \in {"", "a", "b", "me@x", "https://x"} |->
        CASE s = ""     -> [length |-> 0, formats |-> {}, patterns |-> {}]
          [] s = "me@x" -> [length |-> 4, formats |-> {"email"}, patterns |-> {}]
          [] s = "a"    -> [length |-> 1, formats |-> {}, patterns |-> {"[a]"}]
          [] s = "b"    -> [length |-> 1, formats |-> {}, patterns |-> {}]
          [] OTHER      -> [length |-> 9, formats |-> {"url"}, patterns |-> {}]]

Field(key, type) == [key |-> key, type |-> type]
Choice(key, type) == [key |-> key, type |-> type, options |-> <<"a", "b">>]

Conditions(field, t, u) ==
    {[field |-> field, equals |-> t], [field |-> field, notEquals |-> t], [field |-> field, in |-> {t, u}]}

(* Controllers with two targets of their conditions. *)
Firsts ==
    {<<Choice("one", "multiselect"), Str("a"), Str("b")>>,
     <<Choice("one", "select"), Str("a"), Str("z")>>,
     <<Field("one", "checkbox"), Bool(TRUE), Bool(FALSE)>>,
     <<[key |-> "one", type |-> "number", validation |-> [min |-> 1, max |-> 2]], Num(1), Num(3)>>,
     <<[key |-> "one", type |-> "text", validation |-> [minLength |-> 2, maxLength |-> 4]], Str("me@x"), Str("a")>>}

Seconds == {[key |-> "two", type |-> "email", required |-> TRUE],
            [key |-> "two", type |-> "checkbox", required |-> TRUE],
            [key |-> "two", type |-> "text", validation |-> [pattern |-> "[a]"]]}

Target(field) == CASE field.type = "email" -> Str("me@x") [] field.type = "checkbox" -> Bool(TRUE) [] OTHER -> Str("a")

Shows(field, cond) == [m \in DOMAIN field \cup {"showIf"} |-> IF m = "showIf" THEN cond ELSE field[m]]

MCForms ==
    {[fields |-> <<first[1], Shows(second, c), Shows(Choice("three", "multiselect"), d)>>] :
        <<first, c, second, d>> \in
            UNION {UNION {{<<first, c, second, d>> : d \in Conditions("two", Target(second), Str("z")) \ {[field |-> "two", in |-> {Target(second), Str("z")}]}} :
                        second \in Seconds, c \in Conditions("one", first[2], first[3])} : first \in Firsts}}
        \cup {[fields |-> <<Shows(Field("one", "text"), [field |-> "two", notEquals |-> Str("a")]), Field("two", "url")>>]}

MCTexts   == {"", "a", "me@x"}
MCNumbers == {0, 1}
MCRaw     == {None, Padded("a"), Str("me@x"), Num(1), Bool(TRUE), List(<<"b", "a">>), List(<<"a", "a">>)}
=============================================================================
