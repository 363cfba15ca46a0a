------------------------------ MODULE FormEditor ----------------------------
(* formReducer.ts: the state of the form editor and what each action makes *)
(* of it.  An editor is [def, sel, dirty]; sel is Settings or the place of *)
(* a field.                                                                *)
EXTENDS EditorRules, SequencesExt

(* nextNumbered and uniqueName: a name nothing has yet. *)
Fresh(taken) ==
    CHOOSE n \in 1 .. Cardinality(taken) + 1 :
        n \notin taken /\ \A m \in 1 .. n - 1 : m \in taken

StarterOptions(type) == IF type = "choice" THEN "some" ELSE "none"

newFormDefinition == [slug |-> "", title |-> "fine", fields |-> << >>]

withFields(e, fields, sel) == [e EXCEPT !.def.fields = fields, !.sel = sel, !.dirty = TRUE]

formSetSlug(e, slug) == [e EXCEPT !.def.slug = slug, !.dirty = TRUE]
formSetTitle(e, title) == [e EXCEPT !.def.title = title, !.dirty = TRUE]

formAddField(e, type) ==
    LET new == FormField(Fresh(KeysOf(e.def.fields)), type, StarterOptions(type))
    IN  withFields(e, Append(e.def.fields, new), Place("fields", Len(e.def.fields) + 1))

formUpdateField(e, i, f) == withFields(e, [e.def.fields EXCEPT ![i] = f], e.sel)

(* fitValidation *)
FittingLimits(limits, type) ==
    {l \in limits : (l = "length" /\ type = "text") \/ (l = "range" /\ type = "number")}

FittingPattern(pattern, type) == IF type = "text" THEN pattern ELSE "none"

setFieldType(e, i, type) ==
    LET f == e.def.fields[i]
        options == IF type = "choice" /\ f.options \in Filled THEN f.options ELSE StarterOptions(type)
    IN  formUpdateField(e, i, [f EXCEPT !.type = type, !.options = options,
                                        !.limits = FittingLimits(f.limits, type),
                                        !.pattern = FittingPattern(f.pattern, type)])

(* Mutant: conditions follow to whichever field has the old key. *)
FollowsAlways(list, k) == TRUE

Follows(list, k) == Count(list, k) = 1

formRenameField(e, i, k) ==
    LET fields == e.def.fields
        old == fields[i].key
        Renamed(j) ==
            IF j = i THEN [fields[j] EXCEPT !.key = k]
            ELSE IF Follows(fields, old) /\ fields[j].showIf.op # "no" /\ fields[j].showIf.field = old
            THEN [fields[j] EXCEPT !.showIf.field = k]
            ELSE fields[j]
    IN  withFields(e, [j \in DOMAIN fields |-> Renamed(j)], e.sel)

SelectedAfter(sel, i, size) ==
    CASE sel = Settings -> sel
      [] sel.i = i      -> IF size = 0 THEN Settings ELSE Place("fields", IF i < size THEN i ELSE size)
      [] sel.i > i      -> Place("fields", sel.i - 1)
      [] OTHER          -> sel

formRemoveField(e, i) ==
    LET old == e.def.fields[i].key
        rest == RemoveAt(e.def.fields, i)
        Loose(f) == IF Count(rest, old) = 0 /\ f.showIf.op # "no" /\ f.showIf.field = old
                    THEN [f EXCEPT !.showIf = NoCondition] ELSE f
    IN  withFields(e, [j \in DOMAIN rest |-> Loose(rest[j])], SelectedAfter(e.sel, i, Len(rest)))

(* The label of the copy ends in " (copy)". *)
duplicateField(e, i) ==
    LET copy == [e.def.fields[i] EXCEPT !.key = Fresh(KeysOf(e.def.fields)), !.label = "fine"]
    IN  withFields(e, InsertAt(e.def.fields, i + 1, copy), Place("fields", i + 1))

(* i and its neighbour j change places. *)
moveField(e, i, j) ==
    withFields(e, [e.def.fields EXCEPT ![i] = e.def.fields[j], ![j] = e.def.fields[i]],
               CASE e.sel = Place("fields", i) -> Place("fields", j)
                 [] e.sel = Place("fields", j) -> Place("fields", i)
                 [] OTHER -> e.sel)

(* Any number: a problem names it. *)
formSelect(e, place) == [e EXCEPT !.sel = IF place.at = "fields" THEN place ELSE Settings]

formReplace(e, def) ==
    [def |-> def, sel |-> IF e.sel.i <= Len(def.fields) THEN e.sel ELSE Settings, dirty |-> TRUE]

-----------------------------------------------------------------------------
(* What the panels offer: the condition builder starts from the field just *)
(* above, lets any earlier one be chosen and any operator; clearing all    *)
(* the boxes of a list of values leaves an empty list.  Another operator   *)
(* keeps the value there was, so that of an empty list becomes none at all *)
(* (ShowIfBuilder.tsx:25) and null stays null.                             *)

Leftover(op) ==
    CASE op \in {"inNothing", "broken"} -> {"broken"} [] op \in {"null", "nullAnd"} -> {"null"}
      [] OTHER -> {}

Conditions(fields, i) ==
    IF i = 1 THEN {fields[i].showIf}
    ELSE {NoCondition} \cup
         IF fields[i].showIf = NoCondition THEN {[field |-> fields[i - 1].key, op |-> "is"]}
         ELSE [field : Earlier(fields, i) \cup {fields[i].showIf.field},
               op : {"is", "in", "inNothing"} \cup Leftover(fields[i].showIf.op)]

LimitsOffered(f) ==
    CASE f.type = "text" -> {{}, {"length"}} [] f.type = "number" -> {{}, {"range"}} [] OTHER -> {f.limits}

PatternsOffered(f) == IF f.type = "text" THEN Patterns ELSE {f.pattern}

OptionsOffered(f) == IF f.type = "choice" THEN {"empty"} \cup Filled ELSE {f.options}

FieldPatches(fields, i, labels) ==
    LET f == fields[i]
    IN  {[f EXCEPT !.label = l] : l \in labels}
        \cup {[f EXCEPT !.pattern = p] : p \in PatternsOffered(f)}
        \cup {[f EXCEPT !.showIf = c] : c \in Conditions(fields, i)}
        \cup {[f EXCEPT !.limits = l] : l \in LimitsOffered(f)}
        \cup {[f EXCEPT !.options = o] : o \in OptionsOffered(f)}

-----------------------------------------------------------------------------
(* The field, by position, that each condition looks at. *)
Controllers(fields) ==
    {c \in (DOMAIN fields) \X (DOMAIN fields) :
        fields[c[1]].showIf.op # "no" /\ fields[c[2]].key = fields[c[1]].showIf.field}

=============================================================================
