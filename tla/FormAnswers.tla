----------------------------- MODULE FormAnswers ----------------------------
(* Answering a form: every change of an answer re-evaluates what is shown  *)
(* and what would be sent.  "widgets" is a respondent at the default       *)
(* inputs, "api" a program that sets any value of any field.  What a       *)
(* submission that succeeds does to the form is FormHook's subject.        *)
EXTENDS ServerRules

CONSTANTS
    FormSet,    \* the forms
    TypedTexts, \* what is typed into a text input
    TypedNumbers,
    RawValues   \* what a program may set

VARIABLES
    form,
    data,       \* key -> value
    errors,     \* key -> message, of a submission that was refused
    by

answerVars == <<form, data, errors, by>>

ASSUME AnswersAssumption ==
    /\ \A f \in FormSet : IsForm(f)
    /\ TypedTexts \subseteq DOMAIN Text /\ TypedNumbers \subseteq Int
    /\ \A v \in RawValues : IsValue(v)

FormKeys == {form.fields[i].key : i \in DOMAIN form.fields}

AnswersInit ==
    /\ form \in FormSet
    /\ by \in {"widgets", "api"}
    /\ data = [k \in FormKeys |-> None]
    /\ errors = << >>

-----------------------------------------------------------------------------
(* The page: OpenForm renders the fields that are shown, each with its     *)
(* input and its error, below a summary that links to every error.         *)

rendered ==
    LET vis == visible(form, data) IN Kept(form.fields, {f \in ToSet(form.fields) : vis[f.key]})

renderField(field) ==
    [key |-> field.key, value |-> data[field.key],
     required |-> IsRequired(field),
     error |-> IF field.key \in DOMAIN errors THEN errors[field.key] ELSE NoError]

fieldErrors == DOMAIN errors \ {FORM_ERROR_KEY}

Summary == [links |-> fieldErrors, formError |-> FORM_ERROR_KEY \in DOMAIN errors]

-----------------------------------------------------------------------------

(* Mutant: a changed answer keeps its error. *)
ClearedForm(key) == [k \in DOMAIN errors \ {FORM_ERROR_KEY} |-> errors[k]]

(* Another answer takes away its field's error, and that of the form. *)
Cleared(key) == [k \in DOMAIN errors \ {key, FORM_ERROR_KEY} |-> errors[k]]

(* Only the fields that are shown are rendered, with their default inputs. *)
Type(field) ==
    /\ by = "widgets"
    /\ visible(form, data)[field.key]
    /\ \E v \in Changed(field, data[field.key], TypedTexts, TypedNumbers) :
        data' = [data EXCEPT ![field.key] = v]
    /\ errors' = Cleared(field.key)
    /\ UNCHANGED <<form, by>>

setAny(key) ==
    /\ by = "api"
    /\ \E v \in RawValues : data' = [data EXCEPT ![key] = v]
    /\ errors' = Cleared(key)
    /\ UNCHANGED <<form, by>>

(* A submission with problems is not sent; one without may still fail.     *)
submit ==
    /\ errors' = IF Valid(form, data) THEN [k \in {FORM_ERROR_KEY} |-> "failed"]
                 ELSE problemsToErrors(Evaluate(form, data).problems)
    /\ UNCHANGED <<form, data, by>>

AnswersNext ==
    \/ submit
    \/ \E i \in DOMAIN form.fields : Type(form.fields[i])
    \/ \E k \in FormKeys : setAny(k)

AnswersSpec == AnswersInit /\ [][AnswersNext]_answerVars

-----------------------------------------------------------------------------

ShownKeys == {k \in FormKeys : visible(form, data)[k]}
ErrorKeys == DOMAIN problemsToErrors(Evaluate(form, data).problems)

(* "The server is authoritative; this exists for UX" (logic.ts:2): for     *)
(* every answer of every form, browser and server show the same fields,    *)
(* refuse the same ones and keep the same data, given that both judge the  *)
(* length, the format and the patterns of one text alike.                  *)
ClientAgrees ==
    LET server == ServerEvaluate(form, data)
    IN  /\ ShownKeys = server.vis
        /\ ErrorKeys = server.bad
        /\ clean(form, data) = server.clean

(* What is sent is judged again by the server from the sent data alone,    *)
(* without the hidden answers: it must show the same fields and keep       *)
(* everything (submit, useOpenForm.ts:86-100).                             *)
SentIsAccepted ==
    Valid(form, data) =>
        LET sent  == clean(form, data)
            again == ServerEvaluate(form, sent)
        IN  again.vis = ShownKeys /\ again.bad = {} /\ again.clean = sent

(* The server decides as the browser did. *)
ServerAgrees == ClientAgrees /\ SentIsAccepted

(* The default inputs never make a value of the wrong type, an unknown     *)
(* choice or one chosen twice: a respondent is only asked for what can be  *)
(* put right in the input that is shown.                                   *)
InputsFit ==
    by = "widgets" =>
        LET ps == Evaluate(form, data).problems
        IN  \A i \in DOMAIN ps : ps[i].error \notin {"text", "number", "boolean", "choice", "duplicate"}

(* An error next to a field is that of the answer the field has now, not   *)
(* of one that was changed since, also when the field was hidden and shown *)
(* again in between; and the summary links to all of them, and gives an    *)
(* error of the form only when it is the only one.                         *)
ErrorsAreTrue ==
    LET shown == {renderField(rendered[i]) : i \in DOMAIN rendered}
        field(key) == form.fields[CHOOSE i \in DOMAIN form.fields : form.fields[i].key = key]
    IN  /\ \A r \in shown :
            r.error # NoError => /\ r.error = ErrorOf(field(r.key), checkValue(field(r.key), r.value))
                            /\ r.key \in Summary.links
        /\ Summary.formError => Summary.links = {}

(* What the form tells its respondent can be acted on, and is true. *)
GuidesRight == InputsFit /\ ErrorsAreTrue

(* An answer that is hidden has no effect on what is shown, refused or     *)
(* sent, through any chain of conditions.                                  *)
HiddenIsInert ==
    [][\A k \in FormKeys :
        /\ ~visible(form, data)[k]
        /\ \A j \in FormKeys \ {k} : data'[j] = data[j]
        => Evaluate(form, data') = Evaluate(form, data)]_answerVars
=============================================================================
