------------------------------- MODULE FormHook -----------------------------
(* One mounted form: useOpenForm and OpenForm (web/packages/react/src/),   *)
(* the requests of the SDK client it makes, and the server's answers.      *)
(* Between two events React has rendered and run the effects, so each      *)
(* action is a handler or an answer with all it sets, and the effect of    *)
(* OpenForm that reports a submission follows it in the same step.         *)
EXTENDS FormRules, FiniteSets, SequencesExt

CONSTANTS
    Slugs,
    Definition,     \* slug -> form
    NoForm,
    Inputs,         \* key -> the values it may be given
    MaxChanges,     \* of the slug (or of the definition)
    MaxSent         \* submissions sent

VARIABLES
    mode,      \* "slug": loads and sends; "definition": form and handler are given
    ui,        \* "OpenForm", or "headless": a page that uses the hook itself
    slug,      \* the slug or the definition that is given now
    changes,   \* how often it has changed
    loads,     \* getPublicForm calls under way
    hook,      \* the hook's state, and its ref inFlight
    calls,     \* submissions under way
    sent,      \* number of submissions sent
    store,     \* accepted submissions, in order: their form and data
    notified,  \* OpenForm's ref
    told       \* results onSubmitted was called with

formVars == <<mode, ui, slug, changes, loads, hook, calls, sent, store, notified, told>>

NoResult == 0

Form   == IF mode = "definition" THEN slug ELSE hook.loaded
Status ==
    IF hook.loadError THEN "error"
    ELSE IF Form = NoForm THEN "loading"
    ELSE IF hook.phase = "idle" THEN "ready" ELSE hook.phase

Keys == UNION {{Definition[s].fields[i].key : i \in DOMAIN Definition[s].fields} : s \in Slugs}

ASSUME HookAssumption ==
    /\ \A s \in Slugs : IsForm(Definition[s])
    /\ \A k \in Keys : \A v \in Inputs[k] : IsValue(v)
    /\ MaxChanges \in Nat /\ MaxSent \in Nat

(* The effect that loads: the calls of earlier runs are cancelled. *)
Cancelled == {[l EXCEPT !.cancelled = TRUE] : l \in loads}
Load(s, n) == IF mode = "slug" THEN {[n |-> n, slug |-> s, cancelled |-> FALSE]} ELSE {}

Init ==
    /\ mode \in {"slug", "definition"}
    /\ ui \in {"OpenForm", "headless"}
    /\ slug \in Slugs
    /\ changes = 0
    /\ loads = Load(slug, 0)
    /\ hook = [loaded |-> NoForm, loadError |-> FALSE, values |-> [k \in Keys |-> None],
               errors |-> {}, phase |-> "idle", result |-> NoResult, inFlight |-> FALSE]
    /\ calls = {}
    /\ sent = 0
    /\ store = << >>
    /\ notified = FALSE
    /\ told = << >>

-----------------------------------------------------------------------------
(* Loading *)

changeSlug ==
    /\ changes < MaxChanges
    /\ \E s \in Slugs \ {slug} :
        /\ slug' = s
        /\ changes' = changes + 1
        /\ loads' = Cancelled \cup Load(s, changes + 1)
        /\ hook' = IF mode = "slug" THEN [hook EXCEPT !.loaded = NoForm, !.loadError = FALSE] ELSE hook
    /\ UNCHANGED <<mode, ui, calls, sent, store>>

(* Mutant: whatever answers last is shown. *)
AppliesAlways(l) == TRUE

Applies(l) == ~l.cancelled

(* getPublicForm answers, or fails for any reason. *)
loadAnswered ==
    /\ \E l \in loads :
        /\ loads' = loads \ {l}
        /\ \/ hook' = IF Applies(l) THEN [hook EXCEPT !.loaded = l.slug] ELSE hook
           \/ hook' = IF Applies(l) THEN [hook EXCEPT !.loadError = TRUE] ELSE hook
    /\ UNCHANGED <<mode, ui, slug, changes, calls, sent, store>>

-----------------------------------------------------------------------------
(* Filling in.  OpenForm renders only what is visible, disables it while   *)
(* submitting and shows no form in the other states.                       *)

Offered == ui = "headless" \/ Status = "ready"

setValue ==
    /\ Form # NoForm
    /\ Offered
    /\ \E i \in DOMAIN Definition[Form].fields :
        LET k == Definition[Form].fields[i].key
        IN  /\ ui = "OpenForm" => visible(Definition[Form], hook.values)[k]
            /\ \E v \in Inputs[k] :
                hook' = [hook EXCEPT !.values[k] = v, !.errors = @ \ {k, FORM_ERROR_KEY}]
    /\ UNCHANGED <<mode, ui, slug, changes, loads, calls, sent, store>>

(* Mutant: the emptied form may be sent again at once. *)
EmptiedReady(h) ==
    [h EXCEPT !.values = [k \in Keys |-> None], !.errors = {},
              !.result = NoResult, !.phase = "idle", !.inFlight = FALSE]

Emptied(h) ==
    [h EXCEPT !.values = [k \in Keys |-> None], !.errors = {},
              !.result = NoResult, !.phase = "idle"]

(* Only a page of its own can call it, and at any time. *)
reset ==
    /\ ui = "headless"
    /\ hook' = Emptied(hook)
    /\ UNCHANGED <<mode, ui, slug, changes, loads, calls, sent, store>>

-----------------------------------------------------------------------------
(* Submitting *)

(* Mutant: a second click sends again. *)
MaySubmitTwice == Form # NoForm

MaySubmit == Form # NoForm /\ ~hook.inFlight

submitInvalid ==
    /\ Offered
    /\ MaySubmit
    /\ ~Valid(Definition[Form], hook.values)
    /\ hook' = [hook EXCEPT
                    !.errors = DOMAIN problemsToErrors(Evaluate(Definition[Form], hook.values).problems)]
    /\ UNCHANGED <<mode, ui, slug, changes, loads, calls, sent, store>>

submitValid ==
    /\ Offered
    /\ MaySubmit
    /\ sent < MaxSent
    /\ Valid(Definition[Form], hook.values)
    /\ hook' = [hook EXCEPT !.inFlight = TRUE, !.phase = "submitting", !.errors = {}]
    /\ sent' = sent + 1
    /\ calls' = calls \cup {[n |-> sent + 1, slug |-> slug,
                             data |-> clean(Definition[Form], hook.values), id |-> NoResult]}
    /\ UNCHANGED <<mode, ui, slug, changes, loads, store>>

(* The server, or the page's handler, accepts a submission. *)
accept ==
    /\ \E c \in calls :
        /\ c.id = NoResult
        /\ store' = Append(store, [slug |-> c.slug, data |-> c.data])
        /\ calls' = (calls \ {c}) \cup {[c EXCEPT !.id = Len(store) + 1]}
    /\ UNCHANGED <<mode, ui, slug, changes, loads, hook, sent>>

(* OpenFormsClient.request: what became of a call.  A submission that was  *)
(* accepted may still seem to fail, when its answer is lost or garbled.    *)
request(c) ==
    IF c.id # NoResult THEN {"ok", "network_error", "invalid_response"}
    ELSE {"validation_failed", "rate_limited", "http_error", "network_error"}

(* Mutant: a failure ends the flight, not the phase. *)
LandedStuck(h, code) ==
    [h EXCEPT !.inFlight = FALSE, !.phase = IF code = "ok" THEN "submitted" ELSE @]

Landed(h, code) ==
    [h EXCEPT !.inFlight = FALSE, !.phase = IF code = "ok" THEN "submitted" ELSE "idle"]

(* The answer of a call: with field errors of the server's, or one error   *)
(* of the whole form.                                                      *)
answered ==
    /\ \E c \in calls, code \in UNION {request(d) : d \in calls} :
        /\ code \in request(c)
        /\ calls' = calls \ {c}
        /\ hook' =
              IF code = "ok" THEN Landed([hook EXCEPT !.result = c.id], code)
              ELSE LET errors == IF code = "validation_failed" THEN DOMAIN c.data ELSE {}
                   IN  Landed([hook EXCEPT !.errors = IF errors = {} THEN {FORM_ERROR_KEY} ELSE errors],
                              code)
    /\ UNCHANGED <<mode, ui, slug, changes, loads, sent, store>>

-----------------------------------------------------------------------------

(* OpenForm's effect on [status, result]. *)
Notify(before) ==
    IF Status' = "submitted" /\ ~before /\ ui = "OpenForm"
    THEN notified' = TRUE /\ told' = Append(told, hook'.result)
    ELSE notified' = (before /\ Status' = "submitted") /\ UNCHANGED told

FormStep ==
    changeSlug \/ loadAnswered \/ setValue \/ reset \/ submitInvalid \/ submitValid \/ accept \/ answered

FormNext == FormStep /\ Notify(notified)

Spec == Init /\ [][FormNext]_formVars

-----------------------------------------------------------------------------

TypeOK ==
    /\ mode \in {"slug", "definition"} /\ ui \in {"OpenForm", "headless"}
    /\ slug \in Slugs /\ changes \in 0..MaxChanges /\ sent \in 0..MaxSent
    /\ \A l \in loads : l.n \in 0..changes /\ l.slug \in Slugs
    /\ hook.loaded \in Slugs \cup {NoForm}
    /\ hook.phase \in {"idle", "submitting", "submitted"}
    /\ hook.errors \subseteq Keys \cup {FORM_ERROR_KEY}
    /\ hook.result \in 0..Len(store)
    /\ \A c \in calls : c.n \in 1..sent /\ c.id \in 0..Len(store)
    /\ told \in Seq(0..Len(store))

(* "A double-click or Enter pressed twice must create exactly one          *)
(* submission" (plan 06): one submission is under way at a time, also      *)
(* around a reset, a new slug or a failure; and a Submit button that is    *)
(* offered does something.                                                 *)
OneAtATime ==
    /\ Cardinality(calls) <= 1
    /\ hook.inFlight <=> calls # {}
    /\ ui = "OpenForm" => (hook.inFlight <=> hook.phase = "submitting")

(* A confirmation, and the link to track the submission, are those of the  *)
(* newest accepted submission, whatever was reset or resent in between.    *)
ConfirmsNewest ==
    (mode = "slug" /\ Status = "submitted") => hook.result = Len(store) /\ hook.result # NoResult

(* The form that is shown is the one asked for, although loads of earlier  *)
(* slugs may answer later (useOpenForm.ts:58).                             *)
ShowsWanted == Status \in {"ready", "submitting", "submitted"} => Form = slug

(* onSubmitted is called once for each submission that is confirmed, and   *)
(* in their order, as long as the form stays the same.                     *)
ToldOnce ==
    (ui = "OpenForm" /\ changes = 0) =>
        /\ \A i, j \in DOMAIN told : i < j => told[i] < told[j]
        /\ Status = "submitted" => told # << >> /\ told[Len(told)] = hook.result

(* What is sent is what the respondent sees: no hidden answer, and valid   *)
(* for the form that is given, unless that has changed since.              *)
SendsShown ==
    \A c \in calls : LET f == Definition[c.slug]
                     IN  Valid(f, c.data) /\ clean(f, c.data) = c.data

(* What is confirmed and told is what was accepted. *)
ConfirmationsRight == ConfirmsNewest /\ ToldOnce

(* What is shown is what was asked for, and what is sent was shown. *)
FormIsWanted == ShowsWanted /\ SendsShown
=============================================================================
