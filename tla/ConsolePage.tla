----------------------------- MODULE ConsolePage ----------------------------
(* The console's page of one submission (web/apps/admin/src/pages/): its   *)
(* query, TransitionBar with its dialog, and WorkflowFieldsPanel.  The     *)
(* query cache is TanStack Query's, as these components use it: one fetch  *)
(* of a key at a time, which an invalidation cancels and starts again.     *)
EXTENDS SubmissionDesk

CONSTANTS
    Viewed,         \* the submission
    MyRoles,        \* of the signed-in user
    MaxCalls,       \* transitions and saves
    MaxFocus        \* refetches because the window got the focus

ASSUME ViewedAssumption == Viewed \in Submissions

VARIABLES
    page,      \* what is rendered, and the state of the components
    fetches,   \* getSubmission calls that count
    calls,     \* mutations under way
    used       \* calls made, focus events, failures

consoleVars == <<page, fetches, calls, used>>

Nothing  == [state |-> "none", fields |-> << >>, updatedAt |-> 0, transitions |-> << >>]
NoDialog == [t |-> Blank, values |-> << >>]

(* The components of the page, mounted for the n-th time.  fields: what    *)
(* the panel was mounted with, values and edited: what the user made of    *)
(* it, saving and moving: the mutation each observes, 0 for none.          *)
Fresh(n, data) ==
    [mount |-> n, data |-> data, failed |-> FALSE, dialog |-> NoDialog, notice |-> FALSE,
     moving |-> 0, saving |-> 0, values |-> data.fields, edited |-> {}, sure |-> 0]

Asked == [pc |-> "asked", answer |-> Nothing]

ConsoleInit(opened) ==
    /\ page = Fresh(1, Nothing)
    /\ fetches = IF opened THEN {Asked} ELSE {}
    /\ calls = {}
    /\ used = [calls |-> 0, focus |-> 0, broken |-> 0]

Loaded == page.data # Nothing /\ ~page.failed

-----------------------------------------------------------------------------
(* The query *)

focus ==
    /\ used.focus < MaxFocus
    /\ fetches = {}
    /\ fetches' = {Asked}
    /\ used' = [used EXCEPT !.focus = @ + 1]
    /\ UNCHANGED <<page, calls>>

serverReads ==
    /\ \E f \in fetches :
        /\ f.pc = "asked"
        /\ fetches' = (fetches \ {f}) \cup {[pc |-> "read", answer |-> Detail(Viewed, MyRoles)]}
    /\ UNCHANGED <<page, calls, used>>

(* Mutant: new data leave the panel as it is. *)
RenderedUnkeyed(p, data) == [p EXCEPT !.data = data, !.failed = FALSE]

(* The page with new data: WorkflowFieldsPanel has the key updatedAt, so   *)
(* that another version of the submission mounts it anew.                  *)
Rendered(p, data) ==
    IF data.updatedAt = p.data.updatedAt THEN [p EXCEPT !.data = data, !.failed = FALSE]
    ELSE [p EXCEPT !.data = data, !.failed = FALSE, !.values = data.fields, !.edited = {}, !.saving = 0]

Waiting == {c \in calls : c.pc = "refreshing"}

(* Mutant: a mutation stays pending after its refetch. *)
SettledNever(p) == p

(* The mutations that awaited the refetch have settled. *)
Settled(p) ==
    LET numbers == {c.n : c \in {d \in Waiting : d.mount = p.mount}}
    IN  [p EXCEPT !.moving = IF @ \in numbers THEN 0 ELSE @, !.saving = IF @ \in numbers THEN 0 ELSE @]

fetched ==
    /\ \E f \in fetches :
        /\ f.pc = "read"
        /\ fetches' = fetches \ {f}
        /\ page' = LET p == Settled(Rendered(page, f.answer))
                   IN  [p EXCEPT !.sure = Max({@} \cup {c.stamp : c \in Waiting})]
    /\ calls' = calls \ Waiting
    /\ UNCHANGED used

(* The fetch and its retries fail: the error is rendered instead of the    *)
(* page, whose components are gone with what was typed.                    *)
fetchFails ==
    /\ used' = [used EXCEPT !.broken = @ + 1]
    /\ \E f \in fetches : fetches' = fetches \ {f}
    /\ page' = [Fresh(page.mount + 1, page.data) EXCEPT !.failed = TRUE, !.sure = page.sure]
    /\ calls' = calls \ Waiting

-----------------------------------------------------------------------------
(* TransitionBar *)

Call(kind, t, expected, fields) ==
    [n |-> used.calls + 1, kind |-> kind, mount |-> page.mount, pc |-> "sent", t |-> t,
     expected |-> expected, seen |-> page.data.state, fields |-> fields, edited |-> page.edited,
     code |-> Blank, stamp |-> 0]

(* Mutant: the state that is shown is not sent. *)
expectedOmitted == Blank

expectedShown == page.data.state

mutate(t, fields, p) ==
    /\ used.calls < MaxCalls
    /\ used' = [used EXCEPT !.calls = @ + 1]
    /\ calls' = calls \cup {Call("move", t, expectedShown, fields)}
    /\ page' = [p EXCEPT !.moving = used.calls + 1]

(* A button: a dialog asks for the required fields, with their values. *)
clickTransition ==
    /\ Loaded
    /\ page.moving = 0
    /\ page.dialog = NoDialog
    /\ \E t \in DOMAIN page.data.transitions :
        /\ page.data.transitions[t]
        /\ LET required == Workflow.transitions[t].requireFields
           IN  IF required = {} THEN mutate(t, << >>, [page EXCEPT !.notice = FALSE])
               ELSE /\ page' = [page EXCEPT !.notice = FALSE,
                                   !.dialog = [t |-> t, values |-> [k \in required |->
                                       IF k \in DOMAIN page.data.fields THEN page.data.fields[k] ELSE Unset]]]
                    /\ UNCHANGED <<calls, used>>
    /\ UNCHANGED fetches

typeInDialog ==
    /\ Loaded
    /\ \E k \in DOMAIN page.dialog.values, v \in Values \cup {Unset} :
        page' = [page EXCEPT !.dialog.values[k] = v]
    /\ UNCHANGED <<fetches, calls, used>>

confirm ==
    /\ Loaded
    /\ page.dialog # NoDialog
    /\ page.moving = 0
    /\ \A k \in DOMAIN page.dialog.values : page.dialog.values[k] # Unset
    /\ mutate(page.dialog.t, page.dialog.values, page)
    /\ UNCHANGED fetches

(* The dialog may be closed while its request is under way. *)
cancel ==
    /\ Loaded
    /\ page.dialog # NoDialog
    /\ page' = [page EXCEPT !.dialog = NoDialog, !.moving = 0]
    /\ UNCHANGED <<fetches, calls, used>>

-----------------------------------------------------------------------------
(* WorkflowFieldsPanel *)

ValueOf(values, k) == IF k \in DOMAIN values THEN values[k] ELSE Unset

editField ==
    /\ Loaded
    /\ \E k \in Workflow.fields, v \in Values \cup {Unset} :
        /\ ValueOf(page.values, k) # v
        /\ page' = [page EXCEPT !.values = With(@, k, v), !.edited = @ \cup {k}]
    /\ UNCHANGED <<fetches, calls, used>>

changedFields ==
    [k \in {k \in Workflow.fields : ValueOf(page.values, k) # ValueOf(page.data.fields, k)} |->
        ValueOf(page.values, k)]

saveFields ==
    /\ Loaded
    /\ page.saving = 0
    /\ changedFields # << >>
    /\ used.calls < MaxCalls
    /\ used' = [used EXCEPT !.calls = @ + 1]
    /\ calls' = calls \cup {Call("save", Blank, Blank, changedFields)}
    /\ page' = [page EXCEPT !.saving = used.calls + 1]
    /\ UNCHANGED fetches

-----------------------------------------------------------------------------
(* The server, and its answers *)

decides ==
    /\ \E c \in calls :
        /\ c.pc = "sent"
        /\ LET d    == desk[Viewed]
               code == IF c.kind = "save" THEN "ok"
                       ELSE Refusal(Workflow, d.state, d.fields, MyRoles, c.t, c.fields, c.expected)
               new  == IF code # "ok" THEN d
                       ELSE IF c.kind = "save" THEN Edited(d, c.fields) ELSE Moved(d, c.t, c.fields)
           IN  /\ desk' = [desk EXCEPT ![Viewed] = new]
               /\ calls' = (calls \ {c}) \cup {[c EXCEPT !.pc = "decided", !.code = code, !.stamp = new.updatedAt]}
    /\ UNCHANGED <<othersDid, page, fetches, used>>

(* Mutant: a fetch under way serves as the refetch. *)
RefetchedJoins == IF fetches = {} THEN {Asked} ELSE fetches

(* Mutant: the answer of a cancelled fetch counts too. *)
RefetchedToo == fetches \cup {Asked}

Refetched == {Asked}

(* What awaited the fetch that an invalidation cancels waits no longer. *)
Refresh(c) ==
    /\ fetches' = Refetched
    /\ calls' = (calls \ (Waiting \cup {c})) \cup {[c EXCEPT !.pc = "refreshing"]}

(* The callbacks of a mutation, and what they set if they still can. *)
callAnswered ==
    /\ \E c \in calls :
        /\ c.pc = "decided"
        /\ LET mine == c.mount = page.mount
               p    == Settled(page)
           IN  IF c.kind = "move" /\ c.code \in {"ok", "state_conflict", "invalid_state"}
               THEN /\ Refresh(c)
                    /\ page' = IF ~mine THEN p
                               ELSE [p EXCEPT !.dialog = NoDialog, !.notice = c.code # "ok"]
               ELSE IF c.kind = "save" /\ c.code = "ok"
               THEN Refresh(c) /\ page' = p
               ELSE /\ calls' = calls \ {c}
                    /\ page' = [page EXCEPT !.moving = IF @ = c.n THEN 0 ELSE @]
                    /\ UNCHANGED fetches
    /\ UNCHANGED used

(* A request or its answer is lost. *)
callFails ==
    /\ used' = [used EXCEPT !.broken = @ + 1]
    /\ \E c \in calls :
        /\ c.pc \in {"sent", "decided"}
        /\ calls' = calls \ {c}
        /\ page' = [page EXCEPT !.moving = IF @ = c.n THEN 0 ELSE @, !.saving = IF @ = c.n THEN 0 ELSE @]
    /\ UNCHANGED fetches

UserStep == focus \/ clickTransition \/ typeInDialog \/ confirm \/ cancel \/ editField \/ saveFields

QueryStep == serverReads \/ fetched \/ fetchFails \/ callAnswered \/ callFails

-----------------------------------------------------------------------------

(* What the page shows never goes back to an earlier version of the        *)
(* submission, however fetches, mutations and focus events interleave.     *)
DataNeverBack == [][page'.data.updatedAt >= page.data.updatedAt]_page

(* Once a transition or a save has settled and its refetch succeeded, the  *)
(* page shows at least the version that the server answered about: the     *)
(* user's own change, or the one that made the server refuse.              *)
SeesOwnChange == page.sure <= page.data.updatedAt

(* A transition is applied only to a submission in the state that the page *)
(* showed when it was sent.                                                *)
AppliedAsShown ==
    [][\A c \in calls : \A e \in calls' :
        (c.n = e.n /\ c.kind = "move" /\ c.pc = "sent" /\ e.pc = "decided" /\ e.code = "ok")
            => desk[Viewed].state = c.seen]_<<desk, calls>>

(* "Save fields" sends the fields the user edited and no others: what      *)
(* colleagues changed meanwhile is not put back.                           *)
SavesOnlyEdits == \A c \in calls : c.kind = "save" => DOMAIN c.fields \subseteq c.edited

(* No button stays disabled for ever: what it waits for is a call that is  *)
(* under way, and a call that awaits the refetch has a fetch to wait for.  *)
NothingStuck ==
    /\ \A n \in {page.moving, page.saving} \ {0} : \E c \in calls : c.n = n /\ c.mount = page.mount
    /\ Waiting # {} => fetches # {}
=============================================================================
