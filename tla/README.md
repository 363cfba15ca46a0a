# openforms in TLA+

openforms lets an organisation define forms and workflows as versioned documents, collect submissions, move them
through the states of a workflow, and run actions (webhook, mail, assignment) for the moves. The server is asyncio
Python on Postgres; any number of server processes share one database, each with worker coroutines for the jobs. The
web packages are a client, React components, an embed script, a hosted page, a demo and an admin console.

This directory holds a model of that system in TLA+, TLC configurations that check it on small instances, and
proofs, checked by TLAPS, that hold for every instance. Paths below are relative to the repository;
`server/` stands for `src/openforms/server/`, `react/` for `web/packages/react/src/`, `admin/` for `web/apps/admin/src/`.

## 1. Inventory

| Component | State | Operations | What is hard | What makes it correct |
|---|---|---|---|---|
| Job queue (`server/services/jobs.py`, `server/wiring.py`) | rows of `jobs`; the Job a worker holds in memory | enqueue, claim, handler, finish (done, retry, failed), failed hook, retry by an administrator, stop, start | workers on several processes, locks that are only a time, crashes between two commits, reclaim | one owner per claim; done means delivered; attempts bounded; failures reported; every job settles |
| Workflow engine (`server/workflow/engine.py`) | none of its own: works on submissions and jobs in transactions | on_created, transition, update_fields, comment, assign; available (read only) | two requests on one submission, stale expectations, rollback after some of the writes, patches that unset what is required | row, timeline and outbox always agree |
| Submissions (`server/models/submissions.py`) | `submissions`, `submission_events` | create, insert_event, set_assignee, public_status; listing, counts, receipts (read only) | reads of two snapshots; cursors over a changing table | what a respondent sees is one story |
| Actions (`server/actions/`) | submission events, assignee, effects outside the system | webhook, email, assign, record_success, on_failed | effect, event and job outcome are three commits; submissions are loaded when the action runs | at least one effect per owed action; events tell what happened |
| Definitions store (`server/models/definitions.py`) | `forms`, `form_versions`, `workflows`, `workflow_versions` | apply of a document or a bundle, its dry run, re-pinning of dependent forms; listing (read only) | concurrent applies of one slug, a workflow and its forms applied together, lock order in bundles | versions count up without gaps; a form pins the current version of its workflow |
| Accounts (`server/models/auth.py`) | `users`, `sessions`, `api_keys`, `password_resets` | login, logout, create/update/delete user, request and use of a reset; API keys | administrators who demote one another; locks on a set of rows that changes; logins while a password changes | an administrator remains; a new password ends every session; requests wait in a circle only where the order of locks cannot help |
| Rate limiter (`server/api/ratelimit.py`) | timestamps per key | hit, sweep | windows, bound on keys | never more than the limit in a window |
| HTTP API (`server/api/`) | none | routes and error envelopes | none beyond its callees | - |
| Definition language (`src/openforms/definition/`) | none | parse, validate, visibility, values, canonical form | conditions on conditions, rules that also exist in TypeScript | both sides decide alike |
| CLI and Python client (`src/openforms/cli/`, `src/openforms/client.py`) | files | apply, export, calls | none of its own | - |
| Form hook (`react/useOpenForm.ts`, `OpenForm.tsx`, `fields.tsx`; `web/packages/sdk/src/logic.ts`, `client.ts`) | React state of one form, a ref for the call in flight | load, set a value, submit, reset, change of slug | callbacks that answer after a reset or a new slug; answers lost; hidden answers; stale errors | one submission at a time; what is confirmed was accepted; browser and server agree |
| Status tracker (`react/StatusTracker.tsx`) | status, error, a timer | the effect, its polls | polls of an earlier link, failing polls, row and history read apart | shows its own link, never goes back, stops only at the end |
| Embed script (`web/packages/embed/src/`, `web/apps/hosted/src/embed-bridge.ts`) | `window.OpenForms`, listeners, iframes | start, scan, mount, messages of height and submission | included twice, before or after its containers; messages of frames that are gone | one frame per container; one event per submission; no form stays cut off |
| Demo page (`web/apps/demo/src/`) | status of the demo, the reviewer panel, the session cookie | load, run, change of persona | one cookie for all personas, a colleague who acts meanwhile | moves only what it showed |
| Admin console (`admin/pages/`) | the query cache, dialogs, edited fields | transitions, field edits, refetches | mutations, refetches and focus events that overlap | never shows an older version; saves only what was edited |
| Admin editors (`admin/editors/`) | a draft of a definition, a selection, a save under way | some thirty reducer actions, the YAML pane, save, leave | long edit sequences; edits during a save; two sets of validation rules | references in the draft stay valid; both sets of rules agree, but for differences that are known |
| Seed, settings, migrations | - | - | - | - |

How they interact: the API opens a transaction per request and calls the engine, the store or the accounts. The
engine writes the row, its event and the jobs of the actions in **one** transaction, so the `jobs` table is an
outbox. Queue workers claim those jobs and call the action runner, which loads the submission, performs the effect,
and writes an event in a transaction of its own; the queue then records the outcome in a third. Submissions pin the
form version and, through it, the workflow version current at creation. Deleting a user clears assignees through a
foreign key. The browsers see only what the API answers: a form hook sends what its rules let through and the server
judges it again; an embedded form talks to its page by `postMessage`; the tracker, the demo and the console read and
move submissions that other people move too; the editors put whole definitions into the store.

Behaviours that a test hardly reaches are listed, each at its line, under `hazards` in `PROJECT.json`.

## 2. Modules

| Module | Role |
|---|---|
| `JobContract` | abstract: what a caller of the queue may rely on |
| `JobQueue` | the queue with claims, locks as time, crashes, reclaims; implements `JobContract` |
| `JobQueueProofs` | theorems about `JobQueue` |
| `WorkflowRules` | the pure rules: guards, required fields, merging of patches |
| `SubmissionLog` | abstract: each operation is one indivisible step on row, timeline and outbox |
| `WorkflowEngine` | the operations as Postgres transactions with row locks; implements `SubmissionLog` |
| `WorkflowEngineProofs` | theorems about `WorkflowEngine`: its locks, the refinement, timelines and outbox, rows and what a respondent sees of them |
| `VersionLog` | abstract: immutable versions, added by a whole apply at once, with valid pins |
| `DefinitionStore` | applies as Postgres transactions, statement by statement; implements `VersionLog` |
| `DefinitionStoreProofs` | theorems about `DefinitionStore` |
| `Accounts` | users, sessions and reset tokens as Postgres transactions, statement by statement |
| `AccountsProofs` | theorems about `Accounts` |
| `Filters` | how the pages filter a list: what stays keeps its order |
| `FormRules` | the browser's rules of visibility and validation (`logic.ts`), and what the default inputs make of a change |
| `ServerRules` | the server's rules for the same (`definition/submission.py`, `values.py`) |
| `FormAnswers` | a respondent or a program fills in a form and tries to send it; what is rendered |
| `FormHook` | one mounted form: loads, calls in flight, answers, the effect that reports a submission |
| `EmbedPage` | composes a `FormHook` with the page around it: embed scripts, frames, messages |
| `FormProofs` | theorems about the rules on both sides, `FormAnswers`, `FormHook` and `EmbedPage` |
| `SubmissionDesk` | the server as the pages see it, with the other people who work on the same submissions |
| `StatusTracker` | the tracker over a `SubmissionDesk` |
| `DemoPage` | the demo with a tracker and a reviewer panel |
| `ConsolePage` | the console's page of one submission |
| `SubmissionViews` | composes desk, tracker, demo and console |
| `SubmissionViewsProofs` | theorems about `SubmissionViews` |
| `DataInduction` | induction over numbers, and what recursive functions over sequences compute: used by the proofs |
| `EditorRules` | the editors' validation and the server's, side by side |
| `FormEditor`, `WorkflowEditor` | the two reducers |
| `EditorPage` | composes them with panels, YAML pane, save, guard and other administrators |
| `EditorPageProofs` | theorems about `EditorPage` |
| `MCJobQueue`, `MCWorkflowEngine`, `MCDefinitionStore`, `MCAccounts`, `MCFormAnswers`, `MCEmbedPage`, `MCSubmissionViews`, `MCEditorPage` | the instances TLC checks |

Operators whose comment begins with "Mutant" are deliberately wrong variants of a definition, one or two per property.
They are not part of the specifications; `PROJECT.json` says which definition each replaces and which property then
fails, which is the evidence that the property says something about the code.

### JobQueue

| Model | Code |
|---|---|
| `status`, `attempts` | `jobs.status`, `jobs.attempts` |
| `dueIn`, `lockIn` | `jobs.run_at - now()`, `jobs.locked_until - now()`, so that time can pass without an absolute clock |
| `phase`, `held`, `seen`, `outcome` | where a worker is in `run_once`, the id and attempts of the `Job` it holds, what the handler returned |
| `Enqueue`, `Retry` | `Queue.enqueue`, at the commit of the caller's transaction; `Queue.retry` |
| `Claim` | the `UPDATE ... WHERE id = (SELECT ... FOR UPDATE SKIP LOCKED)` of `run_once`, with its WHERE and ORDER BY |
| `Execute` | `_execute`: the handler returns, raises, raises `PermanentError`, or there is no handler |
| `FinishDone`, `FinishFailed`, `FinishRetry` | the three branches of `_finish`, one transaction each, by id alone |
| `FailedHook` | the call after the commit of a final failure; it may raise |
| `FinishFails`, `Stop`, `Start` | the transaction of `_finish` raises; the process dies or cancels a worker; a process starts |
| `Tick` | time passes |

`delivered`, `reported`, `unreported`, `lost`, `faults` and `retries` are history: the actions never read the first
four, and the last two only bound a run.

`HandlersMayOverrun` decides whether time may pass a lock whose worker still holds the claim. `FALSE` is the
configuration the code is meant for: a lock is 5 minutes, and webhook and mail have timeouts far below. `TRUE` shows
what remains when that is not so. `Execute` is unrestricted in both.

### WorkflowEngine

| Model | Code |
|---|---|
| `state`, `fields`, `assignee`, `version` | columns of `submissions` |
| `timeline`, `outbox` | `submission_events` in order; the rows of `jobs` as submission, event and action |
| `lock`, `tx` | the row lock, and what an open transaction has written but not committed |
| `BeginCreate`, `BeginTransition`, `BeginUpdateFields`, `BeginAssign`, `BeginRunAssign` | `subs.create` with `on_created`, `Engine.transition`, `.update_fields`, `.assign`, `run_assign` |
| `Remark` | `Engine.comment`, `record_success`, `on_failed`: an event without a lock on the row |
| `Commit`, `Abort` | the end of `db.transaction()` |
| `DeleteUser`, `Publish` | `delete_user` with `ON DELETE SET NULL`; a new current version of the form |
| `ReadState`, `ReadHistory`, `Respond` | `public_status`, two statements with two snapshots |

Postgres runs at READ COMMITTED. A `Begin...` action is everything an operation does up to its commit: that is
one step because nobody else can change the row it has locked, and what it writes is invisible until `Commit`. What
may happen between the two is every other action, on this row as far as Postgres lets it through: an event without a
row lock has to wait for `FOR UPDATE` (its foreign key asks for a key lock) but not for the plain `UPDATE` of
`run_assign`; the deletion of a user waits for rows assigned to the user and for uncommitted assignments to the
user. A refused request raises before it writes, so it is no step; the refusals are `Refusal` in `WorkflowRules`.

Fields of a workflow are a function from the keys that are set to values; a patch maps keys to a value, to `Unset`
(null or a blank string) or to `Invalid`. Names, mails, comments and times are left out.

### DefinitionStore

| Model | Code |
|---|---|
| `current`, `versions` | the number behind `current_version_id`; the rows of `form_versions` and `workflow_versions`, known by slug and number |
| `lock` | row locks of `forms` and `workflows`, and inserted rows that are not committed |
| `tx[c]` | a transaction: its bundle and place in it (`bundle`, `at`, `repins`), the upsert under way (`item`), what its SELECT saw (`seen`), what it has written (`staged`) |
| `Begin` | `_validate_input`: workflows named by the forms are in the bundle or in the store |
| `LookWorkflow`, `LookForm`, `LookRepin` | `INSERT ... ON CONFLICT DO NOTHING`, and the snapshot of the `SELECT` after it |
| `Upsert` | that `SELECT ... FOR UPDATE` gets its lock; nothing if the version is the same, else the next version, or an error on `UNIQUE` |
| `ReadPin`, `List` | `_current_workflow_version`, `_dependent_forms`: plain reads |
| `Commit`, `Abort` | the end of the transaction; a dry run ends in `Abort` |

Two statements of one transaction see two snapshots at READ COMMITTED, and a lock that is waited for comes with a
recheck of the row. `Joined` says what that recheck does to `LEFT JOIN ... FOR UPDATE OF` the slug's row: the row is
read anew, the version joined to it is not, so the join finds no version and the code computes number 1. Whether
`UNIQUE` then fails the transaction is decided by `Taken`.

Documents are compared by their hash in the code and by equality here; titles and the text of a definition are
left out.

### Accounts

| Model | Code |
|---|---|
| `table`, `admins`, `old` | rows of `users`, `sessions` and `password_resets`, each with its place in the table; the users with the admin role; the rows past `expires_at` |
| `req[c]` | a transaction: its operation and arguments, its statement (`at`), the rows that statement has still to take (`todo`), what `_lock_admins` returned (`found`), the rows locked or deleted (`holds`), the key share and the row of its `INSERT` (`shared`, `added`) |
| `BeginUpdate`, `BeginDelete`, `BeginLogin`, `BeginAsk`, `BeginConfirm` | `update_user`, `delete_user`, `login`, `request_password_reset`, `reset_password`, up to their first statement that locks |
| `Start`, `Take` | a statement reads its snapshot; then takes its rows one by one, in the order of ids or places, waits for each, and looks at it again |
| `LockUser` | the `SELECT ... FOR UPDATE` of the user, and `_last_admin` after it |
| `Insert` | the new session or token; its foreign key waits for whoever has locked the user |
| `Commit`, `Raise`, `Abort` | the end of `db.transaction()`; the cascade of a deletion is two statements before it |
| `CreateUser`, `Logout`, `Expire` | `create_user`, `logout`, the clock |

`After` gives the order of statements of each operation. Names, addresses and hashes are left out; API keys and
submissions refer to organisations and users too, and the latter are in `WorkflowEngine`.

### FormRules, ServerRules, FormAnswers

| Model | Code |
|---|---|
| `Evaluate`, `conditionHolds`, `checkValue` | `evaluate`, `conditionHolds`, `checkValue` of `logic.ts`: fields in order, conditions over the fields that are shown and answered |
| `IsForm`, `IsField` | what `validate_form` lets through: keys, types, options, limits |
| `ServerEvaluate`, `holds`, `check_value` | `_evaluate` and `_holds` of `submission.py`, `check_value` of `values.py` |
| `Changed` | what each default input of `fields.tsx` passes to `onChange` |
| `data`, `errors` | `values` and `errors` of `useOpenForm` |
| `Type`, `setAny` | `onChange` of a rendered field; `setValue` of a page that uses the hook itself |
| `submit` | `submit` up to the answer: the problems, or one error of the whole form if sending fails |
| `rendered`, `renderField`, `Summary` | `OpenForm`: the fields that are shown, each with its error, and the summary of errors |

A value is tagged with its type (`Str`, `Num`, `Bool`, `List`, `Padded` for a text that has blanks around it, `None`);
of a text only its length, its formats and the patterns it matches are known (`Text`), as a constant both sides
share: how JavaScript and Python judge one *answer* is outside the model (which *patterns* either compiles is in `EditorRules`).

### FormHook, EmbedPage

| Model | Code |
|---|---|
| `hook` | the state of `useOpenForm` and its ref `inFlight` |
| `loads`, `calls` | `getPublicForm` and `submitPublic` calls under way, a load with the `cancelled` flag of its effect |
| `changeSlug`, `loadAnswered` | the effect of `useOpenForm.ts:51` and its cleanup; its two callbacks |
| `submitInvalid`, `submitValid`, `answered` | `submit`: up to its early return, up to its `await`, and after it |
| `accept`, `request` | the server stores a submission; what became of the call, as `client.ts` reports it |
| `Notify` | `OpenForm`'s effect on status and result, in the step that changes them |
| `runScript`, `DOMContentLoaded`, `addContainer`, `scanAgain`, `removeContainer` | `index.ts` and `init`; what parser and page do |
| `layout`, `report`, `deliver` | the form's height changes; `startResizeReporting`; `handleMessage` |
| `mail` | the messages of `postMessage`, which arrive in their order |

React renders and runs effects between two events, so that an action is a whole handler with the effects it leads to.
The form is a component of a page with its own slug and handlers ("own"), or the one of a frame ("embedded").

### SubmissionDesk, StatusTracker, DemoPage, ConsolePage, SubmissionViews

| Model | Code |
|---|---|
| `desk`, `OthersAct` | the committed submissions; what colleagues do to them, by the same `Refusal` of `WorkflowRules` as the engine |
| `tracker`, `polls` | the run of the effect with its state and timer; `getPublicStatus` calls under way |
| `readRow`, `readHistory` | the two statements of `public_status` |
| `answers`, `fails`, `tick`, `changeLink` | the branches of `tick`, its timer, a change of the properties |
| `View`, `visibleSteps`, `mark` | what `StatusTracker` renders |
| `panel`, `cookie`, `tasks` | `ReviewerPanel`'s state; whose session the browser holds; `load()` and `run()` calls, `pc` at their awaits |
| `setPersona`, `setValues`, `run`, `loggedIn`, `read`, `loaded`, `decide`, `moved` | the panel's handlers, and each part of `load` and `run` between two awaits |
| `page`, `fetches`, `calls` | the console's components with what they were mounted with; fetches of the query that still count; mutations |
| `focus`, `serverReads`, `fetched`, `fetchFails`, `Refresh` | the query: a refetch on focus; an invalidation cancels the fetch under way and starts another |
| `clickTransition`, `typeInDialog`, `confirm`, `cancel` | `TransitionBar`, `TransitionDialog` |
| `editField`, `changedFields`, `saveFields` | `WorkflowFieldsPanel`, which has the key `updatedAt` |
| `decides`, `callAnswered`, `callFails` | the server's decision, and the callbacks of a mutation |

`sure`, `seen`, `edited` (of a call) and `stamp` are history: they only say what was shown when something was sent.

### EditorRules, FormEditor, WorkflowEditor, EditorPage

| Model | Code |
|---|---|
| `formSchemaProblems`, `workflowSchemaProblems` | `schemas/*.schema.json`, which both sides ask first |
| `validateForm`, `formSemanticProblems`, `validateWorkflow`, `workflowSemanticProblems` | `admin/editors/shared/validation.ts`: its rules, and the schema's problems with them |
| `parse_form`, `validate_form`, `parse_workflow`, `validate_workflow` | `parse.py` and the files of that name in `src/openforms/definition/`: the schema, and only when it is satisfied the rules |
| `RefusedBy`, the `refusedBy` of an action | `actionProblems` of `validation.ts` and `validate_action`: which of the two finds fault with what an action does |
| one operator per reducer action, with its name | `formReducer.ts`, `workflowReducer.ts` |
| `editor`, `save`, `serverProblems` | the reducer's state; the mutation of `useDefinitionSave.ts` and its definition; the problems of the last save |
| `EditMeta`, `ListFields`, `InspectField`, `Outline`, `InspectState`, `InspectTransition`, `InspectWorkflowField`, `EditActions` | the panels, with what each lets the user do |
| `TypeText`, `SelectEntry`, `SelectProblem` | the YAML pane, the lists, a click on a problem |
| `onSave`, `Asked`, `Put`, `Refused`, `Fails`, `Saved` | `onSave`, `definitionExists`, `saveDefinition` and the callbacks |
| `Leave`, `Close` | `useUnsavedChangesGuard.ts`, and a failed fetch that unmounts the editor |
| `OthersCreate` | another administrator |

A key is a number, 0 the empty one. Of a title, label or role it is known whether it is fine, blank or empty (`Labels`), of a list of options
whether it has equal, unnamed or padded ones (`OptionLists`), of a pattern which of JavaScript's and RE2's engines compile it (`Patterns`). `IsForm` and `IsWorkflow` are what `normalizeForm` and
`normalizeWorkflow` make of anything that is opened or typed: the lists are lists of entries, whatever those refer to. `meanwhile`, `raced`, `mine` and `pasted` are
history; `edits` and `saves` bound a run.

## 3. What is checked

| Run | Question | Distinct states |
|---|---|---|
| `queue_claims` | Two workers, two jobs (one of an unknown kind), one fault and one retry at any point: is there ever more than one owner, an attempt too many, a running row nobody owns (`TableSound`, `ClaimExclusive`), a failure without its report? Does the queue implement `JobContract`, and does every job settle? | 107 thousand |
| `queue_overrun` | Handlers outlive their locks and workers overwrite each other: what remains? Done still means delivered, and the queue comes to rest. | 129 thousand |
| `queue_reported_doc` | `docs/workflows.md` says that every final failure adds an `action_failed` event. Violated: the hook runs after the commit and nothing repeats it. | violation |
| `engine_timeline` | Two concurrent requests, a remark, a deleted user, a republished form and a reader on one submission: do row, timeline, outbox and the reader's view agree, and do locks and transactions implement the atomic `SubmissionLog`? | 90 thousand |
| `store_versions` | Two overlapping applies, of single documents and of bundles, some of which lock two forms in opposite orders, each of which may abort: are numbers gapless, versions immutable and different from their predecessor, pins valid, and is a conflict the only reason to fail (`StoreSound`, `ImplementsVersions`)? Does every apply end? Is every form pinned to the current workflow as long as applies do not overlap? | 107 thousand |
| `store_pins_doc` | Are forms pinned to the current workflow when applies do overlap? Violated: the reads that decide a pin take no lock. | violation |
| `accounts` | Two overlapping requests, of every kind, on an administrator and a user created at any moment, with logouts, expiry and aborts: does an administrator remain whoever demotes or deletes whom, and does every session and token have its user (`AdminRemains`)? Does a new password leave a session behind (`SignsOut`)? When do requests wait for each other (`CirclesExplained`)? | 1.7 million |
| `form_answers` | Filling in every one of 91 small forms, by the inputs or by a program: do browser and server show, refuse and keep the same (`ServerAgrees`)? Are the errors next to the inputs those of the answers in them, and can they be put right (`GuidesRight`)? Does a hidden answer count anywhere (`HiddenIsInert`)? | 144 thousand |
| `form_embedded` | A form with another slug, resets, double submits and lost answers, alone and in a frame of the embed script: is one submission under way at a time, is what is confirmed what was accepted, does each submission become one event on its container? Is each frame in the end as high as its form needs, and no form left waiting (`FramesSettle`)? | 651 thousand |
| `submission_views` | A status page whose link changes, the demo and the console's page, while others move and edit the same submissions and requests fail: does any page show another submission, an older version, a step that was not taken? Does anything hang? Is a submission moved from a state its user was not shown? | 824 thousand |
| `editors` | Both editors, from new and stored definitions: do their rules block what the server accepts or let through what it refuses, beyond the differences listed below (`RulesAgree`)? Does renaming, deleting, moving or copying one entry change what another means (`EditsKeepMeaning`, `NothingDangles`)? What does a save leave behind (`SaveMatchesPage`, `NewNeverReplaces`)? | 459 thousand |
| `editors_slug_doc` | The panel says that a slug cannot be changed after the definition was created. Violated: the YAML pane changes it. | violation |

What `RulesAgree` excepts is listed rule by rule, and place by place, in two operators. Only the server refuses (`ServerOnly`): blank titles,
labels and roles (`validate_form.py:19, 37`, `validate_workflow.py:18, 33, 54, 70, 84`); options with a space at the end of the value or a blank
label (`common.py:90, 95`); patterns that JavaScript compiles and RE2 does not (`validate_form.py:86`); a condition `in` nothing, or whose only value
is null (`validate_form.py:95, 99`); in a workflow, equal options, and options of a field that is no choice (`common.py:80, 92`); an assignee who is no
address, a URL that only begins like one, and properties of another type of action (`validate_workflow.py:97-121`). Only the editor complains
about (`EditorOnly`): patterns that RE2 compiles and JavaScript does not, `(?i)abc` for one (`validation.ts:129`); an operator that is null next to a
proper one (`validation.ts:139`); a text of an action that only JavaScript trims to nothing (`validation.ts:203`); leaving a state whose key a terminal
one has too (`validation.ts:161`). While the schema is violated, the server has not looked at its own rules (`parse.py:190`). A rule
that is dropped, added or changed on one side breaks the property, as its mutant does.

Bounds, and why they are enough:

- Two workers and two jobs: a claim concerns one job and the order of two, and a lock can only be disputed between
  two. One job of an unknown kind gives the permanent failure its own path.
- `MaxAttempts` 2 or 3, backoff 2 and cap 3 (not a power of two times the base): first attempt, a retry whose delay is
  doubled past the cap, the last attempt. `LockDuration` 1 or 2 ticks. `Horizon` 1: two jobs overdue by more than
  that may be claimed in either order, which is a superset of what the code does.
- `MaxFaults` 1 and `MaxRetries` 1: each can strike at every point; `AttemptsBounded` and its proof cover more of them.
- One submission, since no operation reads two, with two clients, since a row is disputed between two. `MaxEvents` 4:
  created and three more, enough for a round trip of states or for a field set, unset and set again. Two versions of
  the workflow so that pinning can go wrong.
- One workflow and two forms: pins concern a form and its workflow, and two forms are what two bundles can lock in
  opposite orders. Two clients. `MaxVersions` 3: an apply only begins while every slug has room for one more version
  of every open apply, so that two overlap on a new slug and on one that has a version.
- Two users, of whom an administrator exists at first and the other is created, so that both, one or none but the last have the role, and two
  requests: a lock is disputed between two. Circles of any number of them are the subject of a proof (section 4). Two places for tokens, so that two requests for
  a reset overlap; one for sessions; `MaxExpired` 1.
- Forms of three fields: a controller of every type, a field that depends on it and one that depends on that, with
  every operator of a condition, so that hiding travels through a chain; and one whose condition looks ahead. Every
  answer can be given at any time and without a bound on how often.
- `MaxChanges` 2 and `MaxSent` 2: a slug left and returned to, a second submission after a first one was lost, reset or
  accepted. Two containers, two script tags, three heights of the form with the largest one a frame may have in the middle.
- Two submissions and three links, one of them with a wrong token; two changes of link, so that answers to two earlier
  links are on their way. In the demo and the console one move of the user's (two calls in the console), one change of
  persona, one focus, one failure and one act of a colleague: each can come between any two parts of the others, and
  the hazards listed take one of each.
- Two edits and two saves, three together (`MaxActs`), lists of at most four entries: what an edit means is checked in
  every state for *every* edit that could follow (`RenameKeepsMeaning`, `RemovalKeepsRest`, `ReorderKeepsMeaning` and
  `SelectionFollows` quantify over them), so that edits are looked at three deep.
- `CHECK_DEADLOCK FALSE` where the bounds end an instance: `MaxEvents`, `MaxVersions`, and the limits on what users of
  the web pages do. (A deadlock of Postgres locks is no deadlock of the model, where `Abort` is always possible; it is
  the subject of `AppliesEnd`.)
- Symmetry over clients only, where no liveness property is checked.

Fairness. `JobQueue!Fairness`: weak fairness for `Claim`, `Work` and `Start` of each worker and for `Tick`. `worker()`
is an endless loop that logs and goes on after an exception; every handler returns, as its calls have timeouts; a
server that stopped is started again by its supervisor; time passes. Faults, callers and administrators have no
fairness. The specification of the engine states none: nothing in it must happen.
`DefinitionStore!FairSpec`: strong fairness for the statements of an open transaction, as Postgres grants a row lock in
the order of waiting; weak fairness for the rollback of a transaction that raised (`db.transaction()`), and for the
abort of one transaction in a circle of waiting ones (`deadlock_timeout`). No fairness for `Abort` elsewhere.
`EmbedPage!HostFairness`: weak fairness for the answers of loads and submissions (a request is answered or fails), for
the ResizeObserver's callback and the delivery of messages. `SubmissionViews!ViewFairness`: weak fairness for polls that are
on their way and for the timer. Nobody has to fill in, submit, scan, move or edit. `FormAnswers` and `EditorPage` state none.

## 4. What is proved

For all values of the constants, under the named assumptions of the modules (`RulesAssumption`, `EngineAssumption`,
`StatesNamed`, `QueueAssumption`, `StoreAssumption`, `AccountsAssumption`, `TextAssumption`, `AnswersAssumption`, `HookAssumption`,
`OursAssumption`, `DeskAssumption`, `LinksAssumption`, `DemoAssumption`, `ViewedAssumption`, `FaultsAssumption`, `EditorAssumption`), which
TLC evaluates in every run. They say what the code guarantees of its parameters: a form is one that `validate_form` lets through (`IsForm`), an
answer is a JSON value (`IsValue`), the container, link or submission a page is about exists, an editor opens
a new definition or one that the server has accepted, bounds are numbers, and requests that are open at one time are finitely many.

DataInduction: TLAPS cannot instantiate an induction rule with an operator, so that an induction here is over a *set* of
numbers (`IntervalInduction`: 0 is in it, and with every number its successor up to n), and what a recursive function computes is
found by `Recursion`: a function that is defined at 0 and at every n from n - 1 exists and obeys its equations.
From these, `Kept` (a filter) is a sequence of the elements that stay, in their order (`KeptWalk`, `KeptElements`, `KeptIsSeq`);
what it keeps of a queue changes with what is appended (`KeptAppend`) and taken from its head (`KeptHead`).

JobQueueProofs:

- `TypeCorrect`: the types. With two facts about phases (`HoldsJob`) this is `TypeInv`, used by everything else. The
  delay of a retry is within the cap by `BackoffRange`, for every number of attempts.
- `DoneIsDelivered`, `FailuresAreReported`, `RunningIsOwned`: without any assumption on overruns.
- `ClaimsAreExclusive`, `AttemptsAreBounded`, `QueueImplementsContract`: assuming `~HandlersMayOverrun`. `ClaimExclusive` is
  inductive with the types, because it also says that the held row is running under a lock that has not
  expired, with the attempts the worker saw: only then no claim can take it away. The bound on attempts needs
  `BudgetInv`: what a pending or running row may still use, counting the claims that were lost.
- `TableIsSound`: types, owners and attempts together, which is what `queue_claims` checks as `TableSound`.

WorkflowEngineProofs:

- `SnapshotsHold`: the inductive invariant. Each open transaction holds the lock of its row, and what it staged is
  still what its operation would compute from the row as it is now. This is what the row lock is for.
- `EngineImplementsLog`: with it, `Commit` is the log's step of the same operation and every other step is one of
  the log's or changes nothing the log sees.
- `ExpectationsHold`: `expectedState` still holds at the commit.
- `TimelinesChain`, `OutboxIsExact`: proved for the steps of the log, and carried to the engine by the refinement.

The rows, in the same module:

- `RowsSound`: the types, and that a lock belongs to an open transaction and no timeline outgrows its bound.
- `TransitionsAreLegal`, `FieldsAreTold`: about the log. Each of its steps appends at most one event to each timeline, and
  that event says what the step did to the row (`RowEvent`, `Tells`): what a patch set and unset is what the merge
  changed, so that the fields of the row are what all events together tell, at the end and before each transition.
- `AssigneesAreTold`: about the engine, as the log knows no uncommitted assignment. `EngineInv` adds to the above that a
  row's assignee and an open assignment name users that are there, which is what a deletion has to wait for.
- `StatusIsConsistent`: `ViewInv` says that between the two reads the state already read is one that an event of the
  timeline reached. Events stay (`EventsStay`), so the history read afterwards has it.
- `RowsMatchTimelines`, `TimelinesAreLegal` and `ShownIsSo` put them together as `engine_timeline` checks them.

DefinitionStoreProofs, for any slugs, bundles and number of clients:

- `Invariance`: the inductive invariant `IInv`. Versions are numbered 1 to the current one; what a transaction has
  written is under its locks, so the current version below it cannot move; and no slug is written twice by
  one transaction, because the slugs of a bundle are distinct, the forms it re-pins are outside the bundle, and a form
  names one workflow. Without the last part a second write would overwrite a staged version, and
  the numbers would not follow. Pins that were read stay valid as versions are never removed.
- `TypeSafety`, `VersionsRun`, `WritesFollow` and their conjunction `StoreIsSound`, and `FailureIsConflict` follow from it;
  `StoreImplementsVersions` uses it to show that a commit appends one version to each list it touches and every other
  step changes none.

AccountsProofs, for any users, places and finite number of requests:

- The inductive invariant `Inv`: nobody takes or shares what another request holds (`Apart`), and so what a request found
  out under its locks stays true until it ends (`Guarded`). The administrators it counted still are: whoever
  would demote one of them has to lock that user first. Once its user is locked no row of that user comes back,
  since an `INSERT` needs a share of the user's row: what its deletions found is all there is (`Swept`).
- `OneRemains`: the request that takes a role away holds another administrator, who outlives it. `SessionsEnd`: the
  property `SignsOut`, at the commit of a new password, a reset and a deletion.
- `CirclesAreExplained`: administrators are locked in the order of their ids, before anything else, and a login or a request for
  a reset locks no user (`Lined`). In a circle without the reasons given nobody waits for the user it changes, since an
  administrator whom another holds it would have found and locked itself; so all are still locking administrators, each waits for
  a higher id than it has, and over finitely many requests (`IsFiniteSet(Clients)`) ids cannot climb for ever (`NoClimb`). The
  property had to be corrected for this proof. Its reason "a request holds somebody who is no longer one of the administrators it
  found" was at first confined to requests that still lock administrators; among three, two that are past that and
  each hold such a user can wait for each other's, which two clients never reach.

SubmissionViewsProofs, for any workflow, links, personas, roles and number of acts and failures:

- `PagesInvariant`: the inductive invariant `IInv`. The server's part is `DeskWell`, and that each step takes every row to a
  later one (`Later`): its history only grows, by the state the row has then, and its version with it. What a page has read is
  therefore the beginning of what the server knows. The tracker (`TrackerInv`): every poll belongs to a run of the effect, those of
  the present run are one poll or one timer (`Waits`), what a poll has read of the row is in the history it reads later
  (`PollSound`), and what is shown is one such story (`StatusSound`). The demo (`DemoInv`): each `load` or `run` is at one of its awaits with
  what it knew there, and only the newest `run` holds the panel (`RunsOnce`). The console (`ConsoleInv`): one fetch counts, what it read is no older
  than what a settled mutation was answered (`Sure`), edits are those of the fields that are shown (`Edits`), and a button waits only for a
  call that is under way (`Pending`). `Mounting` says that a page that is not mounted does nothing.
- `TrackerIsSound`, `PagesAreSound`, `OwnChangeIsSeen`, `OnlyEditsAreSaved` follow from it; `NoPageGoesBack` and `MovesAreAsShown` are about
  steps, and need `Later` and that no other step decides a call of the user's.

FormProofs, for any forms that `validate_form` lets through, any texts, answers, slugs, inputs, resets, scripts and containers:

- The rules: `EvaluateWalks` and `WalkFinds` say what the browser's walk over the fields finds of each field (`Finds`): whether it is
  shown, by its controller, which is an earlier field; what is kept of its answer; the one problem it has. `ValuesAgree` and
  `ConditionsAgree` compare the two ways of judging a value and a condition, type by type, and `AlikeStep` carries that along the walk of the
  server (`ServerSees`). `SentAgain`: judging what was kept once more keeps it, as every check accepts what it
  returned.
- `AnswersAreFit`: the inductive invariant `AnswersInv`. Answers are values; what the inputs produced fits them (`WidgetsFit`), as a toggled choice
  keeps the options' order and each once (`ToggleFits`); an error is that of the present answer, or the form's alone (`ErrorsNow`).
- `ServerAgreesAlways`, `GuidesRightAlways` follow. `HiddenIsInertAlways`: two sets of answers that differ in a hidden one are walked
  alike (`HiddenStays`).
- `FormInvariance`: the inductive invariant `IInv` of a form. The ref `inFlight` is set exactly while there is a call, so
  there is at most one (`Flight`); therefore a call that was accepted is the newest submission, and so is what is
  confirmed (`Numbers`); only the load of the present slug is not cancelled (`Wanted`); and as long as the slug stays
  there is one load, so the form never turns back to "loading" and `OpenForm`'s ref follows the status (`LoadsOnce`, `Told`).
- `EmbeddedIsForm`: the page around it refines the form; every other step leaves the form's variables alone.
- `OneSubmission`, `ConfirmsWhatWasAccepted`, `FormIsWantedAlways`: the three properties, of the page with its frames. The last adds `Sends`:
  answers are values, and what is sent is what the rules kept of them, so that `SentAgain` applies.
- `ScriptIsSound`: the form's types need bounds on what is told and confirmed (`Bounded`, `ToldTyped`). The page's invariant has the
  order in which things can be (`Order`): before the script has set itself up there is no frame and no container has gone; afterwards the
  document is ready and the containers of its HTML have frames; a script that ran early waits. `StartIs` computes what setting up
  leaves, `StartsAre` what all callbacks that waited leave together: the same as one of them.
- `EachIsOneEvent`: `Heard` says of a container that was not taken away that the events on it, followed by the submissions of its frame
  that are still in the mail, are those its form confirmed, and of one that never had a frame that nothing was confirmed there; of one that
  was taken away, only that its events are the first of those confirmed. `OneMore`: there is one listener, so one event.

EditorPageProofs, for any definitions, keys, texts and number of edits and saves:

- `SavesMatchPage`: the inductive invariant says that a save under way is of the definition that is shown, unless that was
  edited since (`Saving`), that a page without unsaved edits shows what it opened (`Clean`), and that every action of both
  reducers marks the editor as edited (`FormActionsMark`, `WorkflowActionsMark`).
- `NewReplacesOnlyByRace`: while a new definition is being put its slug is taken only if somebody took it since it was
  found free (`FreeSlug`).
- `EditorsAgreeWithServer`: the two sets of rules are compared for any definition of the reducers' shape, valid or not, and place by place
  (`FormRulesAgree`, `WorkflowRulesAgree`, and field by field and transition by transition `FieldsCompared`, `StepsCompared`): what Python's
  dictionary of keys seen so far finds is what TypeScript finds by position (`SeenIsKey`, `SeenKeys`), and where the schema finds nothing
  no key is empty (`AfterTheSchema`). The theorem is about the rules as they are, with the differences `ServerOnly` and `EditorOnly` list.
- That a page only shows definitions of that shape is the first part of a second invariant, `WellFormed`. For each action of the
  reducers a lemma says what it leaves (`...GoesOn`): the shape, the references, the place selected. `PanelsGoOn` says
  that the panels dispatch only such actions, `TextHolds` what a text may do, and the problems that can be clicked
  are places of the definition they were found in (`ProblemIsPlace`).
- `NothingComesToDangle`: with it, for every step. A workflow whose references are known is one until a text is typed (`Known`). For
  forms only the step is claimed: a text typed earlier may have left conditions that name nothing, and renaming a field that has a
  condition on itself leaves that condition behind (`RenamedOnItself`).
- `EditsMeanTheSame`: an edit is judged by positions, not keys. Renaming keeps the positions a key stands for, but for
  that of the renamed entry when another has its old key (`RenamedPositions`, `SharedPositions`), and removing shifts them
  (`RemovedPositions`). From that, edge by edge, what the diagram becomes (`RenameStateMeans`, `RemoveStateMeans`, `RenameFlowFieldMeans`,
  `RemoveFlowFieldMeans`) and what the conditions of a form do (`FormRenameMeans`, `FormRemovalMeans`, `MoveMeans`, `DuplicateMeans`). It speaks of
  definitions whose references are known, typed ones included. `RemovalKeepsRest` says what a removal takes along, transitions without a
  source among it (section 5).

Model-checked only: the liveness properties `JobsSettle`, `QueueDrains`, `AppliesEnd`, `FramesSettle` and `EndIsShown`, as
liveness under fairness is out of the prover's reach; and `AloneConsistent`, which holds only of applies that do not overlap. Every
other property of a passing run is stated by a theorem.

## 5. Findings

Three statements of the documentation or the user interface do not hold of the code; the violation runs show each, and
`findings` in `PROJECT.json` quotes the lines.

1. `docs/workflows.md:182`: a worker commits the final failure of a job and its process dies before the hook; no row is
   left that would make anybody add the `action_failed` event (`queue_reported_doc`).
2. `server/models/definitions.py:3`: a form is applied while its workflow is, each reads before the other commits, and the
   form stays pinned to the old version (`store_pins_doc`).
3. `admin/editors/form/FormMetaPanel.tsx:32`: the slug of a stored definition can be changed in the YAML pane, and
   saving then stores a second definition, or a version of another one, without the look-up that a new definition
   gets (`editors_slug_doc`).

Behaviour the models show that no statement contradicts, or that the properties except by name:

- A claim lost in the last attempt is reclaimed: the claim does not look at `max_attempts` (`AttemptsBounded` counts it).
- Re-pinning brings a definition back that was edited between the listing of dependent forms and their re-pinning.
- The docstring at `server/models/definitions.py:353` says that the row lock "makes concurrent applies of a new slug serialize instead
  of failing". Of three applies the third, having waited for two, computes number 1 again, which `UNIQUE` refuses; two never do,
  so that no run of two clients shows it. `FailureIsConflict` admits that failure and no other.
- `_lock_admins` locks "ordered by id so concurrent callers never deadlock". Two requests that change roles can still wait
  for each other, if a user gets or loses the role between the scan of one and its locks: the user being changed is
  locked last, whatever its id. So can requests of which one has taken a token or a session. Postgres ends one of them.
- Two requests for a reset at the same moment leave two valid tokens, as neither sees the other's.
- `SignsOut` is about the commit: a login that was checked before it and inserts its session after it is signed in.
- A submission whose answer is lost can be sent again and is then stored twice.
- The error summary keeps the error of a field that has been hidden since, with a link to an input that is not there.
- Edits made while a save succeeds are lost with the page (`LeavesKept` excepts them).
- A condition of a field on itself, which deleting one of two fields with the same key can make, is left behind by a rename of that field.
- Removing a state deletes the transitions that have no source, also those that have nothing to do with the state, unless another
  state has its key (`workflowReducer.ts:211`). The hint (`StateInspector.tsx:57`) only speaks of transitions into the state and of sources
  removed. A transition gets there by clearing its sources, which the editor reports as a problem and keeps.
- The differences between the two sets of rules of section 3. Of one the editor's hint tells (`ValidationEditor.tsx:35`: RE2).
- Choosing another operator for a condition whose list of values is empty leaves it without any (`ShowIfBuilder.tsx:25`), a problem on both sides.
- A frame does not shrink with its form: the hosted page reports `document.documentElement.scrollHeight`, which is never less than the frame's
  own height (`embed-bridge.ts:17`, `hosted.css:11`). `HeightsFollow` promises no more than that nothing stays cut off. With a
  higher and a lower report under way at once, which takes a form that grows and shrinks before the first message is
  handled, each report can undo the other, and the frame change between the two heights for as long as nothing else happens; neither cuts the form off.
- In the demo, a login of an earlier persona can come last, so that the panel acts as another persona than it shows.

## 6. Not modelled, and why

Parsing, canonical text, YAML and JSON layout, routing and serialisation, mail and webhook contents, the CLI and the
Python client: conversions and I/O without state of their own. Multi-tenancy: every statement is restricted to one
organisation, and the models are of one. Read-only listings (`available` in the engine, cursors, counts, the inbox).

API keys (created, revoked, looked up by one statement each), the first organisation and the rate limiter, synchronous
code of one process, share nothing with the models above. What actions carry, and which user
`least_loaded` chooses, are not modelled: of an action the queue has the job and the engine the event.

Of the web packages: styles and texts; the pages of users, keys and jobs, the version history, the diagram and the preview, which
read or write one thing; comments and the assignee picker of the console, which write one thing but refetch the submission through `refresh.ts` as
transitions and field edits do, so that their refetches can overlap those (`Refresh` is modelled with the latter two as callers); how
JavaScript and Python judge the text of one answer (its length, format or pattern), which the models take to be alike, also where the
two sides trim different blanks. Of single steps: a form field whose key is a property of every JavaScript object (`logic.ts:102`); a submission
accepted after the browser gave its request up; the check of a message's origin (`embed.ts:51`); that a caller of a fetch
that was cancelled waits for the one that replaces it; and of saving a form its workflow, whose slug both sides check and which the
store may not know (`definitions.py:449`). When the slug given to a mounted form
changes, the code keeps values, phase and result of the earlier one, and so does the model; the properties about confirmations
therefore speak of a slug that stays.

## 7. Plan

Done: the queue, the engine and the store with their abstract specifications and proofs; all invariants of the engine
proved; accounts with their proofs; the form with its rules, the hook and the embedding page, and the pages that watch and move
submissions, proved but for liveness; the editors with both sets of validation rules, the properties of `MCEditorPage.cfg` proved.

Next, in order:

1. `Delivery`: composes the queue, the runner and the engine's events. Every owed action is performed or reported; the
   success event follows the effect; what a repeated delivery may repeat; two `least_loaded` assignments.
2. `RateLimiter`; the cursors of listings over a changing table.
