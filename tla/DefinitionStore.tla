--------------------------- MODULE DefinitionStore --------------------------
(***************************************************************************)
(* Applying form and workflow definitions (server/models/definitions.py):  *)
(* the rows of forms and workflows with their versions, and the apply      *)
(* transactions that work on them at READ COMMITTED, statement by          *)
(* statement.                                                              *)
(*                                                                         *)
(* A version row never changes, so it is known by its slug and number.     *)
(* An upsert is                                                            *)
(*   Look     INSERT ... ON CONFLICT DO NOTHING, which waits for a         *)
(*            transaction that is inserting the slug, and the snapshot of  *)
(*            the SELECT after it;                                         *)
(*   Upsert   the row lock of that SELECT's FOR UPDATE, then the version.  *)
(* What the SELECT returns once it has the lock is Joined.                 *)
(*                                                                         *)
(* A dry run is an apply that ends in Abort.                               *)
(***************************************************************************)
EXTENDS Naturals, Sequences, FiniteSets

CONSTANTS
    Workflows,     \* slugs of workflows
    Forms,         \* slugs of forms: numbers, in the order of the slugs
    Docs,          \* documents: [slug, workflow, body], equal if their hashes are
    NoWorkflow,    \* the workflow of a document that names none
    Bundles,       \* what callers apply: [docs, flows], the first flows documents workflows
    Clients,       \* the transactions that may be open at once
    NoClient,
    MaxVersions    \* bound: versions of one slug

Slugs == Workflows \cup Forms

ASSUME StoreAssumption ==
    /\ Forms \subseteq Nat
    /\ Workflows \cap Forms = {}
    /\ NoWorkflow \notin Slugs
    /\ Docs \subseteq [slug : Slugs, workflow : Workflows \cup {NoWorkflow}, body : {d.body : d \in Docs}]
    /\ \A d \in Docs : d.slug \in Workflows => d.workflow = NoWorkflow
    /\ \A b \in Bundles :
        /\ b.docs \in Seq(Docs)
        /\ b.flows \in 0..Len(b.docs)
        /\ \A i \in DOMAIN b.docs : b.docs[i].slug \in Workflows <=> i <= b.flows
        /\ \A i, j \in DOMAIN b.docs : b.docs[i].slug = b.docs[j].slug => i = j
    /\ NoClient \notin Clients
    /\ MaxVersions \in Nat
    /\ IsFiniteSet(Clients)

VARIABLES
    current,       \* [Slugs -> Nat]: the number of current_version_id, 0 before the row exists
    versions,      \* [Slugs -> functions from numbers to [doc, pin]]
    lock,          \* [Slugs -> Clients \cup {NoClient}]: row locks and uncommitted rows
    tx             \* the transaction of each client

vars == <<current, versions, lock, tx>>

-----------------------------------------------------------------------------

NoPin == [workflow |-> NoWorkflow, n |-> 0]

(* step: idle, next (between two upserts), pinned (a form has read its     *)
(* pin), look (waiting for the row lock), failed (raised).                 *)
(* at: the document of the bundle that comes next, and after the last one, *)
(* counting on, the workflow whose dependent forms are listed next.        *)
(* repins: the dependents still to re-pin.  item: the upsert under way.    *)
(* seen: the version its SELECT saw.  staged: what is written, uncommitted.*)
NoTx == [step |-> "idle"]

Open(c) == tx[c].step # "idle"

(* The version of x that a statement of c sees now: its own, or committed. *)
Visible(c, x) ==
    IF x \in DOMAIN tx[c].staged THEN tx[c].staged[x].n ELSE current[x]

Row(c, x, n) ==
    IF x \in DOMAIN tx[c].staged /\ tx[c].staged[x].n = n
    THEN [doc |-> tx[c].staged[x].doc, pin |-> tx[c].staged[x].pin]
    ELSE versions[x][n]

Init ==
    /\ current = [x \in Slugs |-> 0]
    /\ versions = [x \in Slugs |-> << >>]
    /\ lock = [x \in Slugs |-> NoClient]
    /\ tx = [c \in Clients |-> NoTx]

(* validate_bundle: forms may name workflows of the bundle or of the store.*)
Known(b) ==
    {w \in Workflows : current[w] # 0} \cup {b.docs[i].slug : i \in 1..b.flows}
        \cup {NoWorkflow}

(* Bound: every open transaction can still add a version to every slug. *)
Room == \A x \in Slugs : current[x] + Cardinality({c \in Clients : Open(c)}) < MaxVersions

Begin(c) ==
    /\ ~Open(c)
    /\ Room
    /\ \E b \in Bundles :
        /\ \A i \in DOMAIN b.docs : b.docs[i].workflow \in Known(b)
        /\ tx' = [tx EXCEPT ![c] =
                    [step |-> "next", bundle |-> b, at |-> 1, repins |-> {},
                     item |-> NoTx, seen |-> 0, staged |-> << >>]]
    /\ UNCHANGED <<current, versions, lock>>

-----------------------------------------------------------------------------

Doc(c)   == tx[c].bundle.docs[tx[c].at]
Count(c) == Len(tx[c].bundle.docs)

AtWorkflow(c) == tx[c].step = "next" /\ tx[c].at <= tx[c].bundle.flows

AtForm(c) ==
    tx[c].step = "next" /\ tx[c].at > tx[c].bundle.flows /\ tx[c].at <= Count(c)

AtListing(c) ==
    /\ tx[c].step = "next"
    /\ tx[c].repins = {}
    /\ tx[c].at > Count(c)
    /\ tx[c].at <= Count(c) + tx[c].bundle.flows

Grantable(c, x) == lock[x] \in {NoClient, c}

(* The INSERT and the snapshot of the SELECT, for one document. *)
Look(c, item, at, repins) ==
    LET x == item.doc.slug
    IN  /\ current[x] # 0 \/ Grantable(c, x)
        /\ lock' = IF current[x] = 0 THEN [lock EXCEPT ![x] = c] ELSE lock
        /\ tx' = [tx EXCEPT ![c] = [@ EXCEPT
                    !.step = "look", !.at = at, !.repins = repins,
                    !.item = item, !.seen = Visible(c, x)]]
        /\ UNCHANGED <<current, versions>>

LookWorkflow(c) ==
    /\ AtWorkflow(c)
    /\ Look(c, [doc |-> Doc(c), pin |-> NoPin, repin |-> FALSE],
            tx[c].at + 1, tx[c].repins)

(* _current_workflow_version: a plain read, no lock. *)
ReadPin(c) ==
    /\ AtForm(c)
    /\ LET w   == Doc(c).workflow
           pin == IF w = NoWorkflow THEN NoPin ELSE [workflow |-> w, n |-> Visible(c, w)]
       IN  tx' = [tx EXCEPT ![c] = [@ EXCEPT
                    !.step = "pinned", !.at = tx[c].at + 1,
                    !.item = [doc |-> Doc(c), pin |-> pin, repin |-> FALSE]]]
    /\ UNCHANGED <<current, versions, lock>>

LookForm(c) ==
    /\ tx[c].step = "pinned"
    /\ Look(c, tx[c].item, tx[c].at, tx[c].repins)

(* Mutant: the definitions are taken from the first versions. *)
ListedFirst(c, f) == IF Visible(c, f) = 0 THEN 0 ELSE 1

(* The version whose definition _dependent_forms returns: the current one, *)
(* in a plain read.                                                        *)
Listed(c, f) == Visible(c, f)

Dependents(c, w) ==
    {f \in Forms \ {tx[c].bundle.docs[i].slug : i \in DOMAIN tx[c].bundle.docs} :
        Listed(c, f) # 0 /\ Row(c, f, Listed(c, f)).doc.workflow = w}

(* The forms to re-pin to the new version of a workflow that got one, with *)
(* the definitions they have now.                                          *)
List(c) ==
    /\ AtListing(c)
    /\ LET w == tx[c].bundle.docs[tx[c].at - Count(c)].slug
           forms == IF w \in DOMAIN tx[c].staged THEN Dependents(c, w) ELSE {}
       IN  tx' = [tx EXCEPT ![c] = [@ EXCEPT
                !.at = tx[c].at + 1,
                !.repins = {[doc |-> Row(c, f, Listed(c, f)).doc, repin |-> TRUE,
                             pin |-> [workflow |-> w, n |-> Visible(c, w)]] : f \in forms}]]
    /\ UNCHANGED <<current, versions, lock>>

LookRepin(c) ==
    /\ tx[c].step = "next"
    /\ \E item \in tx[c].repins :
        /\ \A other \in tx[c].repins : item.doc.slug <= other.doc.slug
        /\ Look(c, item, tx[c].at, tx[c].repins \ {item})

(* What SELECT ... LEFT JOIN ... FOR UPDATE returns when it has the lock:  *)
(* if the row was updated after the snapshot, Postgres rechecks the new    *)
(* row against the version row it had joined, which no longer fits, and    *)
(* the join is null-extended.                                              *)
Joined(c, x) == IF tx[c].seen = Visible(c, x) THEN tx[c].seen ELSE 0

(* Mutant: only re-pins are compared with the current version. *)
UnchangedRepin(c, x, n) ==
    n # 0 /\ tx[c].item.repin /\ Row(c, x, n).pin = tx[c].item.pin

Unchanged(c, x, n) ==
    n # 0 /\ Row(c, x, n) = [doc |-> tx[c].item.doc, pin |-> tx[c].item.pin]

(* Mutant: no UNIQUE constraint. *)
NeverTaken(x, n) == n = 0

(* UNIQUE (form_id, version), UNIQUE (workflow_id, version). *)
Taken(x, n) == n \in DOMAIN versions[x]

Upsert(c) ==
    /\ tx[c].step = "look"
    /\ LET item == tx[c].item
           x    == item.doc.slug
           n    == Joined(c, x)
           version == [n |-> n + 1, doc |-> item.doc, pin |-> item.pin, repin |-> item.repin]
           staged  == [y \in DOMAIN tx[c].staged \cup {x} |->
                        IF y = x THEN version ELSE tx[c].staged[y]]
       IN  /\ Grantable(c, x)
           /\ lock' = [lock EXCEPT ![x] = c]
           /\ \/ /\ Unchanged(c, x, n)
                 /\ tx' = [tx EXCEPT ![c] = [@ EXCEPT !.step = "next"]]
              \/ /\ ~Unchanged(c, x, n)
                 /\ Taken(x, n + 1)
                 /\ tx' = [tx EXCEPT ![c] = [@ EXCEPT !.step = "failed"]]
              \/ /\ ~Unchanged(c, x, n)
                 /\ ~Taken(x, n + 1)
                 /\ tx' = [tx EXCEPT ![c] = [@ EXCEPT !.step = "next", !.staged = staged]]
    /\ UNCHANGED <<current, versions>>

Release(c) ==
    /\ lock' = [x \in Slugs |-> IF lock[x] = c THEN NoClient ELSE lock[x]]
    /\ tx' = [tx EXCEPT ![c] = NoTx]

Commit(c) ==
    /\ tx[c].step = "next"
    /\ tx[c].repins = {}
    /\ tx[c].at > Count(c) + tx[c].bundle.flows
    /\ LET staged == tx[c].staged
       IN  /\ current' = [x \in Slugs |->
                            IF x \in DOMAIN staged THEN staged[x].n ELSE current[x]]
           /\ versions' = [x \in Slugs |->
                IF x \in DOMAIN staged
                THEN [n \in DOMAIN versions[x] \cup {staged[x].n} |->
                        IF n = staged[x].n
                        THEN [doc |-> staged[x].doc, pin |-> staged[x].pin]
                        ELSE versions[x][n]]
                ELSE versions[x]]
    /\ Release(c)

(* The transaction raised, was a dry run, or lost its connection. *)
Abort(c) ==
    /\ Open(c)
    /\ Release(c)
    /\ UNCHANGED <<current, versions>>

Work(c) ==
    \/ LookWorkflow(c) \/ ReadPin(c) \/ LookForm(c) \/ List(c) \/ LookRepin(c)
    \/ Upsert(c) \/ Commit(c)

Next == \E c \in Clients : Begin(c) \/ Work(c) \/ Abort(c)

Spec == Init /\ [][Next]_vars

-----------------------------------------------------------------------------
(* Fairness: a transaction goes on when it can and, because row locks are  *)
(* granted in the order of waiting, is not overtaken for ever; one that    *)
(* raised is rolled back; and Postgres ends one transaction of every       *)
(* circle of waiting ones (deadlock_timeout).                              *)

(* The slug whose row, or whose uncommitted insertion, c waits for. *)
Wanted(c) ==
    CASE tx[c].step = "look"   -> {tx[c].item.doc.slug}
      [] tx[c].step = "pinned" -> {tx[c].item.doc.slug} \cap {x \in Slugs : current[x] = 0}
      [] AtWorkflow(c)         -> {Doc(c).slug} \cap {x \in Slugs : current[x] = 0}
      [] OTHER                 -> {}

WaitsFor(c, d) == c # d /\ \E x \in Wanted(c) : lock[x] = d

Closed(S) == S # {} /\ \A c \in S : \E d \in S : WaitsFor(c, d)

InCircle(c) ==
    \E S \in SUBSET Clients :
        c \in S /\ Closed(S) /\ \A R \in SUBSET S : Closed(R) => R = S

(* Mutant: a refused definition leaves its transaction open. *)
RaiseNever(c) == FALSE

Raise(c) == tx[c].step = "failed" /\ Abort(c)

Detect(c) == InCircle(c) /\ Abort(c)

FairSpec ==
    /\ Spec
    /\ \A c \in Clients : SF_vars(Work(c)) /\ WF_vars(Raise(c)) /\ WF_vars(Detect(c))

-----------------------------------------------------------------------------
(* Properties. *)

(* Every variable has its type, locks are held by open transactions, and   *)
(* an open transaction holds the locks of what it has written.             *)
TypeOK ==
    /\ current \in [Slugs -> Nat]
    /\ lock \in [Slugs -> Clients \cup {NoClient}]
    /\ \A x \in Slugs : \A n \in DOMAIN versions[x] : versions[x][n].doc.slug = x
    /\ \A x \in Slugs : lock[x] # NoClient => Open(lock[x])
    /\ \A c \in Clients : Open(c) => \A x \in DOMAIN tx[c].staged : lock[x] = c

(* The numbers of a slug's versions are 1, 2, ..., and the last one is     *)
(* current (definitions.py:375, :411): whatever applies overlap, none      *)
(* overwrites, skips or loses a version.                                   *)
NumbersRun == \A x \in Slugs : DOMAIN versions[x] = 1..current[x]

(* The row lock of an upsert: until it commits, the version it has written *)
(* is the successor of the current one.                                    *)
StagedFollows ==
    \A c \in Clients : Open(c) =>
        \A x \in DOMAIN tx[c].staged : tx[c].staged[x].n = current[x] + 1

(* An apply raises for no other reason than that another one committed a   *)
(* version of the same slug while it waited for the row.                   *)
FailsOnlyOnConflict ==
    \A c \in Clients : tx[c].step = "failed" => tx[c].seen < current[tx[c].item.doc.slug]

(* The store is sound: locks, numbers and uncommitted versions fit, and    *)
(* nothing but a conflict makes an apply fail.                             *)
StoreSound == TypeOK /\ NumbersRun /\ StagedFollows /\ FailsOnlyOnConflict

(* The store keeps what VersionLog promises: versions are immutable, an    *)
(* unchanged definition creates none, a pin is a version of the workflow   *)
(* that the same form version names, and a bundle appears at once.         *)
Log == INSTANCE VersionLog WITH log <- versions

ImplementsVersions == Log!Spec

(* Every apply ends, also when bundles that lock the same slugs in         *)
(* opposite orders wait for each other.                                    *)
AppliesEnd == \A c \in Clients : Open(c) ~> ~Open(c)

(* "Applying a new workflow version re-pins every form that references it" *)
(* (definitions.py:3): the current version of a form pins the current      *)
(* version of its workflow.  True of applies that do not overlap only.     *)
PinsCurrent ==
    \A f \in {f \in Forms : current[f] # 0} :
        LET row == versions[f][current[f]]
        IN  row.doc.workflow # NoWorkflow => row.pin.n = current[row.doc.workflow]

(* The re-pinned version has the "same definition, new pin" (design spec,  *)
(* 5.5): re-pinning undoes nobody's edit.  True of applies that do not     *)
(* overlap only.                                                           *)
RepinKeepsDefinition ==
    \A c \in Clients : Open(c) =>
        \A x \in DOMAIN tx[c].staged :
            tx[c].staged[x].repin => tx[c].staged[x].doc = versions[x][current[x]].doc

(* What holds of the two when applies do not overlap: as long as no two    *)
(* transactions are open at once, every pin is current and no re-pinning   *)
(* undoes an edit.                                                         *)
NoOverlap == \A c, d \in Clients : Open(c) /\ Open(d) => c = d

AloneConsistent == []NoOverlap => [](PinsCurrent /\ RepinKeepsDefinition)
=============================================================================
