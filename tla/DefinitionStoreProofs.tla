----------------------- MODULE DefinitionStoreProofs ------------------------
(***************************************************************************)
(* Proofs about DefinitionStore, for any slugs, documents, bundles and     *)
(* clients.  Two things carry them: what a transaction has written is      *)
(* under its row locks (Written), and it upserts no slug twice, because a  *)
(* bundle names a slug once, the re-pinned forms are outside the bundle,   *)
(* and a form that was re-pinned names a workflow that was listed before   *)
(* (Processed, Pending).                                                   *)
(***************************************************************************)
EXTENDS DefinitionStore, SequenceTheorems, TLAPS

Pins   == [workflow : Workflows \cup {NoWorkflow}, n : Nat]
Rows   == [doc : Docs, pin : Pins]
Items  == [doc : Docs, pin : Pins, repin : BOOLEAN]
Writes == [n : Nat, doc : Docs, pin : Pins, repin : BOOLEAN]

Txs == [step : {"next", "pinned", "look", "failed"}, bundle : Bundles, at : Nat,
        repins : SUBSET Items, item : Items \cup {NoTx}, seen : Nat,
        staged : UNION {[S -> Writes] : S \in SUBSET Slugs}]

Typed ==
    /\ current \in [Slugs -> Nat]
    /\ versions \in [Slugs -> Seq(Rows)]
    /\ lock \in [Slugs -> Clients \cup {NoClient}]
    /\ tx \in [Clients -> Txs \cup {NoTx}]

(* What the transaction t sees of x. *)
Sees(t, x) == IF x \in DOMAIN t.staged THEN t.staged[x].n ELSE current[x]

(* The pin of v, a row, an item or a write, is one of the versions of the  *)
(* workflow it names, of which there are latest.                           *)
PinFits(v, latest) ==
    IF v.doc.workflow = NoWorkflow
    THEN v.pin = NoPin
    ELSE v.pin.workflow = v.doc.workflow /\ v.pin.n \in 1..latest

Stored ==
    \A x \in Slugs :
        /\ Len(versions[x]) = current[x]
        /\ \A n \in 1..current[x] :
            /\ versions[x][n].doc.slug = x
            /\ PinFits(versions[x][n], current[versions[x][n].doc.workflow])

Written(c, t) ==
    \A x \in DOMAIN t.staged :
        /\ lock[x] = c
        /\ t.staged[x].n = current[x] + 1
        /\ t.staged[x].doc.slug = x
        /\ PinFits(t.staged[x], Sees(t, t.staged[x].doc.workflow))
        /\ current[x] # 0 =>
            [doc |-> t.staged[x].doc, pin |-> t.staged[x].pin] # versions[x][current[x]]

Named(t) == {t.bundle.docs[i].slug : i \in DOMAIN t.bundle.docs}

(* t is past listing the dependents of w, or, with exactly, has just       *)
(* listed them.                                                            *)
Past(t, w) ==
    \E j \in 1..t.bundle.flows :
        Len(t.bundle.docs) + j < t.at /\ w = t.bundle.docs[j].slug

Last(t, w) ==
    \E j \in 1..t.bundle.flows :
        Len(t.bundle.docs) + j + 1 = t.at /\ w = t.bundle.docs[j].slug

Processed(t) ==
    /\ t.at \in 1..(Len(t.bundle.docs) + t.bundle.flows + 1)
    /\ \A x \in DOMAIN t.staged :
        \/ \E i \in DOMAIN t.bundle.docs : i < t.at /\ t.bundle.docs[i].slug = x
        \/ x \notin Named(t) /\ Past(t, t.staged[x].doc.workflow)

Repin(t, item) ==
    /\ item.repin
    /\ item.doc.slug \notin Named(t)
    /\ Last(t, item.doc.workflow)

Fresh(t, item) ==
    /\ item.doc.slug \notin DOMAIN t.staged
    /\ PinFits(item, Sees(t, item.doc.workflow))

Pending(t) ==
    \A item \in t.repins :
        /\ Repin(t, item) /\ Fresh(t, item)
        /\ \A other \in t.repins : other.doc.slug = item.doc.slug => other = item

Chosen(t) ==
    t.step \in {"pinned", "look"} =>
        /\ t.item \in Items
        /\ Fresh(t, t.item)
        /\ IF t.item.repin
           THEN Repin(t, t.item) /\ \A other \in t.repins : other.doc.slug # t.item.doc.slug
           ELSE t.at - 1 \in DOMAIN t.bundle.docs /\ t.item.doc = t.bundle.docs[t.at - 1]
        /\ t.step = "look" => t.seen <= current[t.item.doc.slug]
        /\ t.step = "pinned" => ~t.item.repin /\ t.at - 1 > t.bundle.flows

Raised(t) ==
    t.step = "failed" => t.item \in Items /\ t.seen < current[t.item.doc.slug]

(* The workflows that a form of the bundle names exist when it is reached. *)
Resolved(t) ==
    \A i \in DOMAIN t.bundle.docs :
        LET w == t.bundle.docs[i].workflow
        IN  \/ w = NoWorkflow
            \/ current[w] # 0
            \/ \E j \in 1..t.bundle.flows : t.bundle.docs[j].slug = w

Reached(t) ==
    \A i \in 1..t.bundle.flows :
        \/ i >= t.at
        \/ t.step \in {"look", "failed"} /\ ~t.item.repin /\ i = t.at - 1
        \/ Sees(t, t.bundle.docs[i].slug) # 0

Fits(c, t) ==
    /\ Written(c, t)
    /\ Processed(t)
    /\ Pending(t)
    /\ Chosen(t)
    /\ Raised(t)
    /\ Resolved(t)
    /\ Reached(t)

IInv ==
    /\ Typed
    /\ Stored
    /\ \A x \in Slugs : lock[x] # NoClient => Open(lock[x])
    /\ \A c \in Clients : Open(c) => Fits(c, tx[c])

-----------------------------------------------------------------------------

LEMMA Basics ==
    /\ NoClient \notin Clients
    /\ NoWorkflow \notin Slugs
    /\ \A d \in Docs : d.slug \in Slugs /\ d.workflow \in Workflows \cup {NoWorkflow}
    /\ \A d \in Docs : d.slug \in Workflows => d.workflow = NoWorkflow
    /\ \A f \in Forms : f \in Nat /\ f \notin Workflows
BY StoreAssumption DEF StoreAssumption, Slugs

LEMMA BundleFacts ==
    ASSUME NEW b \in Bundles
    PROVE  /\ Len(b.docs) \in Nat /\ DOMAIN b.docs = 1..Len(b.docs)
           /\ b.flows \in 0..Len(b.docs)
           /\ \A i \in DOMAIN b.docs : b.docs[i] \in Docs
           /\ \A i \in DOMAIN b.docs : b.docs[i].slug \in Workflows <=> i <= b.flows
           /\ \A i, j \in DOMAIN b.docs : b.docs[i].slug = b.docs[j].slug => i = j
<1>1. b.docs \in Seq(Docs)
    BY StoreAssumption DEF StoreAssumption
<1>2. Len(b.docs) \in Nat /\ DOMAIN b.docs = 1..Len(b.docs)
    BY <1>1
<1>3. \A i \in DOMAIN b.docs : b.docs[i] \in Docs
    BY <1>1
<1>4. QED
    BY <1>2, <1>3, StoreAssumption DEF StoreAssumption

(* An open transaction has all its fields. *)
LEMMA TxFacts ==
    ASSUME NEW t \in Txs
    PROVE  /\ t.step \in {"next", "pinned", "look", "failed"}
           /\ t.bundle \in Bundles /\ t.at \in Nat /\ t.seen \in Nat
           /\ t.repins \in SUBSET Items
           /\ DOMAIN t.staged \subseteq Slugs
           /\ \A x \in DOMAIN t.staged : t.staged[x] \in Writes
           /\ t.staged \in [DOMAIN t.staged -> Writes]
<1>1. PICK S \in SUBSET Slugs : t.staged \in [S -> Writes]
    BY DEF Txs
<1>2. QED BY <1>1 DEF Txs

LEMMA OpenTx ==
    ASSUME Typed, NEW c \in Clients, Open(c)
    PROVE  tx[c] \in Txs
BY DEF Typed, Open, NoTx

(* A transaction fits a store that has not changed, while it keeps its     *)
(* locks.                                                                  *)
LEMMA StillFits ==
    ASSUME NEW d, NEW t, Fits(d, t), UNCHANGED <<current, versions>>,
           \A x \in DOMAIN t.staged : lock'[x] = lock[x]
    PROVE  Fits(d, t)'
<1>1. Written(d, t)'
    <2>1. Written(d, t)
        BY DEF Fits
    <2>2. QED BY <2>1 DEF Written, Sees, PinFits
<1>2. Processed(t)' /\ Resolved(t)' /\ Raised(t)' /\ Reached(t)'
    <2>1. Processed(t) /\ Resolved(t) /\ Raised(t) /\ Reached(t)
        BY DEF Fits
    <2>2. QED BY <2>1 DEF Processed, Resolved, Raised, Reached, Sees, Named, Past
<1>3. Pending(t)' /\ Chosen(t)'
    <2>1. Pending(t) /\ Chosen(t)
        BY DEF Fits
    <2>2. Pending(t)'
        BY <2>1, Zenon DEF Pending, Fresh, Repin, Sees, PinFits, Named, Last
    <2>3. Chosen(t)'
        BY <2>1, Zenon DEF Chosen, Fresh, Repin, Sees, PinFits, Named, Last
    <2>4. QED BY <2>2, <2>3
<1>4. QED BY <1>1, <1>2, <1>3 DEF Fits

(* A step of c that takes no lock from another leaves the others alone. *)
LEMMA OthersKept ==
    ASSUME IInv, NEW c \in Clients, NEW t, UNCHANGED <<current, versions>>,
           tx' = [tx EXCEPT ![c] = t],
           \A x \in Slugs : lock'[x] = lock[x] \/ lock[x] \in {NoClient, c},
           NEW d \in Clients, d # c, Open(d)'
    PROVE  Fits(d, tx[d])'
<1>1. tx'[d] = tx[d] /\ Open(d)
    BY DEF IInv, Typed, Open
<1>2. tx[d] \in Txs /\ Fits(d, tx[d])
    BY <1>1, OpenTx DEF IInv
<1>3. \A x \in DOMAIN tx[d].staged : lock'[x] = lock[x]
    <2>1. \A x \in DOMAIN tx[d].staged : lock[x] = d
        BY <1>2 DEF Fits, Written
    <2>2. DOMAIN tx[d].staged \subseteq Slugs
        BY <1>2, TxFacts
    <2>3. QED BY <2>1, <2>2, Basics
<1>4. PICK t2 : t2 = tx[d]
    OBVIOUS
<1>5. Fits(d, t2)'
    BY <1>2, <1>3, <1>4, StillFits
<1>6. QED BY <1>1, <1>4, <1>5

(* A step of c that keeps the invariant of c keeps that of the store. *)
LEMMA OwnStep ==
    ASSUME IInv, NEW c \in Clients, NEW t \in Txs, UNCHANGED <<current, versions>>,
           tx' = [tx EXCEPT ![c] = t],
           lock' \in [Slugs -> Clients \cup {NoClient}],
           \A x \in Slugs : lock'[x] = lock[x] \/ (lock[x] \in {NoClient, c} /\ lock'[x] = c),
           Fits(c, t)'
    PROVE  IInv'
<1>1. Typed'
    BY DEF IInv, Typed
<1>2. Stored'
    BY DEF IInv, Stored, PinFits
<1>3. tx'[c] = t /\ t.step # "idle"
    BY TxFacts DEF IInv, Typed
<1>4. (\A x \in Slugs : lock[x] # NoClient => Open(lock[x]))'
    BY <1>3 DEF IInv, Typed, Open
<1>5. ASSUME NEW d \in Clients, Open(d)' PROVE Fits(d, tx[d])'
    <2>1. CASE d = c
        BY <1>3, <2>1
    <2>2. CASE d # c
        BY <1>5, <2>2, OthersKept
    <2>3. QED BY <2>1, <2>2
<1>6. QED BY <1>1, <1>2, <1>4, <1>5 DEF IInv

(* A step of c that writes nothing: what was processed and written stays. *)
LEMMA Advance ==
    ASSUME IInv, NEW c \in Clients, Open(c), NEW t \in Txs,
           UNCHANGED <<current, versions>>,
           tx' = [tx EXCEPT ![c] = t],
           lock' \in [Slugs -> Clients \cup {NoClient}],
           \A x \in Slugs : lock'[x] = lock[x] \/ (lock[x] \in {NoClient, c} /\ lock'[x] = c),
           t.bundle = tx[c].bundle, t.staged = tx[c].staged, t.at >= tx[c].at,
           t.at \in 1..(Len(t.bundle.docs) + t.bundle.flows + 1),
           Pending(t), Chosen(t), Raised(t), Reached(t)
    PROVE  IInv'
<1>1. tx[c] \in Txs /\ Fits(c, tx[c])
    BY OpenTx DEF IInv
<1>2. \A x \in DOMAIN t.staged : lock'[x] = c
    <2>1. \A x \in DOMAIN t.staged : lock[x] = c
        BY <1>1 DEF Fits, Written
    <2>2. DOMAIN t.staged \subseteq Slugs
        BY TxFacts
    <2>3. QED BY <2>1, <2>2
<1>3. Written(c, t)'
    BY <1>1, <1>2 DEF Fits, Written, Sees, PinFits
<1>4. Processed(t)
    <2>1. ASSUME NEW x \in DOMAIN t.staged
          PROVE  \/ \E i \in DOMAIN t.bundle.docs : i < t.at /\ t.bundle.docs[i].slug = x
                 \/ x \notin Named(t) /\ Past(t, t.staged[x].doc.workflow)
        <3>1. t.bundle \in Bundles /\ t.at \in Nat /\ tx[c].at \in Nat
            BY <1>1, TxFacts
        <3>2. CASE \E i \in DOMAIN t.bundle.docs : i < tx[c].at /\ t.bundle.docs[i].slug = x
            BY <3>1, <3>2, BundleFacts
        <3>3. CASE x \notin Named(t) /\ Past(tx[c], t.staged[x].doc.workflow)
            BY <3>1, <3>3, BundleFacts DEF Past
        <3>4. QED BY <1>1, <3>2, <3>3 DEF Fits, Processed, Named
    <2>2. QED BY <2>1 DEF Processed
<1>5. Resolved(t)
    BY <1>1 DEF Fits, Resolved
<1>6. Processed(t)' /\ Pending(t)' /\ Resolved(t)'
    BY <1>4, <1>5
    DEF Processed, Pending, Resolved, Fresh, Repin, Sees, PinFits, Named, Past, Last
<1>7. Chosen(t)' /\ Raised(t)' /\ Reached(t)'
    BY Zenon DEF Chosen, Raised, Reached, Fresh, Repin, Sees, PinFits, Named, Last
<1>8. Fits(c, t)'
    BY <1>3, <1>6, <1>7 DEF Fits
<1>9. QED BY <1>8, OwnStep

-----------------------------------------------------------------------------

LEMMA InitSound == Init => IInv
<1> SUFFICES ASSUME Init PROVE IInv
    OBVIOUS
<1>1. Typed
    BY DEF Init, Typed
<1>2. Stored
    BY DEF Init, Stored
<1>3. \A c \in Clients : ~Open(c)
    BY DEF Init, Open, NoTx
<1>4. QED BY <1>1, <1>2, <1>3 DEF IInv, Init

LEMMA BeginKeeps ==
    ASSUME IInv, NEW c \in Clients, Begin(c)
    PROVE  IInv'
<1>1. PICK b \in Bundles :
        /\ \A i \in DOMAIN b.docs : b.docs[i].workflow \in Known(b)
        /\ tx' = [tx EXCEPT ![c] =
                    [step |-> "next", bundle |-> b, at |-> 1, repins |-> {},
                     item |-> NoTx, seen |-> 0, staged |-> << >>]]
    BY DEF Begin
<1>2. PICK t : t = [step |-> "next", bundle |-> b, at |-> 1, repins |-> {},
                    item |-> NoTx, seen |-> 0, staged |-> << >>]
    OBVIOUS
<1>3. << >> \in [{} -> Writes] /\ DOMAIN t.staged = {}
    BY <1>2
<1>4. t \in Txs
    <2>1. << >> \in UNION {[S -> Writes] : S \in SUBSET Slugs}
        BY <1>3
    <2>2. QED BY <1>2, <2>1 DEF Txs
<1>5. UNCHANGED <<current, versions, lock>> /\ tx' = [tx EXCEPT ![c] = t]
    BY <1>1, <1>2 DEF Begin
<1>6. Written(c, t)' /\ Chosen(t)' /\ Raised(t)' /\ Pending(t)'
    BY <1>2, <1>3 DEF Written, Chosen, Raised, Pending
<1>7. Processed(t)'
    BY <1>2, <1>3, BundleFacts DEF Processed
<1>8. Resolved(t)'
    BY <1>1, <1>2, <1>5 DEF Resolved, Known
<1>9. Reached(t)'
    BY <1>2, BundleFacts DEF Reached
<1>10. Fits(c, t)'
    BY <1>6, <1>7, <1>8, <1>9 DEF Fits
<1>11. QED BY <1>4, <1>5, <1>10, OwnStep DEF IInv, Typed

(* Looking up the row of a slug that the transaction has not upserted.     *)
LEMMA LookKeeps ==
    ASSUME IInv, NEW c \in Clients, tx[c] \in Txs, Fits(c, tx[c]),
           tx[c].step \in {"next", "pinned"},
           NEW item \in Items, NEW at \in Nat, NEW repins \in SUBSET tx[c].repins,
           Look(c, item, at, repins), Fresh(tx[c], item),
           \/ at = tx[c].at
           \/ at = tx[c].at + 1 /\ repins = {} /\ ~item.repin,
           IF item.repin
           THEN Repin(tx[c], item) /\ \A other \in repins : other.doc.slug # item.doc.slug
           ELSE at - 1 \in DOMAIN tx[c].bundle.docs /\ item.doc = tx[c].bundle.docs[at - 1]
    PROVE  IInv'
<1> DEFINE x == item.doc.slug
<1>1. PICK t : t = [tx[c] EXCEPT !.step = "look", !.at = at, !.repins = repins,
                                 !.item = item, !.seen = Visible(c, x)]
    OBVIOUS
<1>2. x \in Slugs /\ Visible(c, x) = current[x] /\ current[x] \in Nat
    BY Basics DEF Items, Fresh, Visible, IInv, Typed
<1>3. /\ t.step = "look" /\ t.bundle = tx[c].bundle /\ t.at = at /\ t.repins = repins
      /\ t.item = item /\ t.seen = current[x] /\ t.staged = tx[c].staged
    BY <1>1, <1>2 DEF Txs
<1>4. t \in Txs
    BY <1>1, <1>2 DEF Txs
<1>5. t.bundle \in Bundles /\ Len(t.bundle.docs) \in Nat /\ t.bundle.flows \in Nat
    BY <1>4, TxFacts, BundleFacts
<1>6. t.at \in 1..(Len(t.bundle.docs) + t.bundle.flows + 1)
    BY <1>3, <1>5, BundleFacts DEF Fits, Processed
<1>7. Pending(t)
    <2>1. ASSUME NEW r \in repins PROVE Repin(t, r) /\ Fresh(t, r)
        <3>1. Repin(tx[c], r) /\ Fresh(tx[c], r) /\ at = tx[c].at
            BY DEF Fits, Pending
        <3>2. Repin(t, r)
            BY <1>3, <3>1 DEF Repin, Named, Last
        <3>3. Fresh(t, r)
            BY <1>3, <3>1 DEF Fresh, Sees
        <3>4. QED BY <3>2, <3>3
    <2>2. \A r, other \in repins : other.doc.slug = r.doc.slug => other = r
        BY DEF Fits, Pending
    <2>3. QED BY <1>3, <2>1, <2>2 DEF Pending
<1>8. Chosen(t)
    BY <1>2, <1>3 DEF Chosen, Repin, Fresh, Named, Last, Sees
<1>9. Raised(t)
    BY <1>3 DEF Raised
<1>10. Reached(t)
    <2>1. ASSUME NEW i \in 1..t.bundle.flows
          PROVE  i >= at \/ (~item.repin /\ i = at - 1) \/ Sees(t, t.bundle.docs[i].slug) # 0
        <3>1. i >= tx[c].at \/ Sees(tx[c], t.bundle.docs[i].slug) # 0
            BY <1>3, <2>1 DEF Fits, Reached
        <3>2. Sees(tx[c], t.bundle.docs[i].slug) = Sees(t, t.bundle.docs[i].slug)
            BY <1>3 DEF Sees
        <3>3. i \in Nat /\ tx[c].at \in Nat
            BY <1>5, TxFacts
        <3>4. QED BY <3>1, <3>2, <3>3
    <2>2. QED BY <1>3, <2>1 DEF Reached
<1>11. Open(c)
    BY DEF Open
<1>12. /\ UNCHANGED <<current, versions>>
       /\ tx' = [tx EXCEPT ![c] = t]
       /\ lock' \in [Slugs -> Clients \cup {NoClient}]
       /\ \A y \in Slugs : lock'[y] = lock[y] \/ (lock[y] \in {NoClient, c} /\ lock'[y] = c)
    BY <1>1, <1>2 DEF Look, Grantable, IInv, Typed
<1>13. t.at >= tx[c].at
    BY <1>3, <1>4, TxFacts
<1>14. QED
    BY <1>3, <1>4, <1>6, <1>7, <1>8, <1>9, <1>10, <1>11, <1>12, <1>13, Advance

LEMMA LookWorkflowKeeps ==
    ASSUME IInv, NEW c \in Clients, LookWorkflow(c)
    PROVE  IInv'
<1>1. tx[c] \in Txs /\ Fits(c, tx[c])
    BY OpenTx DEF LookWorkflow, AtWorkflow, Open, IInv
<1> DEFINE t == tx[c]
           item == [doc |-> Doc(c), pin |-> NoPin, repin |-> FALSE]
<1>2. t.bundle \in Bundles /\ t.at \in 1..t.bundle.flows /\ t.at \in DOMAIN t.bundle.docs
    <2>1. t.bundle \in Bundles /\ t.at \in Nat
        BY <1>1, TxFacts
    <2>2. t.at >= 1
        BY <1>1, <2>1, BundleFacts DEF Fits, Processed
    <2>3. t.at <= t.bundle.flows
        BY DEF LookWorkflow, AtWorkflow
    <2>4. QED BY <2>1, <2>2, <2>3, BundleFacts
<1>3. /\ Doc(c) = t.bundle.docs[t.at] /\ Doc(c) \in Docs
      /\ Doc(c).slug \in Workflows /\ Doc(c).workflow = NoWorkflow
    BY <1>2, BundleFacts, Basics DEF Doc
<1>4. item \in Items
    BY <1>3 DEF Items, NoPin, Pins
<1>5. t.repins = {}
    BY <1>1, <1>2, BundleFacts DEF Fits, Pending, Repin, Last
<1>6. Fresh(t, item)
    <2>1. ASSUME Doc(c).slug \in DOMAIN t.staged PROVE FALSE
        <3>1. \A i \in DOMAIN t.bundle.docs : i < t.at => t.bundle.docs[i].slug # Doc(c).slug
            BY <1>2, <1>3, BundleFacts
        <3>2. Doc(c).slug \in Named(t)
            BY <1>2, <1>3 DEF Named
        <3>3. QED BY <1>1, <2>1, <3>1, <3>2 DEF Fits, Processed
    <2>2. QED BY <1>3, <2>1 DEF Fresh, PinFits
<1>7. t.at \in Nat /\ t.at + 1 \in Nat
    BY <1>1, TxFacts
<1>8. (t.at + 1) - 1 \in DOMAIN t.bundle.docs /\ item.doc = t.bundle.docs[(t.at + 1) - 1]
    BY <1>2, <1>3, <1>7
<1>9. Look(c, item, t.at + 1, t.repins) /\ t.step \in {"next", "pinned"} /\ ~item.repin
    BY DEF LookWorkflow, AtWorkflow
<1>10. QED
    <2> HIDE DEF item
    <2>1. QED BY <1>1, <1>4, <1>5, <1>6, <1>7, <1>8, <1>9, LookKeeps

LEMMA LookFormKeeps ==
    ASSUME IInv, NEW c \in Clients, LookForm(c)
    PROVE  IInv'
<1>1. tx[c] \in Txs /\ Fits(c, tx[c])
    BY OpenTx DEF LookForm, Open, IInv
<1>2. /\ tx[c].item \in Items /\ Fresh(tx[c], tx[c].item)
      /\ tx[c].at - 1 \in DOMAIN tx[c].bundle.docs
      /\ tx[c].item.doc = tx[c].bundle.docs[tx[c].at - 1]
      /\ ~tx[c].item.repin
    BY <1>1 DEF LookForm, Fits, Chosen
<1>3. tx[c].at \in Nat /\ tx[c].step \in {"next", "pinned"}
    BY <1>1, TxFacts DEF LookForm
<1>4. Look(c, tx[c].item, tx[c].at, tx[c].repins)
    BY DEF LookForm
<1>5. QED BY <1>1, <1>2, <1>3, <1>4, LookKeeps

LEMMA LookRepinKeeps ==
    ASSUME IInv, NEW c \in Clients, LookRepin(c)
    PROVE  IInv'
<1>1. tx[c] \in Txs /\ Fits(c, tx[c])
    BY OpenTx DEF LookRepin, Open, IInv
<1>2. PICK item \in tx[c].repins : Look(c, item, tx[c].at, tx[c].repins \ {item})
    BY DEF LookRepin
<1>3. item \in Items /\ Repin(tx[c], item) /\ Fresh(tx[c], item)
    BY <1>1, TxFacts DEF Fits, Pending
<1>4. \A other \in tx[c].repins \ {item} : other.doc.slug # item.doc.slug
    BY <1>1 DEF Fits, Pending
<1>5. tx[c].at \in Nat /\ tx[c].step \in {"next", "pinned"} /\ item.repin
    BY <1>1, <1>3, TxFacts DEF LookRepin, Repin
<1>6. QED BY <1>1, <1>2, <1>3, <1>4, <1>5, LookKeeps

(* An open transaction sees numbers, and what exists it sees. *)
LEMMA SeesNumber ==
    ASSUME IInv, NEW c \in Clients, tx[c] \in Txs, Fits(c, tx[c]), NEW x \in Slugs
    PROVE  /\ Visible(c, x) \in Nat
           /\ current[x] # 0 \/ x \in DOMAIN tx[c].staged => Visible(c, x) # 0
<1>1. current[x] \in Nat
    BY DEF IInv, Typed
<1>2. CASE x \in DOMAIN tx[c].staged
    <2>1. tx[c].staged[x].n = current[x] + 1
        BY <1>2 DEF Fits, Written
    <2>2. tx[c].staged[x].n \in Nat /\ tx[c].staged[x].n # 0
        BY <1>1, <2>1
    <2>3. QED BY <1>2, <2>2 DEF Visible
<1>3. CASE x \notin DOMAIN tx[c].staged
    BY <1>1, <1>3 DEF Visible
<1>4. QED BY <1>2, <1>3

LEMMA NextPosition ==
    ASSUME NEW at \in Nat, NEW len \in Nat, NEW flows \in Nat, at >= 1, at <= len + flows
    PROVE  /\ at + 1 \in Nat /\ at + 1 >= at /\ at + 1 \in 1..(len + flows + 1)
           /\ (at + 1) - 1 = at
OBVIOUS

(* Where a transaction is, in numbers. *)
LEMMA Position ==
    ASSUME NEW c \in Clients, tx[c] \in Txs, Fits(c, tx[c])
    PROVE  /\ tx[c].at \in Nat /\ tx[c].at >= 1
           /\ Count(c) \in Nat /\ tx[c].bundle.flows \in Nat
           /\ tx[c].bundle.flows <= Count(c)
<1>1. tx[c].at \in Nat /\ tx[c].bundle \in Bundles
    BY TxFacts
<1>2. /\ Len(tx[c].bundle.docs) \in Nat
      /\ tx[c].bundle.flows \in 0..Len(tx[c].bundle.docs)
    BY <1>1, BundleFacts
<1>3. tx[c].at \in 1..(Len(tx[c].bundle.docs) + tx[c].bundle.flows + 1)
    BY DEF Fits, Processed
<1>4. QED BY <1>1, <1>2, <1>3 DEF Count

(* Past the workflows of the bundle, all of them are there. *)
LEMMA FlowsSeen ==
    ASSUME NEW c \in Clients, tx[c] \in Txs, Fits(c, tx[c]), tx[c].step = "next",
           tx[c].at > tx[c].bundle.flows, NEW j \in 1..tx[c].bundle.flows
    PROVE  Visible(c, tx[c].bundle.docs[j].slug) # 0
<1>1. ~(j >= tx[c].at)
    BY Position
<1>2. Sees(tx[c], tx[c].bundle.docs[j].slug) # 0
    BY <1>1 DEF Fits, Reached
<1>3. QED BY <1>2 DEF Sees, Visible

LEMMA ReadPinKeeps ==
    ASSUME IInv, NEW c \in Clients, ReadPin(c)
    PROVE  IInv'
<1>1. tx[c] \in Txs /\ Fits(c, tx[c]) /\ Open(c)
    BY OpenTx DEF ReadPin, AtForm, Open, IInv
<1>2. /\ tx[c].step = "next" /\ tx[c].at > tx[c].bundle.flows /\ tx[c].at <= Count(c)
    BY DEF ReadPin, AtForm
<1>3. tx[c].bundle \in Bundles /\ tx[c].at \in DOMAIN tx[c].bundle.docs
    BY <1>1, <1>2, TxFacts, BundleFacts, Position DEF Count
<1>4. PICK d : d = Doc(c)
    OBVIOUS
<1>5. /\ d = tx[c].bundle.docs[tx[c].at] /\ d \in Docs /\ d.slug \in Slugs
      /\ d.workflow \in Workflows \cup {NoWorkflow}
    BY <1>3, <1>4, BundleFacts, Basics DEF Doc
<1>6. PICK item :
        item = [doc |-> d, repin |-> FALSE,
                pin |-> IF d.workflow = NoWorkflow THEN NoPin
                        ELSE [workflow |-> d.workflow, n |-> Visible(c, d.workflow)]]
    OBVIOUS
<1>7. PICK at : at = tx[c].at + 1
    OBVIOUS
<1>8. PICK t : t = [tx[c] EXCEPT !.step = "pinned", !.at = at, !.item = item]
    OBVIOUS
<1>9. /\ UNCHANGED <<current, versions, lock>> /\ tx' = [tx EXCEPT ![c] = t]
    BY <1>4, <1>6, <1>7, <1>8 DEF ReadPin
<1>10. /\ at \in Nat /\ at >= tx[c].at /\ at - 1 = tx[c].at
       /\ at \in 1..(Count(c) + tx[c].bundle.flows + 1)
    <2>1. tx[c].at <= Count(c) + tx[c].bundle.flows
        BY <1>1, <1>2, Position
    <2>2. QED BY <1>1, <1>7, <2>1, Position, NextPosition
<1>11. ASSUME d.workflow # NoWorkflow
       PROVE  Visible(c, d.workflow) \in Nat /\ Visible(c, d.workflow) # 0
    <2>1. d.workflow \in Slugs
        BY <1>5, <1>11 DEF Slugs
    <2>2. CASE current[d.workflow] # 0
        BY <1>1, <2>1, <2>2, SeesNumber
    <2>3. CASE \E j \in 1..tx[c].bundle.flows : tx[c].bundle.docs[j].slug = d.workflow
        BY <1>1, <1>2, <2>1, <2>3, FlowsSeen, SeesNumber
    <2>4. QED BY <1>1, <1>3, <1>5, <1>11, <2>2, <2>3 DEF Fits, Resolved
<1>12. item \in Items
    BY <1>5, <1>6, <1>11 DEF Items, Pins, NoPin
<1>13. t \in Txs
    BY <1>1, <1>8, <1>10, <1>12 DEF Txs
<1>14. /\ t.step = "pinned" /\ t.at = at /\ t.item = item
       /\ t.bundle = tx[c].bundle /\ t.staged = tx[c].staged /\ t.repins = tx[c].repins
    BY <1>1, <1>8 DEF Txs
<1>15. t.repins = {}
    <2>1. ~\E j \in 1..tx[c].bundle.flows : Count(c) + j + 1 = tx[c].at
        BY <1>1, <1>2, Position
    <2>2. QED BY <1>1, <1>14, <2>1 DEF Fits, Pending, Repin, Last, Count
<1>16. Fresh(t, item)
    <2>1. ASSUME d.slug \in DOMAIN t.staged PROVE FALSE
        <3>1. \A i \in DOMAIN tx[c].bundle.docs :
                tx[c].bundle.docs[i].slug = d.slug => i = tx[c].at
            BY <1>3, <1>5, BundleFacts
        <3>2. ~(tx[c].at < tx[c].at)
            BY <1>1, Position
        <3>3. d.slug \in Named(tx[c])
            BY <1>3, <1>5 DEF Named
        <3>4. QED BY <1>1, <1>14, <2>1, <3>1, <3>2, <3>3 DEF Fits, Processed
    <2>2. d.workflow # NoWorkflow => Visible(c, d.workflow) \in 1..Visible(c, d.workflow)
        BY <1>11
    <2>3. PinFits(item, Visible(c, d.workflow))
        BY <1>6, <2>2 DEF PinFits
    <2>4. Sees(t, d.workflow) = Visible(c, d.workflow)
        BY <1>14 DEF Sees, Visible
    <2>5. QED BY <1>6, <2>1, <2>3, <2>4 DEF Fresh
<1>17. Chosen(t)
    <2>1. /\ t.at - 1 \in DOMAIN t.bundle.docs /\ item.doc = t.bundle.docs[t.at - 1]
          /\ t.at - 1 > t.bundle.flows
        BY <1>2, <1>3, <1>5, <1>6, <1>10, <1>14
    <2>2. ~item.repin
        BY <1>6
    <2>3. QED BY <1>12, <1>14, <1>16, <2>1, <2>2 DEF Chosen
<1>18. Pending(t) /\ Raised(t)
    BY <1>14, <1>15 DEF Pending, Raised
<1>19. Reached(t)
    BY <1>1, <1>2, <1>14, FlowsSeen DEF Reached, Sees, Visible
<1>20. lock' \in [Slugs -> Clients \cup {NoClient}]
    BY <1>9 DEF IInv, Typed
<1>21. t.at >= tx[c].at /\ t.at \in 1..(Len(t.bundle.docs) + t.bundle.flows + 1)
    BY <1>10, <1>14 DEF Count
<1>22. QED
    BY <1>1, <1>9, <1>13, <1>14, <1>17, <1>18, <1>19, <1>20, <1>21, Advance

(* The forms of a list are outside the bundle and have not been re-pinned: *)
(* those that have name a workflow that was listed before.                 *)
LEMMA ListedForm ==
    ASSUME IInv, NEW c \in Clients, tx[c] \in Txs, Fits(c, tx[c]),
           NEW j \in 1..tx[c].bundle.flows, Count(c) + j = tx[c].at,
           NEW f \in Dependents(c, tx[c].bundle.docs[j].slug)
    PROVE  /\ f \notin DOMAIN tx[c].staged /\ f \notin Named(tx[c])
           /\ Row(c, f, Listed(c, f)).doc \in Docs
           /\ Row(c, f, Listed(c, f)).doc.slug = f
           /\ Row(c, f, Listed(c, f)).doc.workflow = tx[c].bundle.docs[j].slug
<1>1. PICK w : w = tx[c].bundle.docs[j].slug
    OBVIOUS
<1>2. /\ f \in Slugs /\ f \notin Named(tx[c])
      /\ Visible(c, f) # 0 /\ Row(c, f, Visible(c, f)).doc.workflow = w
    BY <1>1 DEF Dependents, Slugs, Named, Listed
<1>3. f \notin DOMAIN tx[c].staged
    <2>1. SUFFICES ASSUME f \in DOMAIN tx[c].staged PROVE FALSE
        OBVIOUS
    <2>2. Past(tx[c], tx[c].staged[f].doc.workflow)
        BY <1>2, <2>1 DEF Fits, Processed, Named
    <2>3. tx[c].staged[f].doc.workflow = w
        BY <1>2, <2>1 DEF Row, Visible
    <2>4. PICK k \in 1..tx[c].bundle.flows :
            Count(c) + k < tx[c].at /\ w = tx[c].bundle.docs[k].slug
        BY <2>2, <2>3 DEF Past, Count
    <2>5. k # j
        BY <2>4, Position
    <2>6. k \in 1..Count(c) /\ j \in 1..Count(c)
        BY Position
    <2>7. k \in DOMAIN tx[c].bundle.docs /\ j \in DOMAIN tx[c].bundle.docs
        BY <2>6, TxFacts, BundleFacts DEF Count
    <2>8. QED BY <1>1, <2>4, <2>5, <2>7, TxFacts, BundleFacts
<1>4. Visible(c, f) = current[f] /\ Row(c, f, Visible(c, f)) = versions[f][current[f]]
    BY <1>3 DEF Visible, Row
<1>5. versions[f] \in Seq(Rows) /\ Len(versions[f]) = current[f] /\ current[f] \in Nat
    BY <1>2 DEF IInv, Typed, Stored
<1>6. current[f] \in 1..Len(versions[f])
    BY <1>2, <1>4, <1>5
<1>7. versions[f][current[f]] \in Rows
    BY <1>5, <1>6
<1>8. versions[f][current[f]].doc.slug = f
    BY <1>2, <1>5, <1>6 DEF IInv, Stored
<1>9. QED BY <1>1, <1>2, <1>3, <1>4, <1>7, <1>8 DEF Rows, Listed

LEMMA ListKeeps ==
    ASSUME IInv, NEW c \in Clients, List(c)
    PROVE  IInv'
<1>1. tx[c] \in Txs /\ Fits(c, tx[c]) /\ Open(c)
    BY OpenTx DEF List, AtListing, Open, IInv
<1>2. /\ tx[c].step = "next" /\ tx[c].at > Count(c)
      /\ tx[c].at <= Count(c) + tx[c].bundle.flows
    BY DEF List, AtListing
<1>3. PICK at : at = tx[c].at + 1
    OBVIOUS
<1>4. /\ at \in Nat /\ at >= tx[c].at /\ at - 1 = tx[c].at
      /\ at \in 1..(Count(c) + tx[c].bundle.flows + 1)
    BY <1>1, <1>2, <1>3, Position, NextPosition
<1>5. tx[c].at > tx[c].bundle.flows
    BY <1>1, <1>2, Position
<1>6. PICK j \in 1..tx[c].bundle.flows : j = tx[c].at - Count(c) /\ Count(c) + j = tx[c].at
    BY <1>1, <1>2, Position
<1>7. PICK w : w = tx[c].bundle.docs[j].slug
    OBVIOUS
<1>8. w \in Workflows /\ w \in Slugs /\ w # NoWorkflow
    <2>1. j \in 1..Count(c) /\ j <= tx[c].bundle.flows
        BY <1>1, Position
    <2>2. j \in DOMAIN tx[c].bundle.docs
        BY <1>1, <2>1, TxFacts, BundleFacts DEF Count
    <2>3. w \in Workflows
        BY <1>1, <1>7, <2>1, <2>2, TxFacts, BundleFacts
    <2>4. QED BY <2>3, Basics DEF Slugs
<1>9. PICK forms : forms = IF w \in DOMAIN tx[c].staged THEN Dependents(c, w) ELSE {}
    OBVIOUS
<1>10. PICK repins :
        repins = {[doc |-> Row(c, f, Listed(c, f)).doc, repin |-> TRUE,
                   pin |-> [workflow |-> w, n |-> Visible(c, w)]] : f \in forms}
    OBVIOUS
<1>11. PICK t : t = [tx[c] EXCEPT !.at = at, !.repins = repins]
    OBVIOUS
<1>12. /\ UNCHANGED <<current, versions, lock>> /\ tx' = [tx EXCEPT ![c] = t]
    BY <1>3, <1>6, <1>7, <1>9, <1>10, <1>11, Zenon DEF List
<1>13. ASSUME NEW f \in forms
       PROVE  /\ w \in DOMAIN tx[c].staged
              /\ f \notin DOMAIN tx[c].staged /\ f \notin Named(tx[c])
              /\ Row(c, f, Listed(c, f)).doc \in Docs
              /\ Row(c, f, Listed(c, f)).doc.slug = f
              /\ Row(c, f, Listed(c, f)).doc.workflow = w
    BY <1>1, <1>6, <1>7, <1>9, ListedForm
<1>14. Visible(c, w) \in Nat /\ (w \in DOMAIN tx[c].staged => Visible(c, w) # 0)
    BY <1>1, <1>8, SeesNumber
<1>15. repins \in SUBSET Items
    <2>1. [workflow |-> w, n |-> Visible(c, w)] \in Pins
        BY <1>8, <1>14 DEF Pins
    <2>2. ASSUME NEW f \in forms
          PROVE  [doc |-> Row(c, f, Listed(c, f)).doc, repin |-> TRUE,
                  pin |-> [workflow |-> w, n |-> Visible(c, w)]] \in Items
        BY <1>13, <2>1, <2>2 DEF Items
    <2>3. QED BY <1>10, <2>2
<1>16. t \in Txs
    BY <1>1, <1>4, <1>11, <1>15 DEF Txs
<1>17. /\ t.step = "next" /\ t.at = at /\ t.repins = repins
       /\ t.bundle = tx[c].bundle /\ t.staged = tx[c].staged
    BY <1>1, <1>2, <1>11 DEF Txs
<1>18. Last(t, w)
    <2>1. Count(c) + j + 1 = at
        BY <1>1, <1>3, <1>6, Position
    <2>2. QED BY <1>7, <1>17, <2>1 DEF Last, Count
<1>19. w \in DOMAIN tx[c].staged => Visible(c, w) \in 1..Visible(c, w)
    BY <1>14
<1>20. ASSUME NEW item \in repins PROVE Repin(t, item) /\ Fresh(t, item)
    <2>1. PICK f \in forms :
            item = [doc |-> Row(c, f, Listed(c, f)).doc, repin |-> TRUE,
                    pin |-> [workflow |-> w, n |-> Visible(c, w)]]
        BY <1>10, <1>20
    <2>2. /\ item.doc.slug = f /\ item.doc.workflow = w /\ item.repin
          /\ item.pin = [workflow |-> w, n |-> Visible(c, w)]
        BY <1>13, <2>1
    <2>3. Repin(t, item)
        BY <1>13, <1>17, <1>18, <2>2 DEF Repin, Named
    <2>4. PinFits(item, Visible(c, w))
        BY <1>8, <1>13, <1>19, <2>2 DEF PinFits
    <2>5. Sees(t, w) = Visible(c, w)
        BY <1>17 DEF Sees, Visible
    <2>6. QED BY <1>13, <1>17, <2>2, <2>3, <2>4, <2>5 DEF Fresh
<1>21. ASSUME NEW item \in repins, NEW other \in repins, other.doc.slug = item.doc.slug
       PROVE  other = item
    <2>1. PICK f \in forms :
            item = [doc |-> Row(c, f, Listed(c, f)).doc, repin |-> TRUE,
                    pin |-> [workflow |-> w, n |-> Visible(c, w)]]
        BY <1>10, <1>21
    <2>2. PICK g \in forms :
            other = [doc |-> Row(c, g, Listed(c, g)).doc, repin |-> TRUE,
                     pin |-> [workflow |-> w, n |-> Visible(c, w)]]
        BY <1>10, <1>21
    <2>3. f = g
        <3>1. item.doc.slug = f
            BY <1>13, <2>1
        <3>2. other.doc.slug = g
            BY <1>13, <2>2
        <3>3. QED BY <1>21, <3>1, <3>2
    <2>4. QED BY <2>1, <2>2, <2>3
<1>22. Pending(t)
    BY <1>17, <1>20, <1>21 DEF Pending
<1>23. Chosen(t) /\ Raised(t)
    BY <1>17 DEF Chosen, Raised
<1>24. Reached(t)
    BY <1>1, <1>2, <1>5, <1>17, FlowsSeen DEF Reached, Sees, Visible
<1>25. lock' \in [Slugs -> Clients \cup {NoClient}]
    BY <1>12 DEF IInv, Typed
<1>26. t.at >= tx[c].at /\ t.at \in 1..(Len(t.bundle.docs) + t.bundle.flows + 1)
    BY <1>4, <1>17 DEF Count
<1>27. QED
    BY <1>1, <1>12, <1>16, <1>17, <1>22, <1>23, <1>24, <1>25, <1>26, Advance

(* What an upsert finds when it has the row lock: the current version, or  *)
(* nothing because another apply has committed one since the lookup.       *)
LEMMA UpsertFinds ==
    ASSUME IInv, NEW c \in Clients, tx[c] \in Txs, Fits(c, tx[c]), tx[c].step = "look",
           NEW x, x = tx[c].item.doc.slug, NEW n, n = Joined(c, x)
    PROVE  /\ tx[c].item \in Items /\ x \in Slugs /\ x \notin DOMAIN tx[c].staged
           /\ current[x] \in Nat /\ n \in Nat /\ DOMAIN versions[x] = 1..current[x]
           /\ n = current[x] \/ (n = 0 /\ tx[c].seen < current[x])
<1>1. /\ tx[c].item \in Items /\ Fresh(tx[c], tx[c].item)
      /\ tx[c].seen <= current[x] /\ tx[c].seen \in Nat
    BY TxFacts DEF Fits, Chosen
<1>2. x \in Slugs /\ x \notin DOMAIN tx[c].staged
    BY <1>1, Basics DEF Items, Fresh
<1>3. current[x] \in Nat
    BY <1>2 DEF IInv, Typed
<1>4. n = IF tx[c].seen = current[x] THEN tx[c].seen ELSE 0
    BY <1>2 DEF Joined, Visible
<1>5. DOMAIN versions[x] = 1..current[x]
    BY <1>2 DEF IInv, Typed, Stored
<1>6. QED BY <1>1, <1>2, <1>3, <1>4, <1>5

(* An upsert that finds the definition unchanged, or fails.                *)
LEMMA UpsertWritesNothing ==
    ASSUME IInv, NEW c \in Clients, tx[c] \in Txs, Fits(c, tx[c]), tx[c].step = "look",
           NEW x, x = tx[c].item.doc.slug, NEW n, n = Joined(c, x),
           Grantable(c, x), lock' = [lock EXCEPT ![x] = c], UNCHANGED <<current, versions>>,
           NEW step, tx' = [tx EXCEPT ![c] = [tx[c] EXCEPT !.step = step]],
           \/ step = "next" /\ n # 0
           \/ step = "failed" /\ Taken(x, n + 1)
    PROVE  IInv'
<1>1. PICK t : t = [tx[c] EXCEPT !.step = step]
    OBVIOUS
<1>2. t \in Txs
    BY <1>1 DEF Txs
<1>3. /\ t.step = step /\ t.at = tx[c].at /\ t.item = tx[c].item /\ t.seen = tx[c].seen
      /\ t.bundle = tx[c].bundle /\ t.staged = tx[c].staged /\ t.repins = tx[c].repins
    BY <1>1 DEF Txs
<1>4. Pending(t)
    BY <1>3 DEF Fits, Pending, Repin, Fresh, Named, Last, Sees
<1>5. Chosen(t)
    BY <1>3 DEF Chosen
<1>6. Raised(t)
    <2>1. step = "failed" => tx[c].seen < current[x]
        BY UpsertFinds DEF Taken
    <2>2. tx[c].item \in Items
        BY DEF Fits, Chosen
    <2>3. QED BY <1>3, <2>1, <2>2 DEF Raised
<1>7. Reached(t)
    <2>1. ASSUME NEW i \in 1..t.bundle.flows, ~(i >= t.at),
                 ~(t.step \in {"look", "failed"} /\ ~t.item.repin /\ i = t.at - 1)
          PROVE  Sees(t, t.bundle.docs[i].slug) # 0
        <3>1. CASE Sees(tx[c], t.bundle.docs[i].slug) # 0
            BY <1>3, <3>1 DEF Sees
        <3>2. CASE step = "next" /\ ~tx[c].item.repin /\ i = tx[c].at - 1
            <4>1. t.bundle.docs[i].slug = x
                BY <1>3, <3>2 DEF Fits, Chosen
            <4>2. current[x] # 0 /\ x \notin DOMAIN tx[c].staged
                BY <3>2, UpsertFinds
            <4>3. QED BY <1>3, <4>1, <4>2 DEF Sees
        <3>3. QED BY <1>3, <2>1, <3>1, <3>2 DEF Fits, Reached
    <2>2. QED BY <2>1 DEF Reached
<1>8. tx' = [tx EXCEPT ![c] = t] /\ Open(c) /\ x \in Slugs
    BY <1>1, UpsertFinds DEF Open
<1>9. lock' \in [Slugs -> Clients \cup {NoClient}]
    BY <1>8 DEF IInv, Typed
<1>10. \A y \in Slugs : lock'[y] = lock[y] \/ (lock[y] \in {NoClient, c} /\ lock'[y] = c)
    BY <1>8 DEF Grantable, IInv, Typed
<1>11. t.at >= tx[c].at /\ t.at \in 1..(Len(t.bundle.docs) + t.bundle.flows + 1)
    BY <1>3, Position DEF Fits, Processed
<1>12. QED
    BY <1>2, <1>3, <1>4, <1>5, <1>6, <1>7, <1>8, <1>9, <1>10, <1>11, Advance

LEMMA PinGrows ==
    ASSUME NEW v, NEW m, NEW n, PinFits(v, m),
           v.doc.workflow # NoWorkflow => m \in Nat /\ n \in Nat /\ m <= n
    PROVE  PinFits(v, n)
<1>1. CASE v.doc.workflow = NoWorkflow
    BY <1>1 DEF PinFits
<1>2. CASE v.doc.workflow # NoWorkflow
    BY <1>2 DEF PinFits
<1>3. QED BY <1>1, <1>2

(* t is what c has once it has written the next version of its item x.     *)
WriteOf(c, t, item, x) ==
    /\ item = tx[c].item /\ x = item.doc.slug
    /\ t.step = "next" /\ t.at = tx[c].at /\ t.item = item
    /\ t.bundle = tx[c].bundle /\ t.repins = tx[c].repins
    /\ DOMAIN t.staged = DOMAIN tx[c].staged \cup {x}
    /\ \A y \in DOMAIN tx[c].staged : t.staged[y] = tx[c].staged[y]
    /\ t.staged[x].n = current[x] + 1 /\ t.staged[x].doc = item.doc
    /\ t.staged[x].pin = item.pin /\ t.staged[x].repin = item.repin

Differs(item, x) ==
    current[x] # 0 => [doc |-> item.doc, pin |-> item.pin] # versions[x][current[x]]

Locked(c, x) == \A y \in Slugs : lock'[y] = IF y = x THEN c ELSE lock[y]

LEMMA WriteFits ==
    ASSUME IInv, NEW c \in Clients, tx[c] \in Txs, Fits(c, tx[c]), tx[c].step = "look",
           NEW t \in Txs, NEW item \in Items, NEW x \in Slugs, x \notin DOMAIN tx[c].staged,
           WriteOf(c, t, item, x), Differs(item, x), Locked(c, x),
           UNCHANGED <<current, versions>>
    PROVE  Fits(c, t)'
<1>1. /\ t.step = "next" /\ t.at = tx[c].at /\ t.item = item
      /\ t.bundle = tx[c].bundle /\ t.repins = tx[c].repins
    BY DEF WriteOf
<1>2. item = tx[c].item /\ x = item.doc.slug /\ item.doc \in Docs
    BY DEF WriteOf, Items
<1>3. current[x] \in Nat
    BY DEF IInv, Typed
<1>4. /\ DOMAIN t.staged = DOMAIN tx[c].staged \cup {x}
      /\ \A y \in DOMAIN tx[c].staged : t.staged[y] = tx[c].staged[y]
    BY DEF WriteOf
<1>5. /\ t.staged[x].n = current[x] + 1 /\ t.staged[x].doc = item.doc
      /\ t.staged[x].pin = item.pin
    BY DEF WriteOf
<1>6. /\ Fresh(tx[c], item)
      /\ IF item.repin
         THEN Repin(tx[c], item) /\ \A other \in tx[c].repins : other.doc.slug # x
         ELSE tx[c].at - 1 \in DOMAIN tx[c].bundle.docs
              /\ item.doc = tx[c].bundle.docs[tx[c].at - 1]
    BY <1>2 DEF Fits, Chosen
<1>7. /\ Named(t) = Named(tx[c])
      /\ \A w : (Past(t, w) <=> Past(tx[c], w)) /\ (Last(t, w) <=> Last(tx[c], w))
    BY <1>1 DEF Named, Past, Last
<1>8. Sees(t, x) = current[x] + 1 /\ Sees(tx[c], x) = current[x]
    BY <1>4, <1>5 DEF Sees
<1>9. ASSUME NEW w, w # x PROVE Sees(t, w) = Sees(tx[c], w)
    BY <1>4, <1>9 DEF Sees
<1>10. ASSUME NEW w \in Slugs
       PROVE  Sees(tx[c], w) \in Nat /\ Sees(t, w) \in Nat /\ Sees(tx[c], w) <= Sees(t, w)
    <2>1. Sees(tx[c], w) \in Nat
        BY SeesNumber DEF Sees, Visible
    <2>2. QED BY <1>3, <1>8, <1>9, <2>1
<1>11. ASSUME NEW v, v.doc \in Docs, PinFits(v, Sees(tx[c], v.doc.workflow))
       PROVE  PinFits(v, Sees(t, v.doc.workflow))
    <2>1. v.doc.workflow # NoWorkflow => v.doc.workflow \in Slugs
        BY <1>11, Basics DEF Slugs
    <2>2. QED BY <1>10, <1>11, <2>1, PinGrows
<1>12. ASSUME NEW y \in DOMAIN t.staged
       PROVE  /\ lock'[y] = c
              /\ t.staged[y].n = current[y] + 1 /\ t.staged[y].doc.slug = y
              /\ PinFits(t.staged[y], Sees(t, t.staged[y].doc.workflow))
              /\ current[y] # 0 =>
                  [doc |-> t.staged[y].doc, pin |-> t.staged[y].pin] # versions[y][current[y]]
    <2>1. CASE y = x
        <3>1. PinFits(t.staged[x], Sees(tx[c], item.doc.workflow))
            BY <1>5, <1>6 DEF Fresh, PinFits
        <3>2. PinFits(t.staged[x], Sees(t, item.doc.workflow))
            BY <1>2, <1>5, <1>11, <3>1
        <3>3. lock'[x] = c
            BY DEF Locked
        <3>4. current[x] # 0 =>
                [doc |-> t.staged[x].doc, pin |-> t.staged[x].pin] # versions[x][current[x]]
            BY <1>5 DEF Differs
        <3>5. QED BY <1>2, <1>5, <2>1, <3>2, <3>3, <3>4, Zenon
    <2>2. CASE y # x
        <3>1. y \in DOMAIN tx[c].staged /\ t.staged[y] = tx[c].staged[y]
            BY <1>4, <2>2
        <3>2. Written(c, tx[c])
            BY DEF Fits
        <3>3. /\ lock[y] = c
              /\ t.staged[y].n = current[y] + 1 /\ t.staged[y].doc.slug = y
              /\ PinFits(t.staged[y], Sees(tx[c], t.staged[y].doc.workflow))
              /\ current[y] # 0 =>
                  [doc |-> t.staged[y].doc, pin |-> t.staged[y].pin] # versions[y][current[y]]
            BY <3>1, <3>2 DEF Written
        <3>4. y \in Slugs /\ t.staged[y].doc \in Docs
            BY TxFacts DEF Writes
        <3>5. lock'[y] = c
            BY <2>2, <3>3, <3>4 DEF Locked
        <3>6. PinFits(t.staged[y], Sees(t, t.staged[y].doc.workflow))
            BY <1>11, <3>3, <3>4
        <3>7. QED BY <3>3, <3>5, <3>6
    <2>3. QED BY <2>1, <2>2
<1>13. Written(c, t)'
    <2>1. \A y \in DOMAIN t.staged : PinFits(t.staged[y], Sees(t, t.staged[y].doc.workflow))'
        BY <1>12 DEF Sees, PinFits
    <2>2. QED BY <1>12, <2>1 DEF Written
<1>14. ~item.repin => \E i \in DOMAIN t.bundle.docs : i < t.at /\ t.bundle.docs[i].slug = x
    <2>1. tx[c].at - 1 < tx[c].at
        BY Position
    <2>2. QED BY <1>1, <1>2, <1>6, <2>1
<1>15. item.repin => x \notin Named(t) /\ Past(t, item.doc.workflow)
    <2> SUFFICES ASSUME item.repin PROVE x \notin Named(t) /\ Past(t, item.doc.workflow)
        OBVIOUS
    <2>1. Repin(t, item)
        BY <1>6, <1>7 DEF Repin
    <2>2. PICK j \in 1..t.bundle.flows :
            /\ Len(t.bundle.docs) + j + 1 = t.at
            /\ item.doc.workflow = t.bundle.docs[j].slug
        BY <2>1 DEF Repin, Last
    <2>3. Len(t.bundle.docs) + j < t.at
        BY <1>1, <2>2, Position DEF Count
    <2>4. QED BY <1>2, <2>1, <2>2, <2>3 DEF Repin, Past
<1>16. Processed(t)
    <2>1. ASSUME NEW y \in DOMAIN t.staged, y # x
          PROVE  \/ \E i \in DOMAIN t.bundle.docs : i < t.at /\ t.bundle.docs[i].slug = y
                 \/ y \notin Named(t) /\ Past(t, t.staged[y].doc.workflow)
        <3>1. y \in DOMAIN tx[c].staged /\ t.staged[y] = tx[c].staged[y]
            BY <1>4, <2>1
        <3>2. \/ \E i \in DOMAIN tx[c].bundle.docs :
                    i < tx[c].at /\ tx[c].bundle.docs[i].slug = y
              \/ y \notin Named(tx[c]) /\ Past(tx[c], tx[c].staged[y].doc.workflow)
            BY <3>1 DEF Fits, Processed
        <3>3. QED BY <1>1, <1>7, <3>1, <3>2
    <2>2. t.at \in 1..(Len(t.bundle.docs) + t.bundle.flows + 1)
        BY <1>1 DEF Fits, Processed
    <2>3. QED BY <1>5, <1>14, <1>15, <2>1, <2>2 DEF Processed
<1>17. Pending(t)
    <2>1. ASSUME NEW r \in tx[c].repins PROVE Repin(t, r) /\ Fresh(t, r)
        <3>1. Pending(tx[c]) /\ r \in Items
            BY TxFacts DEF Fits
        <3>2. Repin(tx[c], r) /\ Fresh(tx[c], r) /\ r.doc \in Docs
            BY <3>1 DEF Pending, Items
        <3>3. Repin(t, r)
            BY <1>7, <3>2 DEF Repin
        <3>4. r.doc.slug # x
            BY <1>6, <1>14, <3>3 DEF Repin, Named
        <3>5. r.doc.slug \notin DOMAIN t.staged
            BY <1>4, <3>2, <3>4 DEF Fresh
        <3>6. PinFits(r, Sees(t, r.doc.workflow))
            BY <1>11, <3>2 DEF Fresh
        <3>7. QED BY <3>3, <3>5, <3>6 DEF Fresh
    <2>2. \A r, other \in tx[c].repins : other.doc.slug = r.doc.slug => other = r
        BY DEF Fits, Pending
    <2>3. QED BY <1>1, <2>1, <2>2 DEF Pending
<1>18. Chosen(t)' /\ Raised(t)'
    BY <1>1 DEF Chosen, Raised
<1>19. Resolved(t)
    BY <1>1 DEF Fits, Resolved
<1>20. Reached(t)
    <2>1. ASSUME NEW i \in 1..t.bundle.flows, ~(i >= t.at)
          PROVE  Sees(t, t.bundle.docs[i].slug) # 0
        <3>1. CASE t.bundle.docs[i].slug = x
            BY <1>3, <1>8, <3>1
        <3>2. CASE t.bundle.docs[i].slug # x
            <4>1. Sees(t, t.bundle.docs[i].slug) = Sees(tx[c], t.bundle.docs[i].slug)
                BY <1>9, <3>2
            <4>2. ~(~item.repin /\ i = tx[c].at - 1)
                BY <1>1, <1>2, <1>6, <3>2
            <4>3. QED BY <1>1, <1>2, <2>1, <4>1, <4>2 DEF Fits, Reached
        <3>3. QED BY <3>1, <3>2
    <2>2. QED BY <2>1 DEF Reached
<1>21. Processed(t)' /\ Resolved(t)' /\ Reached(t)'
    BY <1>16, <1>19, <1>20 DEF Processed, Resolved, Reached, Sees, Named, Past
<1>22. Pending(t)'
    BY <1>17 DEF Pending, Fresh, Repin, Sees, PinFits, Named, Last
<1>23. QED BY <1>13, <1>18, <1>21, <1>22 DEF Fits

LEMMA UpsertKeeps ==
    ASSUME IInv, NEW c \in Clients, Upsert(c)
    PROVE  IInv'
<1>1. tx[c] \in Txs /\ Fits(c, tx[c]) /\ tx[c].step = "look"
    BY OpenTx DEF Upsert, Open, IInv
<1>2. PICK x, n : x = tx[c].item.doc.slug /\ n = Joined(c, x)
    OBVIOUS
<1>3. PICK version : version = [n |-> n + 1, doc |-> tx[c].item.doc, pin |-> tx[c].item.pin,
                                repin |-> tx[c].item.repin]
    OBVIOUS
<1>4. PICK staged : staged = [y \in DOMAIN tx[c].staged \cup {x} |->
                                IF y = x THEN version ELSE tx[c].staged[y]]
    OBVIOUS
<1>5. /\ Grantable(c, x) /\ lock' = [lock EXCEPT ![x] = c] /\ UNCHANGED <<current, versions>>
      /\ \/ /\ Unchanged(c, x, n)
            /\ tx' = [tx EXCEPT ![c] = [tx[c] EXCEPT !.step = "next"]]
         \/ /\ ~Unchanged(c, x, n) /\ Taken(x, n + 1)
            /\ tx' = [tx EXCEPT ![c] = [tx[c] EXCEPT !.step = "failed"]]
         \/ /\ ~Unchanged(c, x, n) /\ ~Taken(x, n + 1)
            /\ tx' = [tx EXCEPT ![c] = [tx[c] EXCEPT !.step = "next", !.staged = staged]]
    BY <1>2, <1>3, <1>4 DEF Upsert
<1>6. CASE /\ Unchanged(c, x, n)
           /\ tx' = [tx EXCEPT ![c] = [tx[c] EXCEPT !.step = "next"]]
    <2>1. n # 0
        BY <1>6 DEF Unchanged
    <2>2. QED BY <1>1, <1>2, <1>5, <1>6, <2>1, UpsertWritesNothing
<1>7. CASE /\ Taken(x, n + 1)
           /\ tx' = [tx EXCEPT ![c] = [tx[c] EXCEPT !.step = "failed"]]
    BY <1>1, <1>2, <1>5, <1>7, UpsertWritesNothing, Zenon
<1>8. CASE /\ ~Unchanged(c, x, n) /\ ~Taken(x, n + 1)
           /\ tx' = [tx EXCEPT ![c] = [tx[c] EXCEPT !.step = "next", !.staged = staged]]
    <2>1. PICK t : t = [tx[c] EXCEPT !.step = "next", !.staged = staged]
        OBVIOUS
    <2>2. PICK item \in Items : item = tx[c].item
        BY <1>1, <1>2, UpsertFinds
    <2>3. /\ x \in Slugs /\ x \notin DOMAIN tx[c].staged /\ current[x] \in Nat
          /\ n = current[x] /\ n \in Nat
        <3>1. /\ x \in Slugs /\ x \notin DOMAIN tx[c].staged
              /\ current[x] \in Nat /\ n \in Nat /\ tx[c].seen \in Nat
              /\ DOMAIN versions[x] = 1..current[x]
              /\ n = current[x] \/ (n = 0 /\ tx[c].seen < current[x])
            BY <1>1, <1>2, UpsertFinds, TxFacts
        <3>2. n + 1 \notin 1..current[x]
            BY <1>8, <3>1 DEF Taken
        <3>3. QED BY <3>1, <3>2
    <2>4. /\ version \in Writes /\ version.n = current[x] + 1 /\ version.doc = item.doc
          /\ version.pin = item.pin /\ version.repin = item.repin
        BY <1>3, <2>2, <2>3 DEF Items, Writes
    <2>5. /\ DOMAIN staged = DOMAIN tx[c].staged \cup {x} /\ staged[x] = version
          /\ \A y \in DOMAIN tx[c].staged : staged[y] = tx[c].staged[y]
        BY <1>4, <2>3
    <2>6. staged \in UNION {[S -> Writes] : S \in SUBSET Slugs}
        <3>1. DOMAIN staged \in SUBSET Slugs
            BY <1>1, <2>3, <2>5, TxFacts
        <3>2. \A y \in DOMAIN staged : staged[y] \in Writes
            BY <1>1, <2>4, <2>5, TxFacts
        <3>3. staged \in [DOMAIN staged -> Writes]
            BY <1>4, <3>2
        <3>4. QED BY <3>1, <3>3
    <2>7. t \in Txs
        BY <1>1, <2>1, <2>6 DEF Txs
    <2>8. WriteOf(c, t, item, x)
        <3>1. /\ t.step = "next" /\ t.at = tx[c].at /\ t.item = item /\ t.staged = staged
              /\ t.bundle = tx[c].bundle /\ t.repins = tx[c].repins
            BY <1>1, <2>1, <2>2 DEF Txs
        <3>2. QED BY <1>2, <2>2, <2>4, <2>5, <3>1 DEF WriteOf
    <2>9. Differs(item, x)
        BY <1>8, <2>2, <2>3 DEF Unchanged, Row, Differs
    <2>10. Locked(c, x)
        BY <1>5 DEF Locked, IInv, Typed
    <2>11. Fits(c, t)'
        BY <1>1, <1>5, <2>3, <2>7, <2>8, <2>9, <2>10, WriteFits
    <2>12. /\ tx' = [tx EXCEPT ![c] = t]
           /\ lock' \in [Slugs -> Clients \cup {NoClient}]
           /\ \A y \in Slugs : lock'[y] = lock[y] \/ (lock[y] \in {NoClient, c} /\ lock'[y] = c)
        BY <1>5, <1>8, <2>1, <2>3 DEF Grantable, IInv, Typed
    <2>13. QED BY <1>5, <2>7, <2>11, <2>12, OwnStep
<1>9. QED BY <1>5, <1>6, <1>7, <1>8

LEMMA ReleaseTyped ==
    ASSUME Typed, NEW c \in Clients, Release(c)
    PROVE  /\ lock' \in [Slugs -> Clients \cup {NoClient}]
           /\ \A x \in Slugs : lock'[x] = lock[x] \/ (lock[x] = c /\ lock'[x] = NoClient)
           /\ \A x \in Slugs : lock'[x] # c
           /\ tx' \in [Clients -> Txs \cup {NoTx}]
           /\ ~Open(c)' /\ \A d \in Clients : d # c => tx'[d] = tx[d]
BY Basics DEF Release, Typed, Open, NoTx

LEMMA AbortKeeps ==
    ASSUME IInv, NEW c \in Clients, Abort(c)
    PROVE  IInv'
<1>1. Release(c) /\ UNCHANGED <<current, versions>>
    BY DEF Abort
<1>2. Typed'
    BY <1>1, ReleaseTyped DEF IInv, Typed
<1>3. Stored'
    BY <1>1 DEF IInv, Stored, PinFits
<1>4. (\A x \in Slugs : lock[x] # NoClient => Open(lock[x]))'
    BY <1>1, ReleaseTyped DEF IInv, Typed, Open
<1>5. ASSUME NEW d \in Clients, Open(d)' PROVE Fits(d, tx[d])'
    <2>1. tx' = [tx EXCEPT ![c] = NoTx]
        BY <1>1 DEF Release
    <2>2. d # c
        BY <1>1, <1>5, ReleaseTyped DEF IInv
    <2>3. \A x \in Slugs : lock'[x] = lock[x] \/ lock[x] \in {NoClient, c}
        BY <1>1, ReleaseTyped DEF IInv
    <2>4. QED BY <1>1, <1>5, <2>1, <2>2, <2>3, OthersKept
<1>6. QED BY <1>2, <1>3, <1>4, <1>5 DEF IInv

LEMMA Extended ==
    ASSUME NEW S, NEW s \in Seq(S), NEW e \in S, NEW k, k = Len(s) + 1
    PROVE  /\ [n \in DOMAIN s \cup {k} |-> IF n = k THEN e ELSE s[n]] = Append(s, e)
           /\ Append(s, e) \in Seq(S) /\ Len(Append(s, e)) = k
           /\ Append(s, e)[k] = e
           /\ \A n \in 1..Len(s) : Append(s, e)[n] = s[n]
<1>1. Len(s) \in Nat /\ DOMAIN s = 1..Len(s)
    OBVIOUS
<1>2. /\ Append(s, e) \in Seq(S) /\ Len(Append(s, e)) = k
      /\ Append(s, e)[k] = e
      /\ \A n \in 1..Len(s) : Append(s, e)[n] = s[n]
    OBVIOUS
<1>3. DOMAIN s \cup {k} = 1..k
    BY <1>1
<1>4. Append(s, e) = [n \in 1..k |-> Append(s, e)[n]]
    <2>1. Append(s, e) \in Seq(S) /\ Len(Append(s, e)) = k
        BY <1>2
    <2> HIDE <1>2
    <2> DEFINE a == Append(s, e)
    <2>2. a \in Seq(S) /\ Len(a) = k
        BY <2>1
    <2> HIDE DEF a
    <2>3. a = [n \in 1..k |-> a[n]]
        BY <2>2
    <2>4. QED BY <2>3 DEF a
<1>5. \A n \in 1..k : Append(s, e)[n] = IF n = k THEN e ELSE s[n]
    BY <1>1, <1>2
<1>6. QED BY <1>2, <1>3, <1>4, <1>5

(* What a commit makes of the store.                                       *)
LEMMA Committed ==
    ASSUME IInv, NEW c \in Clients, Commit(c), NEW x \in Slugs
    PROVE  /\ tx[c] \in Txs /\ Fits(c, tx[c])
           /\ current'[x] = Sees(tx[c], x)
           /\ current'[x] \in Nat /\ current[x] <= current'[x]
           /\ x \notin DOMAIN tx[c].staged =>
                current'[x] = current[x] /\ versions'[x] = versions[x]
           /\ x \in DOMAIN tx[c].staged =>
                /\ lock[x] = c
                /\ current'[x] = current[x] + 1
                /\ versions'[x] = Append(versions[x], [doc |-> tx[c].staged[x].doc,
                                                       pin |-> tx[c].staged[x].pin])
                /\ [doc |-> tx[c].staged[x].doc, pin |-> tx[c].staged[x].pin] \in Rows
<1>1. tx[c] \in Txs /\ Fits(c, tx[c])
    BY OpenTx DEF Commit, Open, IInv
<1>2. /\ current[x] \in Nat /\ versions[x] \in Seq(Rows) /\ Len(versions[x]) = current[x]
    BY DEF IInv, Typed, Stored
<1>3. CASE x \notin DOMAIN tx[c].staged
    BY <1>1, <1>2, <1>3 DEF Commit, Sees
<1>4. CASE x \in DOMAIN tx[c].staged
    <2>1. PICK e : e = [doc |-> tx[c].staged[x].doc, pin |-> tx[c].staged[x].pin]
        OBVIOUS
    <2>2. PICK k : k = tx[c].staged[x].n
        OBVIOUS
    <2>3. lock[x] = c /\ k = current[x] + 1
        BY <1>1, <1>4, <2>2 DEF Fits, Written
    <2>4. e \in Rows
        BY <1>1, <1>4, <2>1, TxFacts DEF Writes, Rows
    <2>5. versions'[x] = [n \in DOMAIN versions[x] \cup {k} |-> IF n = k THEN e ELSE versions[x][n]]
        BY <1>4, <2>1, <2>2 DEF Commit
    <2>6. versions'[x] = Append(versions[x], e)
        BY <1>2, <2>3, <2>4, <2>5, Extended
    <2>7. current'[x] = k /\ Sees(tx[c], x) = k
        BY <1>4, <2>2 DEF Commit, Sees
    <2>8. QED BY <1>1, <1>2, <1>4, <2>1, <2>3, <2>4, <2>6, <2>7
<1>5. QED BY <1>3, <1>4

LEMMA CommitKeeps ==
    ASSUME IInv, NEW c \in Clients, Commit(c)
    PROVE  IInv'
<1>1. Release(c)
    BY DEF Commit
<1>2. Typed'
    <2>1. current' \in [Slugs -> Nat]
        BY Committed DEF Commit
    <2>2. ASSUME NEW x \in Slugs PROVE versions'[x] \in Seq(Rows)
        <3>1. versions[x] \in Seq(Rows)
            BY DEF IInv, Typed
        <3>2. CASE x \notin DOMAIN tx[c].staged
            BY <3>1, <3>2, Committed
        <3>3. CASE x \in DOMAIN tx[c].staged
            <4>1. PICK e \in Rows : versions'[x] = Append(versions[x], e)
                BY <3>3, Committed
            <4>2. QED BY <3>1, <4>1
        <3>4. QED BY <3>2, <3>3
    <2>3. versions' \in [Slugs -> Seq(Rows)]
        BY <2>2 DEF Commit
    <2>4. QED BY <1>1, <2>1, <2>3, ReleaseTyped DEF IInv, Typed
<1>3. ASSUME NEW v, v.doc \in Docs, NEW m, PinFits(v, m),
             v.doc.workflow \in Slugs =>
                m \in Nat /\ m <= current'[v.doc.workflow]
      PROVE  PinFits(v, current'[v.doc.workflow])
    <2>1. v.doc.workflow # NoWorkflow => v.doc.workflow \in Slugs
        BY <1>3, Basics DEF Slugs
    <2>2. v.doc.workflow \in Slugs => current'[v.doc.workflow] \in Nat
        BY Committed
    <2>3. QED BY <1>3, <2>1, <2>2, PinGrows
<1>4. ASSUME NEW x \in Slugs
      PROVE  /\ Len(versions'[x]) = current'[x]
             /\ \A n \in 1..current'[x] :
                 /\ versions'[x][n].doc.slug = x
                 /\ PinFits(versions'[x][n], current'[versions'[x][n].doc.workflow])
    <2>1. /\ current[x] \in Nat /\ versions[x] \in Seq(Rows) /\ Len(versions[x]) = current[x]
        BY DEF IInv, Typed, Stored
    <2>2. ASSUME NEW n \in 1..current[x]
          PROVE  /\ versions[x][n].doc.slug = x
                 /\ PinFits(versions[x][n], current'[versions[x][n].doc.workflow])
        <3>1. versions[x][n].doc \in Docs
            <4>1. n \in 1..Len(versions[x])
                BY <2>1, <2>2
            <4>2. versions[x][n] \in Rows
                BY <2>1, <4>1
            <4>3. QED BY <4>2 DEF Rows
        <3>2. /\ versions[x][n].doc.slug = x
              /\ PinFits(versions[x][n], current[versions[x][n].doc.workflow])
            BY <2>2 DEF IInv, Stored
        <3>3. ASSUME NEW w \in Slugs PROVE current[w] \in Nat /\ current[w] <= current'[w]
            BY Committed DEF IInv, Typed
        <3>4. QED BY <1>3, <3>1, <3>2, <3>3
    <2>3. CASE x \notin DOMAIN tx[c].staged
        <3>1. versions'[x] = versions[x] /\ current'[x] = current[x]
            BY <2>3, Committed
        <3>2. QED BY <2>1, <2>2, <3>1
    <2>4. CASE x \in DOMAIN tx[c].staged
        <3>1. PICK e : e = [doc |-> tx[c].staged[x].doc, pin |-> tx[c].staged[x].pin]
            OBVIOUS
        <3>2. /\ versions'[x] = Append(versions[x], e) /\ e \in Rows
              /\ current'[x] = current[x] + 1
            BY <2>4, <3>1, Committed
        <3>3. /\ Len(versions'[x]) = current'[x] /\ versions'[x][current'[x]] = e
              /\ \A n \in 1..current[x] : versions'[x][n] = versions[x][n]
            BY <2>1, <3>2, Extended
        <3>4. tx[c].staged[x].doc \in Docs /\ e.doc = tx[c].staged[x].doc /\ e.doc.slug = x
            <4>1. tx[c] \in Txs /\ tx[c].staged[x].doc.slug = x
                <5>1. tx[c] \in Txs /\ Fits(c, tx[c])
                    BY Committed
                <5>2. QED BY <2>4, <5>1 DEF Fits, Written
            <4>2. tx[c].staged[x].doc \in Docs
                BY <2>4, <4>1, TxFacts DEF Writes
            <4>3. QED BY <3>1, <4>1, <4>2
        <3>5. PinFits(e, Sees(tx[c], e.doc.workflow))
            BY <2>4, <3>1, Committed DEF Fits, Written, PinFits
        <3>6. ASSUME NEW w \in Slugs PROVE Sees(tx[c], w) = current'[w] /\ current'[w] \in Nat
            BY Committed
        <3>7. PinFits(e, current'[e.doc.workflow])
            BY <1>3, <3>4, <3>5, <3>6
        <3>8. \A n \in 1..current'[x] : n \in 1..current[x] \/ n = current'[x]
            BY <2>1, <3>2
        <3>9. QED BY <2>2, <3>3, <3>4, <3>7, <3>8
    <2>5. QED BY <2>3, <2>4
<1>5. Stored'
    BY <1>4 DEF Stored, PinFits
<1>6. (\A x \in Slugs : lock[x] # NoClient => Open(lock[x]))'
    BY <1>1, ReleaseTyped DEF IInv, Typed, Open
<1>7. ASSUME NEW d \in Clients, Open(d)' PROVE Fits(d, tx[d])'
    <2>1. d # c /\ tx'[d] = tx[d] /\ Open(d)
        BY <1>1, <1>7, ReleaseTyped DEF IInv, Open
    <2>2. PICK t : t = tx[d]
        OBVIOUS
    <2>3. t \in Txs /\ Fits(d, t)
        BY <2>1, <2>2, OpenTx DEF IInv
    <2>4. ASSUME NEW x \in DOMAIN t.staged
          PROVE  /\ x \in Slugs /\ lock'[x] = d
                 /\ current'[x] = current[x] /\ versions'[x] = versions[x]
        <3>1. x \in Slugs /\ lock[x] = d
            BY <2>3, TxFacts DEF Fits, Written
        <3>2. x \notin DOMAIN tx[c].staged
            BY <2>1, <3>1, Committed
        <3>3. lock'[x] = d
            BY <1>1, <2>1, <3>1, ReleaseTyped DEF IInv
        <3>4. QED BY <3>1, <3>2, <3>3, Committed
    <2>5. ASSUME NEW x \in Slugs
          PROVE  Sees(t, x) \in Nat /\ Sees(t, x)' \in Nat /\ Sees(t, x) <= Sees(t, x)'
        <3>1. Sees(t, x) \in Nat
            BY <2>1, <2>2, <2>3, SeesNumber DEF Sees, Visible
        <3>2. CASE x \in DOMAIN t.staged
            BY <3>1, <3>2 DEF Sees
        <3>3. CASE x \notin DOMAIN t.staged
            BY <3>1, <3>3, Committed DEF Sees
        <3>4. QED BY <3>2, <3>3
    <2>6. ASSUME NEW v, v.doc \in Docs, PinFits(v, Sees(t, v.doc.workflow))
          PROVE  PinFits(v, Sees(t, v.doc.workflow)')
        <3>1. v.doc.workflow # NoWorkflow => v.doc.workflow \in Slugs
            BY <2>6, Basics DEF Slugs
        <3>2. QED BY <2>5, <2>6, <3>1, PinGrows
    <2>7. Written(d, t)'
        <3>1. ASSUME NEW x \in DOMAIN t.staged
              PROVE  PinFits(t.staged[x], Sees(t, t.staged[x].doc.workflow)')
            BY <2>3, <2>6, TxFacts DEF Fits, Written, Writes
        <3>2. QED BY <2>3, <2>4, <3>1 DEF Fits, Written, PinFits
    <2>8. ASSUME NEW item \in Items, Fresh(t, item) PROVE Fresh(t, item)'
        BY <2>6, <2>8 DEF Fresh, PinFits, Items
    <2>9. Pending(t)'
        BY <2>3, <2>8, TxFacts DEF Fits, Pending, Repin, Named, Last
    <2>10. Chosen(t)'
        <3>1. t.step \in {"pinned", "look"} =>
                /\ t.item \in Items /\ t.item.doc.slug \in Slugs
                /\ Fresh(t, t.item)'
            BY <2>3, <2>8, Basics DEF Fits, Chosen, Items
        <3>2. t.step = "look" => t.seen <= current'[t.item.doc.slug]
            <4> SUFFICES ASSUME t.step = "look" PROVE t.seen <= current'[t.item.doc.slug]
                OBVIOUS
            <4>1. PICK x \in Slugs : x = t.item.doc.slug
                BY <3>1
            <4>2. t.seen \in Nat /\ t.seen <= current[x]
                BY <2>3, <4>1, TxFacts DEF Fits, Chosen
            <4>3. current[x] \in Nat /\ current'[x] \in Nat /\ current[x] <= current'[x]
                BY Committed DEF IInv, Typed
            <4>4. QED BY <4>1, <4>2, <4>3
        <3>3. QED BY <2>3, <3>1, <3>2 DEF Fits, Chosen, Repin, Named, Last
    <2>11. Raised(t)'
        <3>1. t.step = "failed" => t.item \in Items /\ t.item.doc.slug \in Slugs
            BY <2>3, Basics DEF Fits, Raised, Items
        <3>2. t.step = "failed" => t.seen < current'[t.item.doc.slug]
            <4> SUFFICES ASSUME t.step = "failed" PROVE t.seen < current'[t.item.doc.slug]
                OBVIOUS
            <4>1. PICK x \in Slugs : x = t.item.doc.slug
                BY <3>1
            <4>2. t.seen \in Nat /\ t.seen < current[x]
                BY <2>3, <4>1, TxFacts DEF Fits, Raised
            <4>3. current[x] \in Nat /\ current'[x] \in Nat /\ current[x] <= current'[x]
                BY Committed DEF IInv, Typed
            <4>4. QED BY <4>1, <4>2, <4>3
        <3>3. QED BY <3>1, <3>2 DEF Raised
    <2>12. Processed(t)'
        BY <2>3 DEF Fits, Processed, Named, Past
    <2>13. Resolved(t)'
        <3>1. ASSUME NEW w \in Slugs PROVE current[w] # 0 => current'[w] # 0
            <4>1. current[w] \in Nat /\ current'[w] \in Nat /\ current[w] <= current'[w]
                BY Committed DEF IInv, Typed
            <4>2. QED BY <4>1
        <3>2. \A i \in DOMAIN t.bundle.docs :
                t.bundle.docs[i].workflow = NoWorkflow \/ t.bundle.docs[i].workflow \in Slugs
            BY <2>3, TxFacts, BundleFacts, Basics DEF Slugs
        <3>3. QED BY <2>3, <3>1, <3>2 DEF Fits, Resolved
    <2>14. Reached(t)'
        <3>1. \A i \in 1..t.bundle.flows : t.bundle.docs[i].slug \in Slugs
            BY <2>3, TxFacts, BundleFacts, Basics
        <3>2. \A x \in Slugs : Sees(t, x) # 0 => Sees(t, x)' # 0
            BY <2>5
        <3>3. QED BY <2>3, <3>1, <3>2 DEF Fits, Reached
    <2>15. Fits(d, t)'
        BY <2>7, <2>9, <2>10, <2>11, <2>12, <2>13, <2>14 DEF Fits
    <2>16. QED BY <2>1, <2>2, <2>15
<1>8. QED BY <1>2, <1>5, <1>6, <1>7 DEF IInv

LEMMA StutterKeeps ==
    ASSUME IInv, UNCHANGED vars
    PROVE  IInv'
<1>1. Typed' /\ Stored'
    BY DEF IInv, Typed, Stored, PinFits, vars
<1>2. (\A x \in Slugs : lock[x] # NoClient => Open(lock[x]))'
    BY DEF IInv, Open, vars
<1>3. ASSUME NEW d \in Clients, Open(d)' PROVE Fits(d, tx[d])'
    <2>1. PICK t : t = tx[d] /\ tx'[d] = t
        BY DEF vars
    <2>2. Fits(d, t)
        BY <1>3, <2>1 DEF IInv, Open
    <2>3. UNCHANGED <<current, versions, lock>>
        BY DEF vars
    <2>4. Fits(d, t)'
        BY <2>2, <2>3, StillFits
    <2>5. QED BY <2>1, <2>4
<1>4. QED BY <1>1, <1>2, <1>3 DEF IInv

LEMMA NextKeeps == IInv /\ [Next]_vars => IInv'
<1> SUFFICES ASSUME IInv, [Next]_vars PROVE IInv'
    OBVIOUS
<1>1. CASE Next
    <2>1. PICK c \in Clients : Begin(c) \/ Work(c) \/ Abort(c)
        BY <1>1 DEF Next
    <2>2. CASE Begin(c)
        BY <2>2, BeginKeeps
    <2>3. CASE Work(c)
        BY <2>3, LookWorkflowKeeps, ReadPinKeeps, LookFormKeeps, ListKeeps, LookRepinKeeps,
           UpsertKeeps, CommitKeeps DEF Work
    <2>4. CASE Abort(c)
        BY <2>4, AbortKeeps
    <2>5. QED BY <2>1, <2>2, <2>3, <2>4
<1>2. CASE UNCHANGED vars
    BY <1>2, StutterKeeps
<1>3. QED BY <1>1, <1>2

THEOREM Invariance == Spec => []IInv
BY InitSound, NextKeeps, PTL DEF Spec

-----------------------------------------------------------------------------

(* Locks belong to open transactions, and a write is under its lock. *)
THEOREM TypeSafety == Spec => []TypeOK
<1>1. IInv => TypeOK
    <2> SUFFICES ASSUME IInv PROVE TypeOK
        OBVIOUS
    <2>1. ASSUME NEW x \in Slugs, NEW n \in DOMAIN versions[x]
          PROVE  versions[x][n].doc.slug = x
        <3>1. n \in 1..current[x]
            BY DEF IInv, Typed, Stored
        <3>2. QED BY <3>1 DEF IInv, Stored
    <2>2. \A c \in Clients : Open(c) => \A x \in DOMAIN tx[c].staged : lock[x] = c
        BY DEF IInv, Fits, Written
    <2>3. QED BY <2>1, <2>2 DEF IInv, Typed, TypeOK
<1>2. QED BY <1>1, Invariance, PTL

(* The numbers of a slug's versions are 1, 2, ..., the last one current. *)
THEOREM VersionsRun == Spec => []NumbersRun
<1>1. IInv => NumbersRun
    BY DEF IInv, Typed, Stored, NumbersRun
<1>2. QED BY <1>1, Invariance, PTL

(* What is written and not committed is the successor of the current one. *)
THEOREM WritesFollow == Spec => []StagedFollows
<1>1. IInv => StagedFollows
    <2> SUFFICES ASSUME IInv, NEW c \in Clients, Open(c), NEW x \in DOMAIN tx[c].staged
                 PROVE  tx[c].staged[x].n = current[x] + 1
        BY DEF StagedFollows
    <2>1. Written(c, tx[c])
        BY DEF IInv, Fits
    <2>2. QED BY <2>1 DEF Written
<1>2. QED BY <1>1, Invariance, PTL

(* An apply fails only because of a version committed while it waited. *)
THEOREM FailureIsConflict == Spec => []FailsOnlyOnConflict
<1>1. IInv => FailsOnlyOnConflict
    BY DEF IInv, Fits, Raised, Open, FailsOnlyOnConflict
<1>2. QED BY <1>1, Invariance, PTL

(* Locks, numbers and uncommitted versions fit together in every state,    *)
(* and nothing but a conflict makes an apply fail.                         *)
THEOREM StoreIsSound == Spec => []StoreSound
BY TypeSafety, VersionsRun, WritesFollow, FailureIsConflict, PTL DEF StoreSound

(* A commit appends to the lists of the slugs it wrote, and to no other.   *)
LEMMA CommitIsGrowth ==
    ASSUME IInv, NEW c \in Clients, Commit(c)
    PROVE  Log!Next
<1>1. IInv'
    BY CommitKeeps
<1>2. DOMAIN versions' = Slugs
    BY DEF Commit
<1>3. ASSUME NEW x \in Slugs PROVE versions'[x] = versions[x] \/ Log!Grows(x)
    <2>1. CASE x \notin DOMAIN tx[c].staged
        BY <2>1, Committed
    <2>2. CASE x \in DOMAIN tx[c].staged
        <3>1. PICK e : e = [doc |-> tx[c].staged[x].doc, pin |-> tx[c].staged[x].pin]
            OBVIOUS
        <3>2. versions'[x] = Append(versions[x], e) /\ e \in Rows /\ current'[x] = current[x] + 1
            BY <2>2, <3>1, Committed
        <3>3. /\ versions[x] \in Seq(Rows) /\ Len(versions[x]) = current[x] /\ current[x] \in Nat
            BY DEF IInv, Typed, Stored
        <3>4. Len(versions'[x]) = current'[x] /\ versions'[x][Len(versions'[x])] = e
            BY <3>2, <3>3, Extended
        <3>5. tx[c] \in Txs /\ Fits(c, tx[c])
            BY Committed
        <3>6. e.doc \in Docs /\ e.doc.slug = x
            BY <2>2, <3>1, <3>2, <3>5 DEF Fits, Written, Rows
        <3>7. versions[x] # << >> => e # versions[x][Len(versions[x])]
            <4>1. versions[x] # << >> => current[x] # 0
                BY <3>3
            <4>2. QED BY <2>2, <3>1, <3>3, <3>5, <4>1 DEF Fits, Written
        <3>8. Log!Pinned(e, versions')
            <4>1. current'[x] \in 1..current'[x]
                BY <3>2, <3>3
            <4>2. PinFits(e, current'[e.doc.workflow])
                BY <1>1, <3>4, <4>1 DEF IInv, Stored, PinFits
            <4>3. e.doc.workflow # NoWorkflow => e.doc.workflow \in Slugs
                BY <3>6, Basics DEF Slugs
            <4>4. \A w \in Slugs : DOMAIN versions'[w] = 1..current'[w]
                BY <1>1 DEF IInv, Typed, Stored
            <4>5. QED BY <4>2, <4>3, <4>4 DEF PinFits, Log!Pinned, NoPin, Log!NoPin
        <3>9. QED BY <3>2, <3>4, <3>6, <3>7, <3>8 DEF Log!Grows
    <2>3. QED BY <2>1, <2>2
<1>4. QED BY <1>2, <1>3 DEF Log!Next

LEMMA StepIsLogStep == IInv /\ [Next]_vars => [Log!Next]_versions
<1> SUFFICES ASSUME IInv, [Next]_vars PROVE Log!Next \/ versions' = versions
    OBVIOUS
<1>1. CASE UNCHANGED vars
    BY <1>1 DEF vars
<1>2. CASE Next
    <2>1. PICK c \in Clients : Begin(c) \/ Work(c) \/ Abort(c)
        BY <1>2 DEF Next
    <2>2. CASE Commit(c)
        BY <2>2, CommitIsGrowth
    <2>3. CASE ~Commit(c)
        BY <2>1, <2>3, Zenon DEF Begin, Work, Abort, LookWorkflow, ReadPin, LookForm, List, LookRepin,
                          Upsert, Look
    <2>4. QED BY <2>2, <2>3
<1>3. QED BY <1>1, <1>2

(* The store keeps the promises of VersionLog. *)
THEOREM StoreImplementsVersions == Spec => ImplementsVersions
<1>1. Init => Log!Init
    BY DEF Init, Log!Init
<1>2. QED
    BY <1>1, Invariance, StepIsLogStep, PTL DEF Spec, ImplementsVersions, Log!Spec
=============================================================================
