-------------------------- MODULE EditorPageProofs --------------------------
(***************************************************************************)
(* Proofs about EditorPage, for any definitions, texts and keys.           *)
(*                                                                         *)
(* What a save leaves behind (IInv): the definition that is being saved is *)
(* the one that is shown until somebody edits (Saving), a page without     *)
(* unsaved edits shows what it opened (Clean), and while a new definition  *)
(* is being put, its slug is only taken if the race was lost (FreeSlug).   *)
(*                                                                         *)
(* What the page shows (WellFormed): a form or a workflow as the reducers  *)
(* know it, with the place of an entry selected (Held); problems are such  *)
(* places (Shown); what is saved is such a definition (Stored); and until  *)
(* a text is typed, a workflow refers to nothing it does not have (Known). *)
(* For that, every action of the reducers is shown to go on from such a    *)
(* definition to such a definition (FormGoesOn, FlowGoesOn), and every     *)
(* panel to dispatch only those.                                           *)
(*                                                                         *)
(* On the way: the rules of validation.ts and those of the server compared *)
(* for any definition, and what renaming, removing, moving and copying do  *)
(* to the conditions of a form and to the diagram of a workflow, entry by  *)
(* entry.                                                                  *)
(***************************************************************************)
EXTENDS EditorPage, DataInduction, FiniteSetTheorems, TLAPS

-----------------------------------------------------------------------------
(* Lists, and what is put into and taken out of them. *)

LEMMA MapSeq ==
    ASSUME NEW T, NEW U, NEW s \in Seq(T), NEW f, DOMAIN f = DOMAIN s, f = [j \in DOMAIN f |-> f[j]],
           \A j \in DOMAIN s : f[j] \in U
    PROVE  f \in Seq(U) /\ Len(f) = Len(s)
<1>1. PICK n \in Nat : n = Len(s) /\ DOMAIN s = 1..n
  BY LenProperties
<1>2. f \in [1..n -> U]
  BY <1>1
<1>3. f \in Seq(U)
  BY <1>1, <1>2, SeqDef
<1>4. DOMAIN f = 1..Len(f) /\ Len(f) \in Nat
  BY <1>3, LenProperties
<1> QED
  BY <1>1, <1>3, <1>4

(* What was at the place after i comes to be at i. *)
Up(j, i) == IF j < i THEN j ELSE j + 1

LEMMA RemoveAtIs ==
    ASSUME NEW T, NEW s \in Seq(T), NEW i \in DOMAIN s
    PROVE  /\ RemoveAt(s, i) \in Seq(T) /\ DOMAIN RemoveAt(s, i) = 1..(Len(s) - 1)
           /\ Len(RemoveAt(s, i)) = Len(s) - 1
           /\ \A j \in 1..(Len(s) - 1) : RemoveAt(s, i)[j] = s[Up(j, i)] /\ Up(j, i) \in DOMAIN s
<1>1. PICK n \in Nat : n = Len(s) /\ DOMAIN s = 1..n /\ i \in 1..n
  BY LenProperties
<1>2. \A j \in 1..n : s[j] \in T
  BY <1>1, ElementOfSeq
<1>3. PICK a : a = SubSeq(s, 1, i - 1)
  OBVIOUS
<1>4. PICK b : b = SubSeq(s, i + 1, n)
  OBVIOUS
<1>5. a \in Seq(T) /\ Len(a) = i - 1 /\ \A j \in 1..(i - 1) : a[j] = s[j]
  <2>1. \A j \in 1..(i - 1) : s[j] \in T
    BY <1>1, <1>2
  <2>2. /\ a \in Seq(T) /\ Len(a) = IF 1 <= i - 1 THEN i - 1 - 1 + 1 ELSE 0
        /\ \A j \in 1..(i - 1 - 1 + 1) : a[j] = s[1 + j - 1]
    BY <1>1, <1>3, <2>1, SubSeqProperties
  <2> QED
    BY <1>1, <2>2
<1>6. b \in Seq(T) /\ Len(b) = n - i /\ \A j \in 1..(n - i) : b[j] = s[i + j]
  <2>1. \A j \in (i + 1)..n : s[j] \in T
    BY <1>1, <1>2
  <2>2. /\ b \in Seq(T) /\ Len(b) = IF i + 1 <= n THEN n - (i + 1) + 1 ELSE 0
        /\ \A j \in 1..(n - (i + 1) + 1) : b[j] = s[(i + 1) + j - 1]
    BY <1>1, <1>4, <2>1, SubSeqProperties
  <2>3. n - (i + 1) + 1 = n - i /\ Len(b) = n - i
    BY <1>1, <2>2
  <2>4. ASSUME NEW j \in 1..(n - i) PROVE b[j] = s[i + j]
    <3>1. b[j] = s[(i + 1) + j - 1]
      BY <2>2, <2>3
    <3>2. (i + 1) + j - 1 = i + j
      BY <1>1
    <3> QED
      BY <3>1, <3>2
  <2> QED
    BY <2>2, <2>3, <2>4
<1>7. PICK r : r = RemoveAt(s, i) /\ r = a \o b
  BY <1>1, <1>3, <1>4 DEF RemoveAt
<1>8. /\ r \in Seq(T) /\ Len(r) = (i - 1) + (n - i)
      /\ \A j \in 1..((i - 1) + (n - i)) : r[j] = IF j <= i - 1 THEN a[j] ELSE b[j - (i - 1)]
  BY <1>5, <1>6, <1>7, ConcatProperties
<1>9. Len(r) = n - 1 /\ DOMAIN r = 1..(n - 1)
  BY <1>1, <1>8, LenProperties
<1>10. ASSUME NEW j \in 1..(n - 1) PROVE r[j] = s[Up(j, i)] /\ Up(j, i) \in DOMAIN s
  <2>1. CASE j < i
    BY <1>1, <1>5, <1>8, <1>10, <2>1 DEF Up
  <2>2. CASE ~(j < i)
    <3>1. PICK k : k = j - (i - 1)
      OBVIOUS
    <3>2. k \in 1..(n - i) /\ i + k = j + 1 /\ r[j] = b[k]
      BY <1>1, <1>8, <1>10, <2>2, <3>1
    <3>3. b[k] = s[j + 1] /\ j + 1 \in 1..n
      BY <1>1, <1>6, <3>2
    <3> QED
      BY <1>1, <2>2, <3>2, <3>3 DEF Up
  <2> QED
    BY <2>1, <2>2
<1> QED
  BY <1>1, <1>7, <1>8, <1>9, <1>10

LEMMA InsertAtIs ==
    ASSUME NEW T, NEW s \in Seq(T), NEW i \in DOMAIN s, NEW e \in T
    PROVE  /\ InsertAt(s, i + 1, e) \in Seq(T) /\ DOMAIN InsertAt(s, i + 1, e) = 1..(Len(s) + 1)
           /\ \A j \in 1..(Len(s) + 1) :
                InsertAt(s, i + 1, e)[j] = IF j <= i THEN s[j] ELSE IF j = i + 1 THEN e ELSE s[j - 1]
<1>1. PICK n \in Nat : n = Len(s) /\ DOMAIN s = 1..n /\ i \in 1..n
  BY LenProperties
<1>2. \A j \in 1..n : s[j] \in T
  BY <1>1, ElementOfSeq
<1>3. PICK a : a = SubSeq(s, 1, (i + 1) - 1)
  OBVIOUS
<1>4. PICK b : b = SubSeq(s, i + 1, n)
  OBVIOUS
<1>5. a \in Seq(T) /\ Len(a) = i /\ \A j \in 1..i : a[j] = s[j]
  <2>1. \A j \in 1..((i + 1) - 1) : s[j] \in T
    BY <1>1, <1>2
  <2>2. /\ a \in Seq(T) /\ Len(a) = IF 1 <= (i + 1) - 1 THEN (i + 1) - 1 - 1 + 1 ELSE 0
        /\ \A j \in 1..((i + 1) - 1 - 1 + 1) : a[j] = s[1 + j - 1]
    BY <1>1, <1>3, <2>1, SubSeqProperties
  <2> QED
    BY <1>1, <2>2
<1>6. b \in Seq(T) /\ Len(b) = n - i /\ \A j \in 1..(n - i) : b[j] = s[i + j]
  <2>1. \A j \in (i + 1)..n : s[j] \in T
    BY <1>1, <1>2
  <2>2. /\ b \in Seq(T) /\ Len(b) = IF i + 1 <= n THEN n - (i + 1) + 1 ELSE 0
        /\ \A j \in 1..(n - (i + 1) + 1) : b[j] = s[(i + 1) + j - 1]
    BY <1>1, <1>4, <2>1, SubSeqProperties
  <2>3. n - (i + 1) + 1 = n - i /\ Len(b) = n - i
    BY <1>1, <2>2
  <2>4. ASSUME NEW j \in 1..(n - i) PROVE b[j] = s[i + j]
    <3>1. b[j] = s[(i + 1) + j - 1]
      BY <2>2, <2>3
    <3>2. (i + 1) + j - 1 = i + j
      BY <1>1
    <3> QED
      BY <3>1, <3>2
  <2> QED
    BY <2>2, <2>3, <2>4
<1>7. PICK one : one = <<e>>
  OBVIOUS
<1>8. one \in Seq(T) /\ Len(one) = 1 /\ one[1] = e
  BY <1>7
<1>9. PICK c : c = a \o one
  OBVIOUS
<1>10. /\ c \in Seq(T) /\ Len(c) = i + 1
       /\ \A j \in 1..(i + 1) : c[j] = IF j <= i THEN a[j] ELSE one[j - i]
  <2>1. /\ c \in Seq(T) /\ Len(c) = Len(a) + Len(one)
        /\ \A j \in 1..(Len(a) + Len(one)) : c[j] = IF j <= Len(a) THEN a[j] ELSE one[j - Len(a)]
    BY <1>5, <1>8, <1>9, ConcatProperties
  <2> QED
    BY <1>5, <1>8, <2>1
<1>11. PICK r : r = InsertAt(s, i + 1, e) /\ r = c \o b
  BY <1>1, <1>3, <1>4, <1>7, <1>9 DEF InsertAt
<1>12. /\ r \in Seq(T) /\ Len(r) = (i + 1) + (n - i)
       /\ \A j \in 1..((i + 1) + (n - i)) : r[j] = IF j <= i + 1 THEN c[j] ELSE b[j - (i + 1)]
  <2>1. /\ r \in Seq(T) /\ Len(r) = Len(c) + Len(b)
        /\ \A j \in 1..(Len(c) + Len(b)) : r[j] = IF j <= Len(c) THEN c[j] ELSE b[j - Len(c)]
    <3>1. c \in Seq(T) /\ b \in Seq(T) /\ r = c \o b
      BY <1>6, <1>10, <1>11
    <3> QED
      BY <3>1, ConcatProperties
  <2> QED
    BY <1>6, <1>10, <2>1
<1>13. Len(r) = n + 1 /\ DOMAIN r = 1..(n + 1)
  BY <1>1, <1>12, LenProperties
<1>14. ASSUME NEW j \in 1..(n + 1)
       PROVE  r[j] = IF j <= i THEN s[j] ELSE IF j = i + 1 THEN e ELSE s[j - 1]
  <2>1. CASE j <= i
    BY <1>1, <1>5, <1>10, <1>12, <1>14, <2>1
  <2>2. CASE j = i + 1
    BY <1>1, <1>8, <1>10, <1>12, <1>14, <2>2
  <2>3. CASE j > i + 1
    <3>1. PICK k : k = j - (i + 1)
      OBVIOUS
    <3>2. k \in 1..(n - i) /\ i + k = j - 1 /\ j \in 1..((i + 1) + (n - i)) /\ ~(j <= i + 1)
      BY <1>1, <2>3, <3>1
    <3>4. r[j] = b[k]
      BY <1>12, <3>1, <3>2
    <3>3. b[k] = s[j - 1]
      BY <1>6, <3>2
    <3> QED
      BY <1>1, <2>3, <3>3, <3>4
  <2> QED
    BY <1>1, <1>14, <2>1, <2>2, <2>3
<1> QED
  BY <1>1, <1>11, <1>12, <1>13, <1>14

LEMMA AppendIs ==
    ASSUME NEW T, NEW s \in Seq(T), NEW e \in T
    PROVE  /\ Append(s, e) \in Seq(T) /\ DOMAIN Append(s, e) = 1..(Len(s) + 1)
           /\ Len(Append(s, e)) = Len(s) + 1
           /\ \A j \in 1..(Len(s) + 1) : Append(s, e)[j] = IF j = Len(s) + 1 THEN e ELSE s[j]
<1>1. PICK n \in Nat : n = Len(s) /\ DOMAIN s = 1..n
  BY LenProperties
<1>2. PICK r : r = Append(s, e)
  OBVIOUS
<1>3. /\ r \in Seq(T) /\ Len(r) = n + 1 /\ r[n + 1] = e
      /\ \A j \in 1..n : r[j] = s[j]
  BY <1>1, <1>2, AppendProperties
<1>4. DOMAIN r = 1..(n + 1)
  BY <1>3, LenProperties
<1> QED
  BY <1>1, <1>2, <1>3, <1>4

-----------------------------------------------------------------------------
(* How often a key occurs. *)

LEMMA CountIs ==
    ASSUME NEW T, NEW list \in Seq(T), NEW k
    PROVE  /\ Count(list, k) = 0 <=> \A j \in DOMAIN list : list[j].key # k
           /\ \A i \in DOMAIN list : list[i].key = k =>
                (Follows(list, k) <=> \A j \in DOMAIN list : list[j].key = k => j = i)
<1>1. PICK S : S = {j \in DOMAIN list : list[j].key = k}
  OBVIOUS
<1>2. IsFiniteSet(S)
  <2>1. PICK n \in Nat : DOMAIN list = 1..n
    BY LenProperties
  <2>2. IsFiniteSet(1..n) /\ S \in SUBSET (1..n)
    BY <1>1, <2>1, FS_Interval
  <2> QED
    BY <2>2, FS_Subset
<1>3. Count(list, k) = Cardinality(S)
  BY <1>1 DEF Count
<1>4. Cardinality(S) = 0 <=> S = {}
  BY <1>2, FS_EmptySet
<1>5. Cardinality(S) = 1 <=> \E x : S = {x}
  BY <1>2, FS_Singleton
<1>6. Count(list, k) = 0 <=> \A j \in DOMAIN list : list[j].key # k
  BY <1>1, <1>3, <1>4
<1>7. ASSUME NEW i \in DOMAIN list, list[i].key = k
      PROVE  Follows(list, k) <=> \A j \in DOMAIN list : list[j].key = k => j = i
  <2>1. Follows(list, k) <=> \E x : S = {x}
    BY <1>3, <1>5 DEF Follows
  <2>2. i \in S
    BY <1>1, <1>7
  <2>3. (\E x : S = {x}) <=> S = {i}
    BY <2>2
  <2>4. S = {i} <=> \A j \in DOMAIN list : list[j].key = k => j = i
    BY <1>1, <2>2
  <2> QED
    BY <2>1, <2>3, <2>4
<1> QED
  BY <1>6, <1>7

(* A name is found that nothing has. *)
LEMMA FreshIsNew ==
    ASSUME NEW T, NEW list \in Seq(T)
    PROVE  Fresh(KeysOf(list)) \in Nat \ {0} /\ Fresh(KeysOf(list)) \notin KeysOf(list)
<1>1. PICK S : S = KeysOf(list)
  OBVIOUS
<1>2. PICK n \in Nat : DOMAIN list = 1..n
  BY LenProperties
<1>3. PICK c : c = Cardinality(S) /\ c \in Nat /\ IsFiniteSet(S)
  <2>1. PICK f : f = [j \in 1..n |-> list[j].key]
    OBVIOUS
  <2>2. IsFiniteSet(1..n) /\ f \in [1..n -> S] /\ \A k \in S : \E j \in 1..n : f[j] = k
    <3>1. IsFiniteSet(1..n)
      BY FS_Interval
    <3>2. \A j \in 1..n : f[j] = list[j].key
      BY <2>1
    <3>3. S = {list[j].key : j \in 1..n}
      BY <1>1, <1>2 DEF KeysOf
    <3> QED
      BY <2>1, <3>1, <3>2, <3>3
  <2>3. f \in Surjection(1..n, S)
    BY <2>2 DEF Surjection
  <2>4. IsFiniteSet(S)
    BY <2>2, <2>3, FS_Surjection
  <2> QED
    BY <2>4, FS_CardinalityType
<1>4. PICK N : N = {m \in Nat : m > 0 /\ m \notin S}
  OBVIOUS
<1>5. \E m \in 1..(c + 1) : m \in N
  <2> SUFFICES ASSUME \A m \in 1..(c + 1) : m \in S PROVE FALSE
    BY <1>4
  <2>1. 1..(c + 1) \in SUBSET S
    OBVIOUS
  <2>2. Cardinality(1..(c + 1)) = c + 1
    BY <1>3, FS_Interval
  <2>3. Cardinality(1..(c + 1)) <= Cardinality(S)
    BY <1>3, <2>1, FS_Subset
  <2> QED
    BY <1>3, <2>2, <2>3
<1>6. N \in SUBSET Nat /\ N # {}
  BY <1>4, <1>5
<1>7. PICK m \in N : \A k \in N : m <= k
  BY <1>6, LeastNumber
<1>8. m \in 1..(c + 1) /\ m \notin S /\ \A k \in 1..(m - 1) : k \in S
  <2>1. m \in Nat /\ m > 0 /\ m \notin S
    BY <1>4
  <2>2. m <= c + 1
    BY <1>3, <1>5, <1>7, <2>1
  <2>3. ASSUME NEW k \in 1..(m - 1) PROVE k \in S
    <3>1. k \in Nat /\ k > 0 /\ ~(m <= k)
      BY <2>1
    <3> QED
      BY <1>4, <1>7, <3>1
  <2> QED
    BY <1>3, <2>1, <2>2, <2>3
<1>9. PICK x : x = Fresh(S) /\ x \in 1..(c + 1) /\ x \notin S
  BY <1>3, <1>8, Zenon DEF Fresh
<1> QED
  BY <1>1, <1>3, <1>9

-----------------------------------------------------------------------------
(* The rules of the editor and those of the server, entry by entry: what   *)
(* the schema, the editor and the server find wrong with it.               *)

FieldUnfit(d, i) == LET f == d.fields[i] IN
    f.key = 0 \/ f.label = "empty" \/ f.options = "unnamed" \/ (f.showIf.op # "no" /\ f.showIf.field = 0)
FieldWrong(d, i) ==
    \/ BadKey(d.fields, i) \/ BadOptions(d.fields[i]) \/ MisplacedLimits(d.fields[i])
    \/ d.fields[i].pattern \in {"re2", "neither"} \/ BadCondition(d.fields, i)
FieldRefused(d, i) ==
    \/ BadKey(d.fields, i) \/ Blank(d.fields[i].label) \/ ~validate_options(d.fields[i])
    \/ MisplacedLimits(d.fields[i]) \/ d.fields[i].pattern \in {"js", "neither"}
    \/ ~validate_condition(d.fields, i)

StateUnfit(d, i)   == d.states[i].key = 0 \/ d.states[i].label = "empty"
StateWrong(d, i)   == BadKey(d.states, i)
StateRefused(d, i) == BadKey(d.states, i) \/ Blank(d.states[i].label)

EntryUnfit(d, i) == LET f == d.fields[i] IN f.key = 0 \/ f.label = "empty" \/ f.options = "unnamed"
EntryWrong(d, i) ==
    BadKey(d.fields, i) \/ (d.fields[i].type = "choice" /\ d.fields[i].options \in {"none", "empty"})
EntryRefused(d, i) == BadKey(d.fields, i) \/ Blank(d.fields[i].label) \/ ~validate_options(d.fields[i])

StepUnfit(d, i) == LET t == d.transitions[i] IN
    \/ t.key = 0 \/ t.label = "empty" \/ t.roles = "empty" \/ t.from = {}
    \/ 0 \in t.from \cup {t.to} \cup t.needs
StepWrong(d, i)   == BadKey(d.transitions, i) \/ BadTransition(d, d.transitions[i])
StepRefused(d, i) == BadKey(d.transitions, i) \/ ~validate_transition(d, d.transitions[i])

FormUnfit(d) == d.slug \notin GoodSlugs \/ d.title = "empty" \/ d.fields = << >>
FormRefused(d) == d.slug \notin GoodSlugs \/ Blank(d.title) \/ d.fields = << >>
FlowUnfit(d) == d.slug \notin GoodSlugs \/ d.title = "empty" \/ d.initial = 0 \/ d.states = << >>
FlowWrong(d) ==
    d.slug \notin GoodSlugs \/ d.initial \notin KeysOf(d.states) \ {0} \/ RefusedBy(d.onSubmit, "editor")
FlowRefused(d) ==
    \/ d.slug \notin GoodSlugs \/ Blank(d.title) \/ d.states = << >> \/ seen(d.states, d.initial) = {}
    \/ RefusedBy(d.onSubmit, "server")

LEMMA FormProblemsAre ==
    ASSUME NEW d
    PROVE  /\ \A p : p \in formSchemaProblems(d) <=>
                \/ p = Settings /\ FormUnfit(d)
                \/ \E i \in DOMAIN d.fields : p = Place("fields", i) /\ FieldUnfit(d, i)
           /\ \A p : p \in formSemanticProblems(d) <=>
                \/ p = Settings /\ d.slug \notin GoodSlugs
                \/ \E i \in DOMAIN d.fields : p = Place("fields", i) /\ FieldWrong(d, i)
           /\ \A p : p \in validate_form(d) <=>
                \/ p = Settings /\ FormRefused(d)
                \/ \E i \in DOMAIN d.fields : p = Place("fields", i) /\ FieldRefused(d, i)
<1>1. \A p : p \in formSchemaProblems(d) <=>
        \/ p = Settings /\ FormUnfit(d)
        \/ \E i \in DOMAIN d.fields : p = Place("fields", i) /\ FieldUnfit(d, i)
  BY DEF formSchemaProblems, When, Places, FormUnfit, FieldUnfit
<1>2. \A p : p \in formSemanticProblems(d) <=>
        \/ p = Settings /\ d.slug \notin GoodSlugs
        \/ \E i \in DOMAIN d.fields : p = Place("fields", i) /\ FieldWrong(d, i)
  BY DEF formSemanticProblems, When, Places, FieldWrong
<1>3. \A p : p \in validate_form(d) <=>
        \/ p = Settings /\ FormRefused(d)
        \/ \E i \in DOMAIN d.fields : p = Place("fields", i) /\ FieldRefused(d, i)
  BY DEF validate_form, When, Places, FormRefused, FieldRefused
<1> QED
  BY <1>1, <1>2, <1>3

LEMMA WorkflowProblemsAre ==
    ASSUME NEW d
    PROVE  /\ \A p : p \in workflowSchemaProblems(d) <=>
                \/ p = Settings /\ FlowUnfit(d)
                \/ \E i \in DOMAIN d.states : p = Place("states", i) /\ StateUnfit(d, i)
                \/ \E i \in DOMAIN d.fields : p = Place("fields", i) /\ EntryUnfit(d, i)
                \/ \E i \in DOMAIN d.transitions : p = Place("transitions", i) /\ StepUnfit(d, i)
           /\ \A p : p \in workflowSemanticProblems(d) <=>
                \/ p = Settings /\ FlowWrong(d)
                \/ \E i \in DOMAIN d.states : p = Place("states", i) /\ StateWrong(d, i)
                \/ \E i \in DOMAIN d.fields : p = Place("fields", i) /\ EntryWrong(d, i)
                \/ \E i \in DOMAIN d.transitions : p = Place("transitions", i) /\ StepWrong(d, i)
           /\ \A p : p \in validate_workflow(d) <=>
                \/ p = Settings /\ FlowRefused(d)
                \/ \E i \in DOMAIN d.states : p = Place("states", i) /\ StateRefused(d, i)
                \/ \E i \in DOMAIN d.fields : p = Place("fields", i) /\ EntryRefused(d, i)
                \/ \E i \in DOMAIN d.transitions : p = Place("transitions", i) /\ StepRefused(d, i)
<1>1. \A p : p \in workflowSchemaProblems(d) <=>
        \/ p = Settings /\ FlowUnfit(d)
        \/ \E i \in DOMAIN d.states : p = Place("states", i) /\ StateUnfit(d, i)
        \/ \E i \in DOMAIN d.fields : p = Place("fields", i) /\ EntryUnfit(d, i)
        \/ \E i \in DOMAIN d.transitions : p = Place("transitions", i) /\ StepUnfit(d, i)
  BY DEF workflowSchemaProblems, When, Places, FlowUnfit, StateUnfit, EntryUnfit, StepUnfit
<1>2. \A p : p \in workflowSemanticProblems(d) <=>
        \/ p = Settings /\ FlowWrong(d)
        \/ \E i \in DOMAIN d.states : p = Place("states", i) /\ StateWrong(d, i)
        \/ \E i \in DOMAIN d.fields : p = Place("fields", i) /\ EntryWrong(d, i)
        \/ \E i \in DOMAIN d.transitions : p = Place("transitions", i) /\ StepWrong(d, i)
  BY DEF workflowSemanticProblems, When, Places, FlowWrong, StateWrong, EntryWrong, StepWrong
<1>3. \A p : p \in validate_workflow(d) <=>
        \/ p = Settings /\ FlowRefused(d)
        \/ \E i \in DOMAIN d.states : p = Place("states", i) /\ StateRefused(d, i)
        \/ \E i \in DOMAIN d.fields : p = Place("fields", i) /\ EntryRefused(d, i)
        \/ \E i \in DOMAIN d.transitions : p = Place("transitions", i) /\ StepRefused(d, i)
  BY DEF validate_workflow, When, Places, FlowRefused, StateRefused, EntryRefused, StepRefused
<1> QED
  BY <1>1, <1>2, <1>3

(* What the server knows a key by is one of its holders, and the first of  *)
(* them it knows.                                                          *)
LEMMA SeenIsKey == ASSUME NEW list, NEW k, NEW i \in seen(list, k) PROVE i \in DOMAIN list /\ list[i].key = k /\ k \in KeysOf(list) \ {0}
BY DEF seen, KeysOf, BadKey

LEMMA FirstIsSeen ==
    ASSUME NEW T, NEW list \in Seq(T), NEW i \in DOMAIN list, list[i].key # 0
    PROVE  \E j \in seen(list, list[i].key) : j <= i
<1>1. PICK n \in Nat : DOMAIN list = 1..n
  BY LenProperties
<1>2. PICK S : S = {j \in DOMAIN list : list[j].key = list[i].key}
  OBVIOUS
<1>3. PICK j \in S : \A m \in S : j <= m
  <2>1. S \in SUBSET Nat /\ S # {}
    BY <1>1, <1>2
  <2> QED
    BY <2>1, LeastNumber
<1>4. j \in 1..n /\ list[j].key = list[i].key /\ j <= i
  BY <1>1, <1>2, <1>3
<1>5. ASSUME NEW m \in 1..(j - 1) PROVE list[m].key # list[j].key
  <2>1. m \in DOMAIN list /\ ~(j <= m)
    BY <1>1, <1>4
  <2> QED
    BY <1>2, <1>3, <1>4, <2>1
<1> QED
  BY <1>1, <1>4, <1>5 DEF seen, BadKey

LEMMA SeenKeys ==
    ASSUME NEW T, NEW list \in Seq(T), NEW k
    PROVE  seen(list, k) # {} <=> k \in KeysOf(list) \ {0}
<1>1. ASSUME k \in KeysOf(list) \ {0} PROVE seen(list, k) # {}
  <2>1. PICK i \in DOMAIN list : list[i].key = k /\ list[i].key # 0
    BY <1>1 DEF KeysOf
  <2> QED
    BY <2>1, FirstIsSeen
<1> QED
  BY <1>1, SeenIsKey

LEMMA PlaceIs ==
    ASSUME NEW where, NEW i
    PROVE  Place(where, i) = [at |-> where, i |-> i] /\ Place(where, i).at = where /\ Place(where, i).i = i
BY DEF Place

LEMMA AfterTheSchema ==
    ASSUME NEW d
    PROVE  /\ formSchemaProblems(d) # {} \/ parse_form(d) = validate_form(d)
           /\ formSchemaProblems(d) = {} \/ parse_form(d) = formSchemaProblems(d)
           /\ workflowSchemaProblems(d) # {} \/ parse_workflow(d) = validate_workflow(d)
           /\ workflowSchemaProblems(d) = {} \/ parse_workflow(d) = workflowSchemaProblems(d)
BY DEF parse_form, parse_workflow

(* One field of a form, once the schema has nothing against it. *)
LEMMA FieldsCompared ==
    ASSUME NEW d, IsForm(d), \A j \in DOMAIN d.fields : ~FieldUnfit(d, j), NEW i \in DOMAIN d.fields
    PROVE  /\ (FieldRefused(d, i) /\ ~FieldWrong(d, i)) =>
                \/ d.fields[i].label = "blank" \/ d.fields[i].options = "padded" \/ d.fields[i].pattern = "js"
                \/ d.fields[i].showIf.op \in {"inNothing", "null"}
           /\ (FieldWrong(d, i) /\ ~FieldRefused(d, i)) =>
                d.fields[i].pattern = "re2" \/ d.fields[i].showIf.op = "nullAnd"
<1>1. PICK fields \in Seq(FormFields) : fields = d.fields
  BY DEF IsForm
<1>2. PICK n \in Nat : DOMAIN fields = 1..n
  BY LenProperties
<1>3. PICK f \in FormFields : f = fields[i]
  BY <1>1, ElementOfSeq, LenProperties
<1>4. /\ f.label \in Labels /\ f.label # "empty" /\ f.options \in OptionLists /\ f.options # "unnamed"
      /\ f.pattern \in Patterns /\ f.type \in FieldTypes
  BY <1>1, <1>3 DEF FormFields, FieldUnfit
<1>5. Blank(f.label) <=> f.label = "blank"
  BY <1>4 DEF Blank, Labels
<1>6. /\ (~validate_options(f) /\ ~BadOptions(f)) => f.options = "padded"
      /\ BadOptions(f) => ~validate_options(f)
  BY <1>4 DEF validate_options, BadOptions, Filled, OptionLists
<1>7. /\ (f.pattern \in {"js", "neither"} /\ f.pattern \notin {"re2", "neither"}) => f.pattern = "js"
      /\ (f.pattern \in {"re2", "neither"} /\ f.pattern \notin {"js", "neither"}) => f.pattern = "re2"
  OBVIOUS
<1>8. ASSUME f.showIf.op # "no"
      PROVE  f.showIf.field \in Earlier(fields, i) <=> \E j \in seen(fields, f.showIf.field) : j < i
  <2>1. ASSUME NEW j \in seen(fields, f.showIf.field), j < i PROVE f.showIf.field \in Earlier(fields, i)
    <3>1. j \in 1..(i - 1) /\ fields[j].key = f.showIf.field
      BY <1>1, <1>2, <2>1, SeenIsKey
    <3> QED
      BY <3>1 DEF Earlier
  <2>2. ASSUME f.showIf.field \in Earlier(fields, i) PROVE \E j \in seen(fields, f.showIf.field) : j < i
    <3>1. PICK m \in 1..(i - 1) : fields[m].key = f.showIf.field
      BY <2>2 DEF Earlier
    <3>2. m \in DOMAIN fields /\ m < i /\ i \in Nat
      BY <1>1, <1>2, <3>1
    <3>3. fields[m].key # 0
      BY <1>1, <1>3, <1>8, <3>1 DEF FieldUnfit
    <3>4. PICK j \in seen(fields, fields[m].key) : j <= m
      BY <1>1, <3>2, <3>3, FirstIsSeen
    <3>5. j \in Nat
      BY <1>1, <1>2, <3>4, SeenIsKey
    <3> QED
      BY <1>2, <3>1, <3>2, <3>4, <3>5
  <2> QED
    BY <2>1, <2>2
<1>9. f.showIf.op # "no" => f.showIf.op \in Operators
  BY <1>3 DEF FormFields, NoCondition
<1>10. /\ (~validate_condition(fields, i) /\ ~BadCondition(fields, i)) => f.showIf.op \in {"inNothing", "null"}
       /\ (BadCondition(fields, i) /\ validate_condition(fields, i)) => f.showIf.op = "nullAnd"
  BY <1>3, <1>8, <1>9 DEF validate_condition, BadCondition, Operators
<1> QED
  BY <1>1, <1>3, <1>5, <1>6, <1>7, <1>10 DEF FieldRefused, FieldWrong

LEMMA FormRulesAgree ==
    ASSUME NEW d, IsForm(d)
    PROVE  /\ \A p \in parse_form(d) \ validateForm(d) :
                \/ p = Settings /\ d.title = "blank"
                \/ p.at = "fields" /\ \/ d.fields[p.i].label = "blank" \/ d.fields[p.i].options = "padded"
                                      \/ d.fields[p.i].pattern = "js"
                                      \/ d.fields[p.i].showIf.op \in {"inNothing", "null"}
           /\ \A p \in validateForm(d) \ parse_form(d) :
                \/ formSchemaProblems(d) # {}
                \/ p.at = "fields" /\ (d.fields[p.i].pattern = "re2" \/ d.fields[p.i].showIf.op = "nullAnd")
<1>1. CASE formSchemaProblems(d) # {}
  BY <1>1, AfterTheSchema DEF validateForm
<1>2. CASE formSchemaProblems(d) = {}
  <2>1. parse_form(d) = validate_form(d) /\ validateForm(d) = formSemanticProblems(d)
    BY <1>2, AfterTheSchema DEF validateForm
  <2>2. ~FormUnfit(d) /\ \A j \in DOMAIN d.fields : ~FieldUnfit(d, j)
    BY <1>2, FormProblemsAre
  <2>3. ASSUME NEW p, p \in validate_form(d), p \notin formSemanticProblems(d)
        PROVE  \/ p = Settings /\ d.title = "blank"
               \/ p.at = "fields" /\ \/ d.fields[p.i].label = "blank" \/ d.fields[p.i].options = "padded"
                                     \/ d.fields[p.i].pattern = "js"
                                     \/ d.fields[p.i].showIf.op \in {"inNothing", "null"}
    <3>1. CASE p = Settings /\ FormRefused(d)
      BY <2>2, <3>1 DEF FormRefused, FormUnfit, Blank
    <3>2. ASSUME NEW i \in DOMAIN d.fields, p = Place("fields", i), FieldRefused(d, i)
          PROVE  p.at = "fields" /\ \/ d.fields[p.i].label = "blank" \/ d.fields[p.i].options = "padded"
                                    \/ d.fields[p.i].pattern = "js"
                                    \/ d.fields[p.i].showIf.op \in {"inNothing", "null"}
      <4>1. ~FieldWrong(d, i)
        BY <2>3, <3>2, FormProblemsAre
      <4> QED
        BY <2>2, <3>2, <4>1, FieldsCompared, PlaceIs
    <3> QED
      BY <2>3, <3>1, <3>2, FormProblemsAre
  <2>4. ASSUME NEW p, p \in formSemanticProblems(d), p \notin validate_form(d)
        PROVE  p.at = "fields" /\ (d.fields[p.i].pattern = "re2" \/ d.fields[p.i].showIf.op = "nullAnd")
    <3>1. ~(p = Settings /\ d.slug \notin GoodSlugs)
      BY <2>2 DEF FormUnfit
    <3>2. PICK i \in DOMAIN d.fields : p = Place("fields", i) /\ FieldWrong(d, i)
      BY <2>4, <3>1, FormProblemsAre
    <3>3. ~FieldRefused(d, i)
      BY <2>4, <3>2, FormProblemsAre
    <3> QED
      BY <2>2, <3>2, <3>3, FieldsCompared, PlaceIs
  <2> QED
    BY <2>1, <2>3, <2>4
<1> QED
  BY <1>1, <1>2

LEMMA RefusedByOne ==
    ASSUME NEW actions \in Seq(Actions)
    PROVE  /\ (RefusedBy(actions, "server") /\ ~RefusedBy(actions, "editor")) =>
                \E j \in DOMAIN actions : actions[j].refusedBy = {"server"}
           /\ (RefusedBy(actions, "editor") /\ ~RefusedBy(actions, "server")) =>
                \E j \in DOMAIN actions : actions[j].refusedBy = {"editor"}
<1>1. ASSUME NEW j \in DOMAIN actions PROVE actions[j].refusedBy \in SUBSET Sides
  <2>1. actions[j] \in Actions
    BY ElementOfSeq, LenProperties
  <2> QED
    BY <2>1 DEF Actions
<1>2. ASSUME NEW j \in DOMAIN actions, "server" \in actions[j].refusedBy, "editor" \notin actions[j].refusedBy
      PROVE  actions[j].refusedBy = {"server"}
  BY <1>1, <1>2 DEF Sides
<1>3. ASSUME NEW j \in DOMAIN actions, "editor" \in actions[j].refusedBy, "server" \notin actions[j].refusedBy
      PROVE  actions[j].refusedBy = {"editor"}
  BY <1>1, <1>3 DEF Sides
<1> QED
  BY <1>2, <1>3, Zenon DEF RefusedBy

(* One transition, once the schema has nothing against it. *)
LEMMA StepsCompared ==
    ASSUME NEW d, IsWorkflow(d), NEW i \in DOMAIN d.transitions, ~StepUnfit(d, i)
    PROVE  LET t == d.transitions[i] IN
           /\ (StepRefused(d, i) /\ ~StepWrong(d, i)) =>
                \/ t.label = "blank" \/ t.roles = "blank"
                \/ \E j \in DOMAIN t.actions : t.actions[j].refusedBy = {"server"}
           /\ (StepWrong(d, i) /\ ~StepRefused(d, i)) =>
                \/ \E j \in DOMAIN t.actions : t.actions[j].refusedBy = {"editor"}
                \/ \E k \in t.from \cap Terminal(d) : Count(d.states, k) > 1
<1>1. PICK states \in Seq(States), fields \in Seq(WorkflowFields) : states = d.states /\ fields = d.fields
  BY DEF IsWorkflow
<1>2. PICK t \in Transitions : t = d.transitions[i]
  BY ElementOfSeq, LenProperties DEF IsWorkflow
<1>3. /\ t.label \in Labels /\ t.roles \in Labels /\ t.label # "empty" /\ t.roles # "empty"
      /\ t.from # {} /\ t.actions \in Seq(Actions)
  BY <1>2 DEF StepUnfit, Transitions
<1>4. (Blank(t.label) <=> t.label = "blank") /\ (Blank(t.roles) <=> t.roles = "blank")
  BY <1>3 DEF Blank, Labels
<1>5. /\ seen(states, t.to) # {} <=> t.to \in KeysOf(states) \ {0}
      /\ (\A k \in t.needs : seen(fields, k) # {}) <=> t.needs \subseteq KeysOf(fields) \ {0}
      /\ (\A k \in t.from : seen(states, k) # {}) <=> t.from \subseteq KeysOf(states) \ {0}
  BY <1>1, SeenKeys
<1>6. ASSUME NEW k, NEW m \in seen(states, k), states[m].terminal PROVE k \in Terminal(d)
  BY <1>1, <1>6, SeenIsKey DEF Terminal
<1>7. ASSUME NEW k \in Terminal(d), NEW m \in seen(states, k), ~states[m].terminal
      PROVE  Count(states, k) > 1
  <2>1. PICK h \in DOMAIN states : states[h].key = k /\ states[h].terminal
    BY <1>1, <1>7 DEF Terminal
  <2>2. m \in DOMAIN states /\ states[m].key = k /\ m # h
    BY <1>7, <2>1, SeenIsKey
  <2>3. Count(states, k) # 0 /\ Count(states, k) # 1
    BY <2>1, <2>2, CountIs DEF Follows
  <2>4. Count(states, k) \in Nat
    <3>1. PICK n \in Nat : DOMAIN states = 1..n
      BY LenProperties
    <3>2. PICK S : S = {j \in DOMAIN states : states[j].key = k}
      OBVIOUS
    <3>3. IsFiniteSet(S)
      BY <3>1, <3>2, FS_Interval, FS_Subset
    <3> QED
      BY <3>2, <3>3, FS_CardinalityType DEF Count
  <2> QED
    BY <2>3, <2>4
<1>8. PICK kept : kept <=> \A k \in t.from : \E m \in seen(states, k) : ~states[m].terminal
  OBVIOUS
<1>9. kept => t.from \subseteq KeysOf(states) \ {0}
  BY <1>1, <1>8, SeenIsKey
<1>10. (~kept /\ t.from \subseteq KeysOf(states) \ {0}) => t.from \cap Terminal(d) # {}
  BY <1>5, <1>6, <1>8
<1>11. (kept /\ t.from \cap Terminal(d) # {}) => \E k \in t.from \cap Terminal(d) : Count(states, k) > 1
  BY <1>7, <1>8
<1>12. validate_transition(d, t) <=>
            /\ t.label # "blank" /\ t.roles # "blank" /\ kept
            /\ t.to \in KeysOf(states) \ {0} /\ t.needs \subseteq KeysOf(fields) \ {0}
            /\ ~RefusedBy(t.actions, "server")
  BY <1>1, <1>3, <1>4, <1>5, <1>8 DEF validate_transition
<1>13. BadTransition(d, t) <=>
            \/ ~(t.from \subseteq KeysOf(states) \ {0}) \/ t.to \notin KeysOf(states) \ {0}
            \/ t.from \cap Terminal(d) # {} \/ ~(t.needs \subseteq KeysOf(fields) \ {0})
            \/ RefusedBy(t.actions, "editor")
  BY <1>1, <1>3 DEF BadTransition
<1>14. (~validate_transition(d, t) /\ ~BadTransition(d, t)) =>
            \/ t.label = "blank" \/ t.roles = "blank"
            \/ \E j \in DOMAIN t.actions : t.actions[j].refusedBy = {"server"}
  BY <1>3, <1>10, <1>12, <1>13, RefusedByOne
<1>15. (BadTransition(d, t) /\ validate_transition(d, t)) =>
            \/ \E j \in DOMAIN t.actions : t.actions[j].refusedBy = {"editor"}
            \/ \E k \in t.from \cap Terminal(d) : Count(states, k) > 1
  BY <1>3, <1>9, <1>11, <1>12, <1>13, RefusedByOne
<1> QED
  BY <1>1, <1>2, <1>14, <1>15 DEF StepRefused, StepWrong

(* Where only the server finds fault, and where only the editor does. *)
FlowServerOnly(d, p) ==
    \/ p = Settings /\ (d.title = "blank" \/ \E j \in DOMAIN d.onSubmit : d.onSubmit[j].refusedBy = {"server"})
    \/ p.at = "states" /\ d.states[p.i].label = "blank"
    \/ p.at = "fields" /\ LET f == d.fields[p.i] IN
           \/ f.label = "blank" \/ f.options \in {"double", "padded"}
           \/ f.options = "some" /\ f.type # "choice"
    \/ p.at = "transitions" /\ LET t == d.transitions[p.i] IN
           \/ t.label = "blank" \/ t.roles = "blank"
           \/ \E j \in DOMAIN t.actions : t.actions[j].refusedBy = {"server"}

FlowEditorOnly(d, p) ==
    \/ p = Settings /\ \E j \in DOMAIN d.onSubmit : d.onSubmit[j].refusedBy = {"editor"}
    \/ p.at = "transitions" /\ LET t == d.transitions[p.i] IN
           \/ \E j \in DOMAIN t.actions : t.actions[j].refusedBy = {"editor"}
           \/ \E k \in t.from \cap Terminal(d) : Count(d.states, k) > 1

LEMMA WorkflowRulesAgree ==
    ASSUME NEW d, IsWorkflow(d)
    PROVE  /\ \A p \in parse_workflow(d) \ validateWorkflow(d) : FlowServerOnly(d, p)
           /\ \A p \in validateWorkflow(d) \ parse_workflow(d) :
                workflowSchemaProblems(d) # {} \/ FlowEditorOnly(d, p)
<1>1. CASE workflowSchemaProblems(d) # {}
  BY <1>1, AfterTheSchema DEF validateWorkflow
<1>2. CASE workflowSchemaProblems(d) = {}
  <2>1. parse_workflow(d) = validate_workflow(d) /\ validateWorkflow(d) = workflowSemanticProblems(d)
    BY <1>2, AfterTheSchema DEF validateWorkflow
  <2>2. /\ ~FlowUnfit(d)
        /\ \A j \in DOMAIN d.states : ~StateUnfit(d, j)
        /\ \A j \in DOMAIN d.fields : ~EntryUnfit(d, j)
        /\ \A j \in DOMAIN d.transitions : ~StepUnfit(d, j)
    BY <1>2, WorkflowProblemsAre
  <2>3. /\ d.states \in Seq(States) /\ d.fields \in Seq(WorkflowFields) /\ d.onSubmit \in Seq(Actions)
        /\ d.title \in Labels
    BY DEF IsWorkflow
  <2>4. seen(d.states, d.initial) # {} <=> d.initial \in KeysOf(d.states) \ {0}
    BY <2>3, SeenKeys
  <2>5. /\ (FlowRefused(d) /\ ~FlowWrong(d)) => FlowServerOnly(d, Settings)
        /\ (FlowWrong(d) /\ ~FlowRefused(d)) => FlowEditorOnly(d, Settings)
    BY <2>2, <2>3, <2>4, RefusedByOne DEF FlowRefused, FlowWrong, FlowUnfit, Blank, FlowServerOnly, FlowEditorOnly
  <2>6. ASSUME NEW i \in DOMAIN d.states
        PROVE  /\ (StateRefused(d, i) /\ ~StateWrong(d, i)) => FlowServerOnly(d, Place("states", i))
               /\ (StateWrong(d, i) => StateRefused(d, i))
    BY <2>2, PlaceIs DEF StateRefused, StateWrong, StateUnfit, Blank, FlowServerOnly
  <2>7. ASSUME NEW i \in DOMAIN d.fields
        PROVE  /\ (EntryRefused(d, i) /\ ~EntryWrong(d, i)) => FlowServerOnly(d, Place("fields", i))
               /\ (EntryWrong(d, i) => EntryRefused(d, i))
    <3>1. PICK f \in WorkflowFields : f = d.fields[i]
      BY <2>3, ElementOfSeq, LenProperties
    <3>2. f.options \in OptionLists /\ f.type \in FieldTypes /\ f.options # "unnamed" /\ f.label # "empty"
      BY <2>2, <3>1 DEF WorkflowFields, EntryUnfit
    <3>3. (~validate_options(f) /\ ~(f.type = "choice" /\ f.options \in {"none", "empty"})) =>
              f.options \in {"double", "padded"} \/ (f.options = "some" /\ f.type # "choice")
      BY <3>2 DEF validate_options, OptionLists
    <3>4. (f.type = "choice" /\ f.options \in {"none", "empty"}) => ~validate_options(f)
      BY DEF validate_options
    <3> QED
      BY <3>1, <3>2, <3>3, <3>4, PlaceIs DEF EntryRefused, EntryWrong, Blank, FlowServerOnly
  <2>8. ASSUME NEW i \in DOMAIN d.transitions
        PROVE  /\ (StepRefused(d, i) /\ ~StepWrong(d, i)) => FlowServerOnly(d, Place("transitions", i))
               /\ (StepWrong(d, i) /\ ~StepRefused(d, i)) => FlowEditorOnly(d, Place("transitions", i))
    BY <2>2, StepsCompared, PlaceIs DEF FlowServerOnly, FlowEditorOnly
  <2>9. ASSUME NEW p, p \in validate_workflow(d), p \notin workflowSemanticProblems(d) PROVE FlowServerOnly(d, p)
    <3>1. CASE p = Settings /\ FlowRefused(d)
      BY <2>5, <2>9, <3>1, WorkflowProblemsAre
    <3>2. ASSUME NEW i \in DOMAIN d.states, p = Place("states", i), StateRefused(d, i) PROVE FlowServerOnly(d, p)
      BY <2>6, <2>9, <3>2, WorkflowProblemsAre
    <3>3. ASSUME NEW i \in DOMAIN d.fields, p = Place("fields", i), EntryRefused(d, i) PROVE FlowServerOnly(d, p)
      BY <2>7, <2>9, <3>3, WorkflowProblemsAre
    <3>4. ASSUME NEW i \in DOMAIN d.transitions, p = Place("transitions", i), StepRefused(d, i)
          PROVE  FlowServerOnly(d, p)
      BY <2>8, <2>9, <3>4, WorkflowProblemsAre
    <3> QED
      BY <2>9, <3>1, <3>2, <3>3, <3>4, WorkflowProblemsAre
  <2>10. ASSUME NEW p, p \in workflowSemanticProblems(d), p \notin validate_workflow(d) PROVE FlowEditorOnly(d, p)
    <3>1. CASE p = Settings /\ FlowWrong(d)
      BY <2>5, <2>10, <3>1, WorkflowProblemsAre
    <3>2. ASSUME NEW i \in DOMAIN d.states, p = Place("states", i), StateWrong(d, i) PROVE FALSE
      BY <2>6, <2>10, <3>2, WorkflowProblemsAre
    <3>3. ASSUME NEW i \in DOMAIN d.fields, p = Place("fields", i), EntryWrong(d, i) PROVE FALSE
      BY <2>7, <2>10, <3>3, WorkflowProblemsAre
    <3>4. ASSUME NEW i \in DOMAIN d.transitions, p = Place("transitions", i), StepWrong(d, i)
          PROVE  FlowEditorOnly(d, p)
      BY <2>8, <2>10, <3>4, WorkflowProblemsAre
    <3> QED
      BY <2>10, <3>1, <3>2, <3>3, <3>4, WorkflowProblemsAre
  <2> QED
    BY <2>1, <2>9, <2>10
<1> QED
  BY <1>1, <1>2

-----------------------------------------------------------------------------
IsEditor(e) == DOMAIN e = {"def", "sel", "dirty"}

-----------------------------------------------------------------------------
(* What the actions of the form editor keep. *)

(* A form that is edited, and what is selected in it. *)
FormHeld(e) ==
    /\ IsEditor(e) /\ IsForm(e.def)
    /\ e.sel = Settings \/ e.sel \in [at : {"fields"}, i : Nat \ {0}]

FieldThere(e) == e.sel = Settings \/ e.sel.i \in DOMAIN e.def.fields

FormRefs(fields) ==
    \A i \in DOMAIN fields : fields[i].showIf.op # "no" => fields[i].showIf.field \in KeysOf(fields)

(* The selected field had a condition on itself and is renamed. *)
SelfRenamed(e, r) ==
    <<e.sel.i, e.sel.i>> \in Controllers(e.def.fields) /\ \E k \in NewKeys : r = formRenameField(e, e.sel.i, k)

(* r is what an action in the panels makes of e. *)
FormGoesOn(e, r) ==
    /\ FormHeld(r)
    /\ FieldThere(e) => FieldThere(r)
    /\ FormRefs(e.def.fields) /\ ~SelfRenamed(e, r) => FormRefs(r.def.fields)

LEMMA WithFieldsIs ==
    ASSUME NEW e, FormHeld(e), NEW fields \in Seq(FormFields), NEW s
    PROVE  LET r == withFields(e, fields, s)
           IN  IsEditor(r) /\ IsForm(r.def) /\ r.def.fields = fields /\ r.def.slug = e.def.slug /\ r.sel = s
<1>1. PICK r : r = withFields(e, fields, s)
  OBVIOUS
<1>2. DOMAIN e = {"def", "sel", "dirty"} /\ e.def = [slug |-> e.def.slug, title |-> e.def.title, fields |-> e.def.fields]
  BY DEF FormHeld, IsEditor, IsForm
<1>3. r.def = [e.def EXCEPT !.fields = fields] /\ r.sel = s /\ DOMAIN r = DOMAIN e
  BY <1>1, <1>2 DEF withFields
<1>4. r.def = [slug |-> e.def.slug, title |-> e.def.title, fields |-> fields]
  BY <1>2, <1>3
<1> QED
  BY <1>1, <1>2, <1>3, <1>4 DEF FormHeld, IsEditor, IsForm

LEMMA FormListIs ==
    ASSUME NEW e, FormHeld(e)
    PROVE  /\ e.def.fields \in Seq(FormFields) /\ Len(e.def.fields) \in Nat
           /\ DOMAIN e.def.fields = 1..Len(e.def.fields)
           /\ \A i \in DOMAIN e.def.fields : e.def.fields[i] \in FormFields
<1>1. e.def.fields \in Seq(FormFields)
  BY DEF FormHeld, IsForm
<1> QED
  BY <1>1, LenProperties, ElementOfSeq

(* The list of fields is all that matters. *)
LEMMA FormStep ==
    ASSUME NEW e, FormHeld(e), NEW fields \in Seq(FormFields), NEW s,
           s = Settings \/ s \in [at : {"fields"}, i : Nat \ {0}],
           FieldThere(e) => s = Settings \/ s.i \in DOMAIN fields,
           FormRefs(e.def.fields) /\ ~SelfRenamed(e, withFields(e, fields, s)) => FormRefs(fields)
    PROVE  FormGoesOn(e, withFields(e, fields, s))
<1>1. PICK r : r = withFields(e, fields, s)
  OBVIOUS
<1>2. IsEditor(r) /\ IsForm(r.def) /\ r.def.fields = fields /\ r.sel = s
  BY <1>1, WithFieldsIs
<1> QED
  BY <1>1, <1>2 DEF FormGoesOn, FormHeld, FieldThere

LEMMA SetSlugGoesOn == ASSUME NEW e, FormHeld(e), NEW slug PROVE FormGoesOn(e, formSetSlug(e, slug))
<1>1. PICK r : r = formSetSlug(e, slug)
  OBVIOUS
<1>2. DOMAIN e = {"def", "sel", "dirty"} /\ e.def = [slug |-> e.def.slug, title |-> e.def.title, fields |-> e.def.fields]
  BY DEF FormHeld, IsEditor, IsForm
<1>3. r.def = [e.def EXCEPT !.slug = slug] /\ r.sel = e.sel /\ DOMAIN r = DOMAIN e
  BY <1>1, <1>2 DEF formSetSlug
<1>4. r.def = [slug |-> slug, title |-> e.def.title, fields |-> e.def.fields]
  BY <1>2, <1>3
<1> QED
  BY <1>1, <1>2, <1>3, <1>4 DEF FormGoesOn, FormHeld, FieldThere, IsEditor, IsForm

LEMMA SetTitleGoesOn == ASSUME NEW e, FormHeld(e), NEW title \in Labels PROVE FormGoesOn(e, formSetTitle(e, title))
<1>1. PICK r : r = formSetTitle(e, title)
  OBVIOUS
<1>2. DOMAIN e = {"def", "sel", "dirty"} /\ e.def = [slug |-> e.def.slug, title |-> e.def.title, fields |-> e.def.fields]
  BY DEF FormHeld, IsEditor, IsForm
<1>3. r.def = [e.def EXCEPT !.title = title] /\ r.sel = e.sel /\ DOMAIN r = DOMAIN e
  BY <1>1, <1>2 DEF formSetTitle
<1>4. r.def = [slug |-> e.def.slug, title |-> title, fields |-> e.def.fields]
  BY <1>2, <1>3
<1> QED
  BY <1>1, <1>2, <1>3, <1>4 DEF FormGoesOn, FormHeld, FieldThere, IsEditor, IsForm

LEMMA AddFieldGoesOn == ASSUME NEW e, FormHeld(e), NEW type \in FieldTypes PROVE FormGoesOn(e, formAddField(e, type))
<1>1. PICK fields \in Seq(FormFields) : fields = e.def.fields
  BY FormListIs
<1>2. PICK new : new = FormField(Fresh(KeysOf(fields)), type, StarterOptions(type))
  OBVIOUS
<1>3. new \in FormFields /\ new.showIf.op = "no"
  <2>1. Fresh(KeysOf(fields)) \in Nat
    BY <1>1, FreshIsNew
  <2> QED
    BY <1>2, <2>1 DEF FormField, FormFields, StarterOptions, OptionLists, NoCondition, Labels, Patterns
<1>4. PICK more : more = Append(fields, new)
  OBVIOUS
<1>5. PICK n \in Nat : n = Len(fields) /\ DOMAIN fields = 1..n
  BY <1>1, LenProperties
<1>6. /\ more \in Seq(FormFields) /\ DOMAIN more = 1..(n + 1)
      /\ \A j \in 1..(n + 1) : more[j] = IF j = n + 1 THEN new ELSE fields[j]
  BY <1>1, <1>3, <1>4, <1>5, AppendIs
<1>7. PICK s : s = Place("fields", n + 1)
  OBVIOUS
<1>8. s \in [at : {"fields"}, i : Nat \ {0}] /\ s.i \in DOMAIN more
  BY <1>5, <1>6, <1>7, PlaceIs
<1>9. FormRefs(fields) => FormRefs(more)
  <2> SUFFICES ASSUME FormRefs(fields), NEW j \in DOMAIN more, more[j].showIf.op # "no"
               PROVE  more[j].showIf.field \in KeysOf(more)
    BY DEF FormRefs
  <2>1. j \in DOMAIN fields /\ more[j] = fields[j]
    BY <1>3, <1>5, <1>6
  <2>2. PICK i \in DOMAIN fields : fields[i].key = more[j].showIf.field
    BY <2>1 DEF FormRefs, KeysOf
  <2>3. i \in DOMAIN more /\ more[i] = fields[i]
    BY <1>5, <1>6
  <2> QED
    BY <2>2, <2>3 DEF KeysOf
<1>10. formAddField(e, type) = withFields(e, more, s)
  BY <1>1, <1>2, <1>4, <1>5, <1>7 DEF formAddField
<1> QED
  BY <1>1, <1>6, <1>8, <1>9, <1>10, FormStep

(* A field that keeps its key takes a condition on nothing unknown. *)
LEMMA UpdateFieldGoesOn ==
    ASSUME NEW e, FormHeld(e), NEW i \in DOMAIN e.def.fields, NEW f \in FormFields, f.key = e.def.fields[i].key,
           FormRefs(e.def.fields) => (f.showIf.op # "no" => f.showIf.field \in KeysOf(e.def.fields))
    PROVE  FormGoesOn(e, formUpdateField(e, i, f))
<1>1. PICK fields \in Seq(FormFields) : fields = e.def.fields
  BY FormListIs
<1>2. PICK new : new = [fields EXCEPT ![i] = f]
  OBVIOUS
<1>3. /\ new \in Seq(FormFields) /\ DOMAIN new = DOMAIN fields
      /\ \A j \in DOMAIN fields : new[j] = IF j = i THEN f ELSE fields[j]
  BY <1>1, <1>2, ExceptSeq, LenProperties
<1>4. KeysOf(new) = KeysOf(fields)
  BY <1>1, <1>3 DEF KeysOf
<1>5. FormRefs(fields) => FormRefs(new)
  BY <1>1, <1>3, <1>4 DEF FormRefs
<1>6. formUpdateField(e, i, f) = withFields(e, new, e.sel)
  BY <1>1, <1>2 DEF formUpdateField
<1>7. (e.sel = Settings \/ e.sel \in [at : {"fields"}, i : Nat \ {0}]) /\ (FieldThere(e) => e.sel = Settings \/ e.sel.i \in DOMAIN new)
  BY <1>1, <1>3 DEF FormHeld, FieldThere
<1> QED
  BY <1>1, <1>3, <1>5, <1>6, <1>7, FormStep

LEMMA SetTypeGoesOn ==
    ASSUME NEW e, FormHeld(e), NEW i \in DOMAIN e.def.fields, NEW type \in FieldTypes
    PROVE  FormGoesOn(e, setFieldType(e, i, type))
<1>1. PICK f \in FormFields : f = e.def.fields[i]
  BY FormListIs
<1>2. PICK options : options = IF type = "choice" /\ f.options \in Filled
                               THEN f.options ELSE StarterOptions(type)
  OBVIOUS
<1>3. PICK limits : limits = FittingLimits(f.limits, type)
  OBVIOUS
<1>3a. PICK pattern : pattern = FittingPattern(f.pattern, type)
  OBVIOUS
<1>4. PICK g : g = [f EXCEPT !.type = type, !.options = options, !.limits = limits, !.pattern = pattern]
  OBVIOUS
<1>5. options \in OptionLists /\ limits \in SUBSET Limits /\ pattern \in Patterns
  BY <1>1, <1>2, <1>3, <1>3a DEF FormFields, StarterOptions, OptionLists, FittingLimits, FittingPattern, Patterns
<1>6. g \in FormFields /\ g.key = f.key /\ g.showIf = f.showIf
  BY <1>4, <1>5 DEF FormFields
<1>7. FormRefs(e.def.fields) => (g.showIf.op # "no" => g.showIf.field \in KeysOf(e.def.fields))
  BY <1>1, <1>6 DEF FormRefs
<1>8. setFieldType(e, i, type) = formUpdateField(e, i, g)
  BY <1>1, <1>2, <1>3, <1>3a, <1>4 DEF setFieldType
<1> QED
  BY <1>1, <1>6, <1>7, <1>8, UpdateFieldGoesOn

LEMMA PatchGoesOn ==
    ASSUME NEW e, FormHeld(e), NEW i \in DOMAIN e.def.fields, NEW labels \in SUBSET Labels,
           NEW f \in FieldPatches(e.def.fields, i, labels)
    PROVE  FormGoesOn(e, formUpdateField(e, i, f))
<1>1. PICK fields \in Seq(FormFields) : fields = e.def.fields
  BY FormListIs
<1>2. PICK g \in FormFields : g = fields[i]
  BY <1>1, FormListIs
<1>3. PICK n \in Nat : DOMAIN fields = 1..n
  BY <1>1, LenProperties
<1>4. \A j \in DOMAIN fields : fields[j].key \in Nat /\ fields[j].key \in KeysOf(fields)
  BY <1>1, FormListIs DEF FormFields, KeysOf
<1>5. CASE \E c \in Conditions(fields, i) : f = [g EXCEPT !.showIf = c]
  <2>1. PICK c \in Conditions(fields, i) : f = [g EXCEPT !.showIf = c]
    BY <1>5
  <2>2. /\ c \in {NoCondition} \cup [field : Nat, op : Operators]
        /\ FormRefs(fields) => (c.op # "no" => c.field \in KeysOf(fields))
    <3>1. CASE c = g.showIf
      BY <1>1, <1>2, <3>1 DEF FormFields, FormRefs
    <3>2. CASE c = NoCondition
      BY <3>2 DEF NoCondition
    <3>3. CASE i # 1 /\ c # g.showIf /\ c # NoCondition
      <4>1. i - 1 \in DOMAIN fields /\ 1..(i - 1) \in SUBSET (DOMAIN fields)
        BY <1>1, <1>3, <3>3
      <4>2. CASE g.showIf = NoCondition
        <5>1. c = [field |-> fields[i - 1].key, op |-> "is"]
          BY <1>2, <3>3, <4>2 DEF Conditions
        <5>2. c.field = fields[i - 1].key /\ c.op = "is"
          BY <5>1
        <5> QED
          BY <1>4, <4>1, <5>1, <5>2 DEF Operators
      <4>3. CASE g.showIf # NoCondition
        <5>1. c \in [field : Earlier(fields, i) \cup {g.showIf.field}, op : {"is", "in", "inNothing"} \cup Leftover(g.showIf.op)]
          BY <1>2, <3>3, <4>3 DEF Conditions
        <5>2. g.showIf \in [field : Nat, op : Operators] /\ g.showIf.op # "no"
          BY <1>2, <4>3 DEF FormFields, Operators
        <5>3. FormRefs(fields) => g.showIf.field \in KeysOf(fields)
          BY <1>1, <1>2, <5>2 DEF FormRefs
        <5>4. \A k \in Earlier(fields, i) : k \in Nat /\ k \in KeysOf(fields)
          BY <1>4, <4>1 DEF Earlier
        <5>5. Leftover(g.showIf.op) \in SUBSET Operators /\ "no" \notin Operators
          BY DEF Operators, Leftover
        <5> QED
          BY <5>1, <5>2, <5>3, <5>4, <5>5 DEF Operators
      <4> QED
        BY <4>2, <4>3
    <3>4. i = 1 => c = g.showIf
      BY <1>2 DEF Conditions
    <3> QED
      BY <3>1, <3>2, <3>3, <3>4
  <2>3. f \in FormFields /\ f.key = g.key /\ f.showIf = c
    BY <1>2, <2>1, <2>2 DEF FormFields
  <2> QED
    BY <1>1, <1>2, <2>2, <2>3, UpdateFieldGoesOn
<1>6. CASE \/ \E l \in labels : f = [g EXCEPT !.label = l]
           \/ \E p \in PatternsOffered(g) : f = [g EXCEPT !.pattern = p]
           \/ \E l \in LimitsOffered(g) : f = [g EXCEPT !.limits = l]
           \/ \E o \in OptionsOffered(g) : f = [g EXCEPT !.options = o]
  <2>1. f \in FormFields /\ f.key = g.key /\ f.showIf = g.showIf
    <3>1. LimitsOffered(g) \in SUBSET (SUBSET Limits)
      BY <1>2 DEF LimitsOffered, Limits, FormFields, FieldTypes
    <3>2. OptionsOffered(g) \in SUBSET OptionLists
      BY <1>2 DEF OptionsOffered, OptionLists, Filled, FormFields
    <3>3. CASE \E l \in SUBSET Limits : f = [g EXCEPT !.limits = l]
      BY <1>2, <3>3 DEF FormFields
    <3>4. CASE \E o \in OptionLists : f = [g EXCEPT !.options = o]
      BY <1>2, <3>4 DEF FormFields
    <3>5. CASE \E l \in Labels : f = [g EXCEPT !.label = l]
      BY <1>2, <3>5 DEF FormFields
    <3>6. CASE \E p \in Patterns : f = [g EXCEPT !.pattern = p]
      BY <1>2, <3>6 DEF FormFields
    <3>7. PatternsOffered(g) \in SUBSET Patterns
      BY <1>2 DEF PatternsOffered, FormFields
    <3> QED
      BY <1>6, <3>1, <3>2, <3>3, <3>4, <3>5, <3>6, <3>7
  <2>2. FormRefs(fields) => (f.showIf.op # "no" => f.showIf.field \in KeysOf(fields))
    BY <1>1, <1>2, <2>1 DEF FormRefs
  <2> QED
    BY <1>1, <1>2, <2>1, <2>2, UpdateFieldGoesOn
<1>7. \/ \E c \in Conditions(fields, i) : f = [g EXCEPT !.showIf = c]
      \/ \E l \in labels : f = [g EXCEPT !.label = l]
      \/ \E p \in PatternsOffered(g) : f = [g EXCEPT !.pattern = p]
      \/ \E l \in LimitsOffered(g) : f = [g EXCEPT !.limits = l]
      \/ \E o \in OptionsOffered(g) : f = [g EXCEPT !.options = o]
  BY <1>1, <1>2, Zenon DEF FieldPatches
<1> QED
  BY <1>5, <1>6, <1>7

-----------------------------------------------------------------------------
(* Renaming and removing a field of a form (formReducer.ts:128-152).       *)

(* What renaming makes of the fields. *)
RenamedTo(new, fields, i, k) ==
    /\ new \in Seq(FormFields) /\ DOMAIN new = DOMAIN fields
    /\ \A j \in DOMAIN fields :
        /\ new[j].key = IF j = i THEN k ELSE fields[j].key
        /\ new[j].showIf.op = fields[j].showIf.op
        /\ new[j].showIf.field = IF /\ j # i /\ Follows(fields, fields[i].key)
                                   /\ fields[j].showIf.op # "no" /\ fields[j].showIf.field = fields[i].key
                                THEN k ELSE fields[j].showIf.field

LEMMA RenamedFields ==
    ASSUME NEW e, FormHeld(e), NEW i \in DOMAIN e.def.fields, NEW k \in Nat
    PROVE  \E new : RenamedTo(new, e.def.fields, i, k) /\ formRenameField(e, i, k) = withFields(e, new, e.sel)
<1>1. PICK fields \in Seq(FormFields) : fields = e.def.fields
  BY FormListIs
<1>2. PICK old : old = fields[i].key
  OBVIOUS
<1>3. PICK follows : follows = Follows(fields, old)
  OBVIOUS
<1>4. PICK new : new = [j \in DOMAIN fields |->
                        IF j = i THEN [fields[j] EXCEPT !.key = k]
                        ELSE IF follows /\ fields[j].showIf.op # "no" /\ fields[j].showIf.field = old
                        THEN [fields[j] EXCEPT !.showIf.field = k]
                        ELSE fields[j]]
  OBVIOUS
<1>5. formRenameField(e, i, k) = withFields(e, new, e.sel)
  BY <1>1, <1>2, <1>3, <1>4 DEF formRenameField
<1>6. DOMAIN new = DOMAIN fields /\ new = [j \in DOMAIN new |-> new[j]]
  BY <1>4
<1>7. ASSUME NEW j \in DOMAIN fields
      PROVE  /\ new[j] \in FormFields
             /\ new[j].key = IF j = i THEN k ELSE fields[j].key
             /\ new[j].showIf.op = fields[j].showIf.op
             /\ new[j].showIf.field = IF j # i /\ follows /\ fields[j].showIf.op # "no" /\ fields[j].showIf.field = old
                                      THEN k ELSE fields[j].showIf.field
  <2>1. PICK f \in FormFields : f = fields[j]
    BY <1>1, FormListIs
  <2>2. CASE j = i
    <3>1. new[j] = [f EXCEPT !.key = k]
      BY <1>4, <2>1, <2>2
    <3> QED
      BY <2>1, <2>2, <3>1 DEF FormFields
  <2>3. CASE j # i /\ follows /\ f.showIf.op # "no" /\ f.showIf.field = old
    <3>1. new[j] = [f EXCEPT !.showIf = [f.showIf EXCEPT !.field = k]]
      BY <1>4, <2>1, <2>3
    <3>2. f.showIf \in [field : Nat, op : Operators]
      BY <2>1, <2>3 DEF FormFields, NoCondition
    <3>3. PICK c : c = [f.showIf EXCEPT !.field = k]
      OBVIOUS
    <3>4. c \in [field : Nat, op : Operators] /\ c.field = k /\ c.op = f.showIf.op
      BY <3>2, <3>3
    <3>5. new[j] \in FormFields /\ new[j].key = f.key /\ new[j].showIf = c
      BY <2>1, <3>1, <3>3, <3>4 DEF FormFields
    <3> QED
      BY <2>1, <2>3, <3>4, <3>5
  <2>4. CASE j # i /\ ~(follows /\ f.showIf.op # "no" /\ f.showIf.field = old)
    <3>1. new[j] = f
      BY <1>4, <2>1, <2>4
    <3> QED
      BY <2>1, <2>4, <3>1
  <2> QED
    BY <2>2, <2>3, <2>4
<1>8. new \in Seq(FormFields)
  BY <1>1, <1>6, <1>7, MapSeq
<1>9. RenamedTo(new, fields, i, k)
  BY <1>2, <1>3, <1>6, <1>7, <1>8 DEF RenamedTo
<1> QED
  BY <1>1, <1>5, <1>9

LEMMA RenamedRefs ==
    ASSUME NEW fields \in Seq(FormFields), NEW i \in DOMAIN fields, NEW k \in Nat, NEW new, RenamedTo(new, fields, i, k),
           FormRefs(fields), <<i, i>> \notin Controllers(fields)
    PROVE  FormRefs(new)
<1>1. PICK old : old = fields[i].key
  OBVIOUS
<1>2. /\ new \in Seq(FormFields) /\ DOMAIN new = DOMAIN fields
      /\ \A j \in DOMAIN fields :
            /\ new[j].key = IF j = i THEN k ELSE fields[j].key
            /\ new[j].showIf.op = fields[j].showIf.op
            /\ new[j].showIf.field =
                    IF j # i /\ Follows(fields, old) /\ fields[j].showIf.op # "no" /\ fields[j].showIf.field = old
                    THEN k ELSE fields[j].showIf.field
  BY <1>1 DEF RenamedTo
<1> SUFFICES ASSUME NEW j \in DOMAIN new, new[j].showIf.op # "no" PROVE new[j].showIf.field \in KeysOf(new)
  BY DEF FormRefs
<1>3. fields[j].showIf.op # "no" /\ fields[j].showIf.field \in KeysOf(fields)
  BY <1>2 DEF FormRefs
<1>4. PICK h \in DOMAIN fields : fields[h].key = fields[j].showIf.field
  BY <1>3 DEF KeysOf
<1>5. CASE fields[j].showIf.field = old
  <2>1. j # i
    BY <1>1, <1>2, <1>3, <1>5 DEF Controllers
  <2>2. CASE Follows(fields, old)
    <3>1. new[j].showIf.field = k /\ new[i].key = k
      BY <1>2, <1>3, <1>5, <2>1, <2>2
    <3> QED
      BY <1>2, <3>1 DEF KeysOf
  <2>3. CASE ~Follows(fields, old)
    <3>1. Follows(fields, old) <=> \A g \in DOMAIN fields : fields[g].key = old => g = i
      BY <1>1, CountIs
    <3>2. PICK g \in DOMAIN fields : fields[g].key = old /\ g # i
      BY <2>3, <3>1
    <3>3. new[g].key = old /\ new[j].showIf.field = old
      BY <1>2, <1>5, <2>3, <3>2
    <3> QED
      BY <1>2, <3>2, <3>3 DEF KeysOf
  <2> QED
    BY <2>2, <2>3
<1>6. CASE fields[j].showIf.field # old
  <2>1. h # i /\ new[h].key = fields[h].key /\ new[j].showIf.field = fields[j].showIf.field
    BY <1>1, <1>2, <1>4, <1>6
  <2> QED
    BY <1>2, <1>4, <2>1 DEF KeysOf
<1> QED
  BY <1>5, <1>6

LEMMA RenameFieldGoesOn ==
    ASSUME NEW e, FormHeld(e), NEW i \in DOMAIN e.def.fields, i = e.sel.i, NEW k \in Nat, k \in NewKeys
    PROVE  FormGoesOn(e, formRenameField(e, i, k))
<1>1. PICK fields \in Seq(FormFields) : fields = e.def.fields
  BY FormListIs
<1>2. PICK new : RenamedTo(new, fields, i, k) /\ formRenameField(e, i, k) = withFields(e, new, e.sel)
  BY <1>1, RenamedFields
<1>3. new \in Seq(FormFields) /\ DOMAIN new = DOMAIN fields
  BY <1>2 DEF RenamedTo
<1>4. FormRefs(e.def.fields) /\ ~SelfRenamed(e, withFields(e, new, e.sel)) => FormRefs(new)
  <2> SUFFICES ASSUME FormRefs(e.def.fields), ~SelfRenamed(e, formRenameField(e, i, k)) PROVE FormRefs(new)
    BY <1>2
  <2>1. <<i, i>> \notin Controllers(fields)
    BY <1>1 DEF SelfRenamed
  <2> QED
    BY <1>1, <1>2, <2>1, RenamedRefs
<1>5. (e.sel = Settings \/ e.sel \in [at : {"fields"}, i : Nat \ {0}]) /\ (FieldThere(e) => e.sel = Settings \/ e.sel.i \in DOMAIN new)
  BY <1>1, <1>3 DEF FormHeld, FieldThere
<1> QED
  BY <1>2, <1>3, <1>4, <1>5, FormStep

(* What removing makes of the fields. *)
RemovedTo(new, rest, fields, i, n) ==
    /\ new \in Seq(FormFields) /\ rest \in Seq(FormFields)
    /\ n \in Nat \ {0} /\ Len(fields) = n /\ DOMAIN fields = 1..n
    /\ DOMAIN new = 1..(n - 1) /\ DOMAIN rest = 1..(n - 1)
    /\ \A j \in 1..(n - 1) :
        /\ Up(j, i) \in 1..n /\ rest[j] = fields[Up(j, i)]
        /\ new[j] = IF /\ Count(rest, fields[i].key) = 0 /\ fields[Up(j, i)].showIf.op # "no"
                        /\ fields[Up(j, i)].showIf.field = fields[i].key
                     THEN [fields[Up(j, i)] EXCEPT !.showIf = NoCondition] ELSE fields[Up(j, i)]

LEMMA FieldsRemoved ==
    ASSUME NEW e, FormHeld(e), NEW i \in DOMAIN e.def.fields
    PROVE  \E new, rest, n :
            /\ RemovedTo(new, rest, e.def.fields, i, n)
            /\ formRemoveField(e, i) = withFields(e, new, SelectedAfter(e.sel, i, n - 1))
<1>1. PICK fields \in Seq(FormFields) : fields = e.def.fields
  BY FormListIs
<1>2. PICK n \in Nat : n = Len(fields) /\ DOMAIN fields = 1..n
  BY <1>1, LenProperties
<1>3. n # 0 /\ n - 1 \in Nat
  BY <1>1, <1>2
<1>4. PICK rest : rest = RemoveAt(fields, i)
  OBVIOUS
<1>5. /\ rest \in Seq(FormFields) /\ DOMAIN rest = 1..(n - 1) /\ Len(rest) = n - 1
      /\ \A j \in 1..(n - 1) : rest[j] = fields[Up(j, i)] /\ Up(j, i) \in 1..n
  BY <1>1, <1>2, <1>4, RemoveAtIs
<1>6. PICK old : old = fields[i].key
  OBVIOUS
<1>7. PICK gone : gone = (Count(rest, old) = 0)
  OBVIOUS
<1>8. PICK new : new = [j \in DOMAIN rest |->
                        IF gone /\ rest[j].showIf.op # "no" /\ rest[j].showIf.field = old
                        THEN [rest[j] EXCEPT !.showIf = NoCondition] ELSE rest[j]]
  OBVIOUS
<1>9. formRemoveField(e, i) = withFields(e, new, SelectedAfter(e.sel, i, n - 1))
  BY <1>1, <1>4, <1>5, <1>6, <1>7, <1>8 DEF formRemoveField
<1>10. DOMAIN new = DOMAIN rest /\ new = [j \in DOMAIN new |-> new[j]]
  BY <1>8
<1>11. ASSUME NEW j \in DOMAIN rest PROVE new[j] \in FormFields
  <2>1. PICK f \in FormFields : f = rest[j]
    BY <1>5, ElementOfSeq
  <2>2. [f EXCEPT !.showIf = NoCondition] \in FormFields
    BY DEF FormFields
  <2> QED
    BY <1>8, <2>1, <2>2
<1>12. new \in Seq(FormFields)
  BY <1>5, <1>10, <1>11, MapSeq
<1>13. \A j \in 1..(n - 1) :
        new[j] = IF Count(rest, old) = 0 /\ fields[Up(j, i)].showIf.op # "no" /\ fields[Up(j, i)].showIf.field = old
                 THEN [fields[Up(j, i)] EXCEPT !.showIf = NoCondition] ELSE fields[Up(j, i)]
  BY <1>5, <1>7, <1>8
<1>14. RemovedTo(new, rest, fields, i, n)
  BY <1>2, <1>3, <1>5, <1>6, <1>10, <1>12, <1>13 DEF RemovedTo
<1> QED
  BY <1>1, <1>9, <1>14

LEMMA SelectedAfterIs ==
    ASSUME NEW e, FormHeld(e), NEW n \in Nat \ {0}, DOMAIN e.def.fields = 1..n, NEW i \in 1..n
    PROVE  LET s == SelectedAfter(e.sel, i, n - 1)
           IN  /\ s = Settings \/ s \in [at : {"fields"}, i : Nat \ {0}]
               /\ FieldThere(e) => s = Settings \/ s.i \in 1..(n - 1)
               /\ (e.sel # Settings /\ e.sel.i # i) => s # Settings /\ s.i = IF e.sel.i > i THEN e.sel.i - 1 ELSE e.sel.i
<1>1. PICK s : s = SelectedAfter(e.sel, i, n - 1)
  OBVIOUS
<1>2. CASE e.sel = Settings
  <2>0. Settings.i = 0
    BY DEF Settings, Place
  <2>1. \A size : SelectedAfter(Settings, i, size) = Settings
    BY <2>0 DEF SelectedAfter
  <2> QED
    BY <1>1, <1>2, <2>1
<1>3. CASE e.sel # Settings /\ e.sel.i = i
  <2>1. s = IF n - 1 = 0 THEN Settings ELSE Place("fields", IF i < n - 1 THEN i ELSE n - 1)
    BY <1>1, <1>3 DEF SelectedAfter
  <2>2. CASE n = 1
    BY <1>1, <1>3, <2>1, <2>2
  <2>3. CASE n # 1
    <3>1. PICK m : m = IF i < n - 1 THEN i ELSE n - 1
      OBVIOUS
    <3>2. m \in 1..(n - 1) /\ m \in Nat \ {0}
      BY <2>3, <3>1
    <3>3. s = [at |-> "fields", i |-> m]
      BY <2>1, <2>3, <3>1, PlaceIs
    <3> QED
      BY <1>1, <1>3, <3>2, <3>3
  <2> QED
    BY <2>2, <2>3
<1>4. CASE e.sel # Settings /\ e.sel.i > i
  <2>1. s = Place("fields", e.sel.i - 1)
    BY <1>1, <1>4 DEF SelectedAfter
  <2>2. e.sel.i \in Nat /\ e.sel.i - 1 \in Nat \ {0}
    BY <1>4 DEF FormHeld
  <2>3. s = [at |-> "fields", i |-> e.sel.i - 1]
    BY <2>1, PlaceIs
  <2>4. s # Settings
    BY <2>3 DEF Settings, Place
  <2> QED
    BY <1>1, <1>4, <2>2, <2>3, <2>4 DEF FieldThere
<1>5. CASE e.sel # Settings /\ e.sel.i < i
  <2>1. s = e.sel
    <3>1. e.sel.i \in Nat
      BY <1>5 DEF FormHeld
    <3> QED
      BY <1>1, <1>5, <3>1 DEF SelectedAfter
  <2> QED
    BY <1>1, <1>5, <2>1 DEF FormHeld, FieldThere
<1>6. e.sel = Settings \/ e.sel.i \in Nat
  BY DEF FormHeld
<1> QED
  BY <1>1, <1>2, <1>3, <1>4, <1>5, <1>6

LEMMA RemoveFieldGoesOn ==
    ASSUME NEW e, FormHeld(e), NEW i \in DOMAIN e.def.fields
    PROVE  FormGoesOn(e, formRemoveField(e, i))
<1>1. PICK fields \in Seq(FormFields) : fields = e.def.fields
  BY FormListIs
<1>2. PICK old : old = fields[i].key
  OBVIOUS
<1>3a. PICK new, rest, n : /\ RemovedTo(new, rest, fields, i, n)
                           /\ formRemoveField(e, i) = withFields(e, new, SelectedAfter(e.sel, i, n - 1))
  BY <1>1, FieldsRemoved
<1>3. /\ new \in Seq(FormFields) /\ rest \in Seq(FormFields) /\ n \in Nat \ {0}
      /\ DOMAIN fields = 1..n /\ i \in 1..n
      /\ formRemoveField(e, i) = withFields(e, new, SelectedAfter(e.sel, i, n - 1))
      /\ DOMAIN new = 1..(n - 1) /\ DOMAIN rest = 1..(n - 1)
      /\ \A j \in 1..(n - 1) :
            /\ Up(j, i) \in 1..n /\ rest[j] = fields[Up(j, i)]
            /\ new[j] = IF Count(rest, old) = 0 /\ fields[Up(j, i)].showIf.op # "no" /\ fields[Up(j, i)].showIf.field = old
                         THEN [fields[Up(j, i)] EXCEPT !.showIf = NoCondition] ELSE fields[Up(j, i)]
  BY <1>1, <1>2, <1>3a DEF RemovedTo
<1>4. ASSUME FormRefs(fields), NEW j \in 1..(n - 1), new[j].showIf.op # "no"
      PROVE  new[j].showIf.field \in KeysOf(new)
  <2>1. PICK f \in FormFields : f = fields[Up(j, i)]
    BY <1>1, <1>3, FormListIs
  <2>2. ~(Count(rest, old) = 0 /\ f.showIf.op # "no" /\ f.showIf.field = old)
    <3>1. [f EXCEPT !.showIf = NoCondition].showIf.op = "no"
      BY DEF FormFields, NoCondition
    <3> QED
      BY <1>3, <1>4, <2>1, <3>1
  <2>3. new[j] = f
    BY <1>3, <2>1, <2>2
  <2>4. f.showIf.field \in KeysOf(fields)
    BY <1>3, <1>4, <2>1, <2>3 DEF FormRefs
  <2>5. \E h \in 1..(n - 1) : rest[h].key = f.showIf.field
    <3>1. CASE f.showIf.field = old
      <4>1. Count(rest, old) # 0
        BY <1>4, <2>2, <2>3, <3>1
      <4>2. Count(rest, old) = 0 <=> \A h \in DOMAIN rest : rest[h].key # old
        BY <1>3, CountIs
      <4> QED
        BY <1>3, <3>1, <4>1, <4>2
    <3>2. CASE f.showIf.field # old
      <4>1. PICK g \in 1..n : fields[g].key = f.showIf.field /\ g # i
        BY <1>2, <1>3, <2>4, <3>2 DEF KeysOf
      <4>2. PICK h : h = IF g < i THEN g ELSE g - 1
        OBVIOUS
      <4>3. h \in 1..(n - 1) /\ Up(h, i) = g
        BY <1>1, <1>3, <4>1, <4>2 DEF Up
      <4> QED
        BY <1>3, <4>1, <4>3
    <3> QED
      BY <3>1, <3>2
  <2>6. PICK h \in 1..(n - 1) : rest[h].key = f.showIf.field
    BY <2>5
  <2>7. new[h].key = rest[h].key
    <3>1. PICK g \in FormFields : g = fields[Up(h, i)]
      BY <1>1, <1>3, FormListIs
    <3>2. [g EXCEPT !.showIf = NoCondition].key = g.key
      BY DEF FormFields
    <3> QED
      BY <1>3, <3>1, <3>2
  <2> QED
    BY <1>3, <2>3, <2>6, <2>7 DEF KeysOf
<1>5. FormRefs(fields) => FormRefs(new)
  BY <1>3, <1>4 DEF FormRefs
<1>6. PICK s : s = SelectedAfter(e.sel, i, n - 1)
  OBVIOUS
<1>7. (s = Settings \/ s \in [at : {"fields"}, i : Nat \ {0}]) /\ (FieldThere(e) => s = Settings \/ s.i \in DOMAIN new)
  BY <1>1, <1>3, <1>6, SelectedAfterIs
<1> QED
  BY <1>1, <1>3, <1>5, <1>6, <1>7, FormStep

-----------------------------------------------------------------------------
(* Duplicating and moving a field; texts and problems                      *)
(* (formReducer.ts:153-178).                                               *)

(* A copy of the i-th of n fields stands behind it, with its condition and *)
(* a key of its own.                                                       *)
CopiedTo(new, copy, fields, i, n) ==
    /\ new \in Seq(FormFields) /\ DOMAIN fields = 1..n /\ DOMAIN new = 1..(n + 1)
    /\ \A j \in 1..(n + 1) : new[j] = IF j <= i THEN fields[j] ELSE IF j = i + 1 THEN copy ELSE fields[j - 1]
    /\ copy.showIf = fields[i].showIf /\ copy.key \notin KeysOf(fields)

LEMMA FieldCopied ==
    ASSUME NEW e, FormHeld(e), NEW i \in DOMAIN e.def.fields
    PROVE  \E new, copy : \E n \in Nat :
                /\ CopiedTo(new, copy, e.def.fields, i, n)
                /\ duplicateField(e, i) = withFields(e, new, Place("fields", i + 1))
<1>1. PICK fields \in Seq(FormFields) : fields = e.def.fields
  BY FormListIs
<1>2. PICK copy : copy = [fields[i] EXCEPT !.key = Fresh(KeysOf(fields)), !.label = "fine"]
  OBVIOUS
<1>3. copy \in FormFields /\ copy.showIf = fields[i].showIf /\ copy.key \notin KeysOf(fields)
  <2>1. PICK k \in Nat : k = Fresh(KeysOf(fields)) /\ k \notin KeysOf(fields)
    BY <1>1, FreshIsNew
  <2>2. PICK f \in FormFields : f = fields[i]
    BY <1>1, FormListIs
  <2> QED
    BY <1>2, <2>1, <2>2 DEF FormFields, Labels
<1>4. PICK n \in Nat : n = Len(fields) /\ DOMAIN fields = 1..n
  BY <1>1, LenProperties
<1>5. PICK new : new = InsertAt(fields, i + 1, copy)
  OBVIOUS
<1>6. /\ new \in Seq(FormFields) /\ DOMAIN new = 1..(n + 1)
      /\ \A j \in 1..(n + 1) : new[j] = IF j <= i THEN fields[j] ELSE IF j = i + 1 THEN copy ELSE fields[j - 1]
  <2>1. i \in DOMAIN fields /\ copy \in FormFields
    BY <1>1, <1>3
  <2>2. PICK r : r = InsertAt(fields, i + 1, copy)
    OBVIOUS
  <2>3. /\ r \in Seq(FormFields) /\ DOMAIN r = 1..(Len(fields) + 1)
        /\ \A j \in 1..(Len(fields) + 1) :
            r[j] = IF j <= i THEN fields[j] ELSE IF j = i + 1 THEN copy ELSE fields[j - 1]
    <3>1. InsertAt(fields, i + 1, copy) \in Seq(FormFields)
      BY <2>1, InsertAtIs
    <3>2. DOMAIN InsertAt(fields, i + 1, copy) = 1..(Len(fields) + 1)
      BY <2>1, InsertAtIs
    <3>3. \A j \in 1..(Len(fields) + 1) :
                InsertAt(fields, i + 1, copy)[j]
                = IF j <= i THEN fields[j] ELSE IF j = i + 1 THEN copy ELSE fields[j - 1]
      BY <2>1, InsertAtIs
    <3> QED
      BY <2>2, <3>1, <3>2, <3>3
  <2> QED
    BY <1>4, <1>5, <2>2, <2>3
<1>7. duplicateField(e, i) = withFields(e, new, Place("fields", i + 1))
  BY <1>1, <1>2, <1>5 DEF duplicateField
<1> QED
  BY <1>1, <1>3, <1>4, <1>6, <1>7 DEF CopiedTo

LEMMA DuplicateFieldGoesOn ==
    ASSUME NEW e, FormHeld(e), NEW i \in DOMAIN e.def.fields
    PROVE  FormGoesOn(e, duplicateField(e, i))
<1>1. PICK fields \in Seq(FormFields) : fields = e.def.fields
  BY FormListIs
<1>2. PICK new, copy : \E n \in Nat :
            /\ CopiedTo(new, copy, fields, i, n)
            /\ duplicateField(e, i) = withFields(e, new, Place("fields", i + 1))
  BY <1>1, FieldCopied
<1>3. PICK n \in Nat :
            /\ CopiedTo(new, copy, fields, i, n)
            /\ duplicateField(e, i) = withFields(e, new, Place("fields", i + 1))
  BY <1>2
<1>4. DOMAIN fields = 1..n /\ copy.showIf = fields[i].showIf
  BY <1>3 DEF CopiedTo
<1>6. /\ new \in Seq(FormFields) /\ DOMAIN new = 1..(n + 1)
      /\ \A j \in 1..(n + 1) : new[j] = IF j <= i THEN fields[j] ELSE IF j = i + 1 THEN copy ELSE fields[j - 1]
  BY <1>3 DEF CopiedTo
<1>7. PICK s : s = Place("fields", i + 1)
  OBVIOUS
<1>8. s \in [at : {"fields"}, i : Nat \ {0}] /\ s.i \in DOMAIN new
  <2>1. i + 1 \in Nat \ {0} /\ i + 1 \in 1..(n + 1)
    BY <1>1, <1>4
  <2>2. s = [at |-> "fields", i |-> i + 1]
    BY <1>7 DEF Place
  <2> QED
    BY <1>6, <2>1, <2>2
<1>9. \A j \in DOMAIN new : \E h \in DOMAIN fields : new[j].showIf = fields[h].showIf
  <2> SUFFICES ASSUME NEW j \in 1..(n + 1) PROVE \E h \in 1..n : new[j].showIf = fields[h].showIf
    BY <1>4, <1>6
  <2>0. i \in 1..n
    BY <1>1, <1>4
  <2>1. CASE j <= i
    <3>1. j \in 1..n /\ new[j] = fields[j]
      BY <1>6, <2>0, <2>1
    <3> QED
      BY <3>1
  <2>2. CASE j = i + 1
    <3>1. new[j] = copy
      BY <1>6, <2>0, <2>2
    <3> QED
      BY <1>4, <2>0, <3>1
  <2>3. CASE j > i + 1
    <3>1. j - 1 \in 1..n /\ new[j] = fields[j - 1]
      BY <1>6, <2>0, <2>3
    <3> QED
      BY <3>1
  <2> QED
    BY <2>0, <2>1, <2>2, <2>3
<1>10. \A h \in DOMAIN fields : \E j \in DOMAIN new : new[j].key = fields[h].key
  <2> SUFFICES ASSUME NEW h \in 1..n PROVE \E j \in 1..(n + 1) : new[j] = fields[h]
    BY <1>4, <1>6
  <2>0. i \in 1..n
    BY <1>1, <1>4
  <2>1. CASE h <= i
    <3>1. h \in 1..(n + 1) /\ new[h] = fields[h]
      BY <1>6, <2>1
    <3> QED
      BY <3>1
  <2>2. CASE h > i
    <3>1. h + 1 \in 1..(n + 1) /\ ~(h + 1 <= i) /\ h + 1 # i + 1 /\ h + 1 - 1 = h
      BY <2>0, <2>2
    <3>2. new[h + 1] = fields[h]
      BY <1>6, <3>1
    <3> QED
      BY <3>1, <3>2
  <2> QED
    BY <2>0, <2>1, <2>2
<1>11. FormRefs(fields) => FormRefs(new)
  <2> SUFFICES ASSUME FormRefs(fields), NEW j \in DOMAIN new, new[j].showIf.op # "no"
               PROVE  new[j].showIf.field \in KeysOf(new)
    BY DEF FormRefs
  <2>1. PICK h \in DOMAIN fields : new[j].showIf = fields[h].showIf
    BY <1>9
  <2>2. PICK g \in DOMAIN fields : fields[g].key = new[j].showIf.field
    BY <2>1 DEF FormRefs, KeysOf
  <2> QED
    BY <1>10, <2>2 DEF KeysOf
<1>12. duplicateField(e, i) = withFields(e, new, s)
  BY <1>3, <1>7
<1> QED
  BY <1>1, <1>6, <1>8, <1>11, <1>12, FormStep

LEMMA Swapped ==
    ASSUME NEW T, NEW fields \in Seq(T), NEW i \in DOMAIN fields, NEW j \in DOMAIN fields, NEW new,
           new = [fields EXCEPT ![i] = fields[j], ![j] = fields[i]]
    PROVE  /\ new \in Seq(T) /\ DOMAIN new = DOMAIN fields
           /\ \A h \in DOMAIN fields : new[h] = IF h = j THEN fields[i] ELSE IF h = i THEN fields[j] ELSE fields[h]
<1>1. PICK n \in Nat : DOMAIN fields = 1..n /\ fields \in [1..n -> T]
  BY LenProperties
<1>2. new \in [1..n -> T]
  BY <1>1
<1>3. new \in Seq(T)
  BY <1>1, <1>2, IsASeq
<1> QED
  BY <1>1, <1>3

LEMMA MovedSelection ==
    ASSUME NEW e, FormHeld(e), NEW i \in Nat, NEW j \in Nat,
           NEW s, s = (CASE e.sel = Place("fields", i) -> Place("fields", j)
                         [] e.sel = Place("fields", j) -> Place("fields", i)
                         [] OTHER -> e.sel)
    PROVE  /\ e.sel = Settings => s = Settings
           /\ e.sel # Settings =>
                s = Place("fields", IF e.sel.i = i THEN j ELSE IF e.sel.i = j THEN i ELSE e.sel.i)
<1>1. CASE e.sel = Settings
  BY <1>1 DEF Settings, Place
<1>2. CASE e.sel # Settings
  <2>1. e.sel = [at |-> "fields", i |-> e.sel.i]
    BY <1>2 DEF FormHeld
  <2>2. \A k : e.sel = Place("fields", k) <=> e.sel.i = k
    BY <2>1 DEF Place
  <2>3. e.sel = Place("fields", e.sel.i)
    BY <2>1 DEF Place
  <2> QED
    BY <1>2, <2>2, <2>3
<1> QED
  BY <1>1, <1>2

LEMMA MoveFieldGoesOn ==
    ASSUME NEW e, FormHeld(e), NEW i \in DOMAIN e.def.fields, NEW j \in DOMAIN e.def.fields
    PROVE  FormGoesOn(e, moveField(e, i, j))
<1>1. PICK fields \in Seq(FormFields) : fields = e.def.fields
  BY FormListIs
<1>2. PICK new : new = [fields EXCEPT ![i] = fields[j], ![j] = fields[i]]
  OBVIOUS
<1>3. /\ new \in Seq(FormFields) /\ DOMAIN new = DOMAIN fields
      /\ \A h \in DOMAIN fields : new[h] = IF h = j THEN fields[i] ELSE IF h = i THEN fields[j] ELSE fields[h]
  BY <1>1, <1>2, Swapped
<1>4. KeysOf(new) = KeysOf(fields)
  BY <1>1, <1>3 DEF KeysOf
<1>5. \A h \in DOMAIN new : \E g \in DOMAIN fields : new[h] = fields[g]
  BY <1>1, <1>3
<1>6. FormRefs(fields) => FormRefs(new)
  BY <1>4, <1>5 DEF FormRefs
<1>7. PICK n \in Nat : DOMAIN fields = 1..n
  BY <1>1, LenProperties
<1>8. i \in Nat \ {0} /\ j \in Nat \ {0}
  BY <1>1, <1>7
<1>9. PICK s : s = (CASE e.sel = Place("fields", i) -> Place("fields", j)
                     [] e.sel = Place("fields", j) -> Place("fields", i)
                     [] OTHER -> e.sel)
  OBVIOUS
<1>10. /\ e.sel = Settings => s = Settings
       /\ e.sel # Settings =>
            s = Place("fields", IF e.sel.i = i THEN j ELSE IF e.sel.i = j THEN i ELSE e.sel.i)
  BY <1>8, <1>9, MovedSelection
<1>11. s = Settings \/ s \in [at : {"fields"}, i : Nat \ {0}]
  BY <1>8, <1>10, PlaceIs DEF FormHeld
<1>12. FieldThere(e) => s = Settings \/ s.i \in DOMAIN new
  BY <1>1, <1>3, <1>10, PlaceIs DEF FieldThere
<1>13. moveField(e, i, j) = withFields(e, new, s)
  BY <1>1, <1>2, <1>9 DEF moveField
<1> QED
  BY <1>1, <1>3, <1>6, <1>11, <1>12, <1>13, FormStep

(* Any text that is applied, and any problem that is followed. *)
LEMMA ReplaceHolds ==
    ASSUME NEW e, FormHeld(e), NEW d, IsForm(d)
    PROVE  FormHeld(formReplace(e, d)) /\ FieldThere(formReplace(e, d)) /\ formReplace(e, d).def = d
<1>1. PICK r : r = formReplace(e, d)
  OBVIOUS
<1>2. DOMAIN r = {"def", "sel", "dirty"} /\ r.def = d /\ r.sel = IF e.sel.i <= Len(d.fields) THEN e.sel ELSE Settings
  BY <1>1 DEF formReplace
<1>3. PICK n \in Nat : n = Len(d.fields) /\ DOMAIN d.fields = 1..n
  BY LenProperties DEF IsForm
<1>4. FieldThere(r)
  BY <1>2, <1>3 DEF FieldThere, FormHeld
<1> QED
  BY <1>1, <1>2, <1>4 DEF FormHeld, IsEditor

LEMMA SelectHolds ==
    ASSUME NEW e, FormHeld(e), NEW place, place.at = "fields" => place \in [at : {"fields"}, i : Nat \ {0}]
    PROVE  /\ FormHeld(formSelect(e, place)) /\ formSelect(e, place).def = e.def
           /\ (place.at = "fields" => place.i \in DOMAIN e.def.fields) => FieldThere(formSelect(e, place))
<1>1. PICK r : r = formSelect(e, place)
  OBVIOUS
<1>2. DOMAIN r = {"def", "sel", "dirty"} /\ r.def = e.def /\ r.sel = IF place.at = "fields" THEN place ELSE Settings
  BY <1>1 DEF formSelect, FormHeld, IsEditor
<1> QED
  BY <1>1, <1>2 DEF FormHeld, IsEditor, FieldThere

-----------------------------------------------------------------------------
(* What the actions of the workflow editor keep. *)

Flow(slug, title, initial, states, transitions, fields, onSubmit) ==
    [slug |-> slug, title |-> title, initial |-> initial, states |-> states, transitions |-> transitions,
     fields |-> fields, onSubmit |-> onSubmit]

FlowPlaces == [at : {"states", "transitions", "fields"}, i : Nat \ {0}]

FlowHeld(e) ==
    /\ IsEditor(e) /\ IsWorkflow(e.def)
    /\ e.sel = Settings \/ e.sel \in FlowPlaces

There(s, states, transitions, fields) ==
    \/ s = Settings
    \/ s.at = "states" /\ s.i \in DOMAIN states
    \/ s.at = "transitions" /\ s.i \in DOMAIN transitions
    \/ s.at = "fields" /\ s.i \in DOMAIN fields

FlowThere(e) == There(e.sel, e.def.states, e.def.transitions, e.def.fields)

Refs(initial, states, transitions, fields) ==
    /\ states # << >> => initial \in KeysOf(states)
    /\ \A i \in DOMAIN transitions :
        /\ transitions[i].from \cup {transitions[i].to} \subseteq KeysOf(states)
        /\ transitions[i].needs \subseteq KeysOf(fields)

FlowRefs(d) == Refs(d.initial, d.states, d.transitions, d.fields)

FlowGoesOn(e, r) ==
    /\ FlowHeld(r)
    /\ FlowThere(e) => FlowThere(r)
    /\ FlowRefs(e.def) => FlowRefs(r.def)

LEMMA FlowIs ==
    ASSUME NEW slug, NEW title, NEW initial, NEW states, NEW transitions, NEW fields, NEW onSubmit,
           NEW d, d = Flow(slug, title, initial, states, transitions, fields, onSubmit)
    PROVE  /\ d.slug = slug /\ d.title = title /\ d.initial = initial /\ d.states = states /\ d.transitions = transitions
           /\ d.fields = fields /\ d.onSubmit = onSubmit
           /\ ( /\ title \in Labels /\ initial \in Nat /\ states \in Seq(States) /\ transitions \in Seq(Transitions)
                /\ fields \in Seq(WorkflowFields) /\ onSubmit \in Seq(Actions) ) => IsWorkflow(d)
           /\ \A x : [d EXCEPT !.slug = x] = Flow(x, title, initial, states, transitions, fields, onSubmit)
           /\ \A x : [d EXCEPT !.title = x] = Flow(slug, x, initial, states, transitions, fields, onSubmit)
           /\ \A x : [d EXCEPT !.initial = x] = Flow(slug, title, x, states, transitions, fields, onSubmit)
           /\ \A x : [d EXCEPT !.states = x] = Flow(slug, title, initial, x, transitions, fields, onSubmit)
           /\ \A x : [d EXCEPT !.transitions = x] = Flow(slug, title, initial, states, x, fields, onSubmit)
           /\ \A x : [d EXCEPT !.fields = x] = Flow(slug, title, initial, states, transitions, x, onSubmit)
           /\ \A x : [d EXCEPT !.onSubmit = x] = Flow(slug, title, initial, states, transitions, fields, x)
<1>1. /\ d.slug = slug /\ d.title = title /\ d.initial = initial /\ d.states = states /\ d.transitions = transitions
      /\ d.fields = fields /\ d.onSubmit = onSubmit
  BY DEF Flow
<1>2. ( /\ title \in Labels /\ initial \in Nat /\ states \in Seq(States) /\ transitions \in Seq(Transitions)
        /\ fields \in Seq(WorkflowFields) /\ onSubmit \in Seq(Actions) ) => IsWorkflow(d)
  BY <1>1 DEF IsWorkflow, Flow
<1>3. \A x : [d EXCEPT !.slug = x] = Flow(x, title, initial, states, transitions, fields, onSubmit)
  BY DEF Flow
<1>3a. \A x : [d EXCEPT !.title = x] = Flow(slug, x, initial, states, transitions, fields, onSubmit)
  BY DEF Flow
<1>4. \A x : [d EXCEPT !.initial = x] = Flow(slug, title, x, states, transitions, fields, onSubmit)
  BY DEF Flow
<1>5. \A x : [d EXCEPT !.states = x] = Flow(slug, title, initial, x, transitions, fields, onSubmit)
  BY DEF Flow
<1>6. \A x : [d EXCEPT !.transitions = x] = Flow(slug, title, initial, states, x, fields, onSubmit)
  BY DEF Flow
<1>7. \A x : [d EXCEPT !.fields = x] = Flow(slug, title, initial, states, transitions, x, onSubmit)
  BY DEF Flow
<1>8. \A x : [d EXCEPT !.onSubmit = x] = Flow(slug, title, initial, states, transitions, fields, x)
  BY DEF Flow
<1> QED
  BY <1>1, <1>2, <1>3, <1>3a, <1>4, <1>5, <1>6, <1>7, <1>8

(* The parts of a workflow that is edited. *)
Parts(e, states, transitions, fields) ==
    /\ states = e.def.states /\ transitions = e.def.transitions /\ fields = e.def.fields
    /\ e.def = Flow(e.def.slug, e.def.title, e.def.initial, states, transitions, fields, e.def.onSubmit)
    /\ e.def.title \in Labels /\ e.def.initial \in Nat /\ states \in Seq(States) /\ transitions \in Seq(Transitions)
    /\ fields \in Seq(WorkflowFields) /\ e.def.onSubmit \in Seq(Actions)

LEMMA PartsAre == ASSUME NEW e, FlowHeld(e) PROVE Parts(e, e.def.states, e.def.transitions, e.def.fields)
BY DEF FlowHeld, IsWorkflow, Parts, Flow

LEMMA FlowStep ==
    ASSUME NEW e, FlowHeld(e), NEW slug, NEW title \in Labels, NEW initial \in Nat, NEW states \in Seq(States),
           NEW transitions \in Seq(Transitions), NEW fields \in Seq(WorkflowFields), NEW onSubmit \in Seq(Actions),
           NEW s, s = Settings \/ s \in FlowPlaces,
           FlowThere(e) => There(s, states, transitions, fields),
           FlowRefs(e.def) => Refs(initial, states, transitions, fields)
    PROVE  FlowGoesOn(e, Change(e, Flow(slug, title, initial, states, transitions, fields, onSubmit), s))
<1>1. PICK d : d = Flow(slug, title, initial, states, transitions, fields, onSubmit)
  OBVIOUS
<1>2. /\ d.initial = initial /\ d.states = states /\ d.transitions = transitions /\ d.fields = fields
      /\ IsWorkflow(d)
  BY <1>1, FlowIs
<1>3. PICK r : r = Change(e, d, s)
  OBVIOUS
<1>4. IsEditor(r) /\ r.def = d /\ r.sel = s
  BY <1>3 DEF Change, IsEditor
<1>5. FlowThere(e) => FlowThere(r)
  BY <1>2, <1>4 DEF FlowThere
<1>6. FlowRefs(e.def) => FlowRefs(r.def)
  BY <1>2, <1>4 DEF FlowRefs
<1>7. FlowHeld(r)
  BY <1>2, <1>4 DEF FlowHeld
<1> QED
  BY <1>1, <1>3, <1>5, <1>6, <1>7 DEF FlowGoesOn

(* What is selected stays selected. *)
LEMMA SelStays ==
    ASSUME NEW e, FlowHeld(e), NEW states, NEW transitions, NEW fields,
           DOMAIN e.def.states \subseteq DOMAIN states, DOMAIN e.def.transitions \subseteq DOMAIN transitions,
           DOMAIN e.def.fields \subseteq DOMAIN fields
    PROVE  (e.sel = Settings \/ e.sel \in FlowPlaces) /\ (FlowThere(e) => There(e.sel, states, transitions, fields))
BY DEF FlowHeld, FlowThere, There

LEMMA NothingSelected == \A states, transitions, fields : There(Settings, states, transitions, fields)
BY DEF There

LEMMA SlugGoesOn == ASSUME NEW e, FlowHeld(e), NEW slug PROVE FlowGoesOn(e, setSlug(e, slug))
<1>1. PICK states, transitions, fields : Parts(e, states, transitions, fields)
  BY PartsAre
<1>2. [e.def EXCEPT !.slug = slug] = Flow(slug, e.def.title, e.def.initial, states, transitions, fields, e.def.onSubmit)
  BY <1>1, FlowIs DEF Parts
<1>3. FlowRefs(e.def) => Refs(e.def.initial, states, transitions, fields)
  BY <1>1 DEF FlowRefs, Parts
<1>4. (e.sel = Settings \/ e.sel \in FlowPlaces) /\ (FlowThere(e) => There(e.sel, states, transitions, fields))
  BY <1>1, SelStays DEF Parts
<1>5. setSlug(e, slug) = Change(e, Flow(slug, e.def.title, e.def.initial, states, transitions, fields, e.def.onSubmit), e.sel)
  BY <1>2 DEF setSlug
<1> QED
  BY <1>1, <1>3, <1>4, <1>5, FlowStep DEF Parts

LEMMA TitleGoesOn == ASSUME NEW e, FlowHeld(e), NEW title \in Labels PROVE FlowGoesOn(e, setTitle(e, title))
<1>1. PICK states, transitions, fields : Parts(e, states, transitions, fields)
  BY PartsAre
<1>2. [e.def EXCEPT !.title = title] = Flow(e.def.slug, title, e.def.initial, states, transitions, fields, e.def.onSubmit)
  BY <1>1, FlowIs DEF Parts
<1>3. FlowRefs(e.def) => Refs(e.def.initial, states, transitions, fields)
  BY <1>1 DEF FlowRefs, Parts
<1>4. (e.sel = Settings \/ e.sel \in FlowPlaces) /\ (FlowThere(e) => There(e.sel, states, transitions, fields))
  BY <1>1, SelStays DEF Parts
<1>5. setTitle(e, title) = Change(e, Flow(e.def.slug, title, e.def.initial, states, transitions, fields, e.def.onSubmit), e.sel)
  BY <1>2 DEF setTitle
<1> QED
  BY <1>1, <1>3, <1>4, <1>5, FlowStep DEF Parts

LEMMA InitialGoesOn ==
    ASSUME NEW e, FlowHeld(e), NEW k, k \in KeysOf(e.def.states), k \in Nat
    PROVE  FlowGoesOn(e, setInitial(e, k))
<1>1. PICK states, transitions, fields : Parts(e, states, transitions, fields)
  BY PartsAre
<1>2. [e.def EXCEPT !.initial = k] = Flow(e.def.slug, e.def.title, k, states, transitions, fields, e.def.onSubmit)
  BY <1>1, FlowIs DEF Parts
<1>3. FlowRefs(e.def) => Refs(k, states, transitions, fields)
  BY <1>1 DEF FlowRefs, Refs, Parts
<1>4. (e.sel = Settings \/ e.sel \in FlowPlaces) /\ (FlowThere(e) => There(e.sel, states, transitions, fields))
  BY <1>1, SelStays DEF Parts
<1>5. setInitial(e, k) = Change(e, Flow(e.def.slug, e.def.title, k, states, transitions, fields, e.def.onSubmit), e.sel)
  BY <1>2 DEF setInitial
<1> QED
  BY <1>1, <1>3, <1>4, <1>5, FlowStep DEF Parts

-----------------------------------------------------------------------------
(* Adding a state or a field, and changing one                             *)
(* (workflowReducer.ts:169-263).                                           *)

Entered(new, list, i, x, T) ==
    /\ new \in Seq(T) /\ DOMAIN new = DOMAIN list
    /\ \A j \in DOMAIN list : new[j] = IF j = i THEN x ELSE list[j]
    /\ x.key = list[i].key => KeysOf(new) = KeysOf(list)

LEMMA EntryIs ==
    ASSUME NEW T, NEW list \in Seq(T), NEW i \in DOMAIN list, NEW x \in T
    PROVE  Entered([list EXCEPT ![i] = x], list, i, x, T)
<1>1. PICK new : new = [list EXCEPT ![i] = x]
  OBVIOUS
<1>2. /\ new \in Seq(T) /\ DOMAIN new = DOMAIN list
      /\ \A j \in DOMAIN list : new[j] = IF j = i THEN x ELSE list[j]
  BY <1>1, ExceptSeq, LenProperties
<1>3. x.key = list[i].key => KeysOf(new) = KeysOf(list)
  BY <1>2 DEF KeysOf
<1> QED
  BY <1>1, <1>2, <1>3 DEF Entered

Added(new, list, x, T) ==
    /\ new \in Seq(T) /\ Len(new) = Len(list) + 1 /\ DOMAIN new = 1..(Len(list) + 1)
    /\ Len(new) \in DOMAIN new /\ Len(new) \in Nat \ {0}
    /\ DOMAIN list \subseteq DOMAIN new
    /\ \A j \in DOMAIN new : new[j] = IF j = Len(new) THEN x ELSE list[j]
    /\ \A j \in DOMAIN new : j # Len(new) => j \in DOMAIN list
    /\ KeysOf(new) = KeysOf(list) \cup {x.key} /\ new # << >>

LEMMA AddedIs ==
    ASSUME NEW T, NEW list \in Seq(T), NEW x \in T
    PROVE  Added(Append(list, x), list, x, T)
<1>0. PICK new : new = Append(list, x)
  OBVIOUS
<1>1. PICK n \in Nat : n = Len(list) /\ DOMAIN list = 1..n
  BY LenProperties
<1>2. /\ new \in Seq(T) /\ DOMAIN new = 1..(n + 1) /\ Len(new) = n + 1
      /\ \A j \in 1..(n + 1) : new[j] = IF j = n + 1 THEN x ELSE list[j]
  BY <1>0, <1>1, AppendIs
<1>3. \A j \in 1..n : j \in 1..(n + 1) /\ new[j] = list[j]
  BY <1>2
<1>4. \A j \in 1..(n + 1) : j # n + 1 => j \in 1..n
  OBVIOUS
<1>5. n + 1 \in 1..(n + 1) /\ new[n + 1] = x /\ n + 1 \in Nat \ {0}
  BY <1>2
<1>6. KeysOf(new) = KeysOf(list) \cup {x.key}
  <2>1. \A k \in KeysOf(new) : k \in KeysOf(list) \cup {x.key}
    BY <1>1, <1>2, <1>4 DEF KeysOf
  <2>2. \A k \in KeysOf(list) : k \in KeysOf(new)
    BY <1>1, <1>2, <1>3 DEF KeysOf
  <2>3. x.key \in KeysOf(new)
    BY <1>2, <1>5 DEF KeysOf
  <2> QED
    BY <2>1, <2>2, <2>3
<1>7. new # << >>
  BY <1>2, <1>5
<1> QED
  BY <1>0, <1>1, <1>2, <1>3, <1>4, <1>5, <1>6, <1>7 DEF Added

LEMMA RefsGrow ==
    ASSUME NEW initial, NEW states, NEW transitions, NEW fields, Refs(initial, states, transitions, fields),
           NEW states2, NEW fields2, KeysOf(states) \subseteq KeysOf(states2), KeysOf(fields) \subseteq KeysOf(fields2),
           NEW initial2, states2 # << >> => initial2 \in KeysOf(states2)
    PROVE  Refs(initial2, states2, transitions, fields2)
BY DEF Refs

LEMMA PlaceThere ==
    ASSUME NEW i \in Nat \ {0}, NEW where \in {"states", "transitions", "fields"}
    PROVE  Place(where, i) \in FlowPlaces /\ Place(where, i).at = where /\ Place(where, i).i = i
BY DEF Place, FlowPlaces

LEMMA KeysAreNumbers ==
    ASSUME NEW e, FlowHeld(e)
    PROVE  /\ \A k \in KeysOf(e.def.states) : k \in Nat
           /\ \A k \in KeysOf(e.def.fields) : k \in Nat
<1>1. \A i \in DOMAIN e.def.states : e.def.states[i] \in States
  BY PartsAre, ElementOfSeq, LenProperties DEF Parts
<1>2. \A i \in DOMAIN e.def.fields : e.def.fields[i] \in WorkflowFields
  BY PartsAre, ElementOfSeq, LenProperties DEF Parts
<1> QED
  BY <1>1, <1>2 DEF KeysOf, States, WorkflowFields

LEMMA AddStateGoesOn == ASSUME NEW e, FlowHeld(e) PROVE FlowGoesOn(e, addState(e))
<1>1. PICK states \in Seq(States), transitions \in Seq(Transitions), fields \in Seq(WorkflowFields) :
            Parts(e, states, transitions, fields)
  BY PartsAre DEF Parts
<1>1a. PICK d : d = e.def /\ d = Flow(d.slug, d.title, d.initial, states, transitions, fields, d.onSubmit)
  BY <1>1 DEF Parts
<1>2. PICK k \in Nat : k = Fresh(KeysOf(states))
  BY <1>1, FreshIsNew DEF Parts
<1>3. PICK new : new = State(k, FALSE)
  OBVIOUS
<1>4. new \in States /\ new.key = k
  BY <1>3 DEF State, States, Labels
<1>5. PICK more : more = Append(states, new)
  OBVIOUS
<1>6. /\ more \in Seq(States) /\ DOMAIN states \subseteq DOMAIN more /\ KeysOf(more) = KeysOf(states) \cup {k}
      /\ Len(more) \in DOMAIN more /\ Len(more) \in Nat \ {0}
  <2>1. Added(more, states, new, States)
    BY <1>4, <1>5, AddedIs
  <2> QED
    BY <1>4, <2>1 DEF Added
<1>7. PICK initial : initial = IF e.def.initial \in KeysOf(states) THEN e.def.initial ELSE k
  OBVIOUS
<1>8. initial \in Nat /\ initial \in KeysOf(more)
  BY <1>1, <1>6, <1>7 DEF Parts
<1>9. [e.def EXCEPT !.states = more, !.initial = initial]
      = Flow(e.def.slug, e.def.title, initial, more, transitions, fields, e.def.onSubmit)
  <2>1. PICK d2 : d2 = [d EXCEPT !.states = more]
    OBVIOUS
  <2>2. d2 = Flow(d.slug, d.title, d.initial, more, transitions, fields, d.onSubmit)
    BY <1>1a, <2>1, FlowIs
  <2>3. [d2 EXCEPT !.initial = initial] = Flow(d.slug, d.title, initial, more, transitions, fields, d.onSubmit)
    BY <2>2, FlowIs
  <2>4. [d EXCEPT !.states = more, !.initial = initial] = [d2 EXCEPT !.initial = initial]
    BY <2>1
  <2> QED
    BY <1>1a, <2>3, <2>4
<1>10. PICK s : s = Place("states", Len(more))
  OBVIOUS
<1>11. s \in FlowPlaces /\ There(s, more, transitions, fields)
  BY <1>6, <1>10, PlaceThere DEF There
<1>12. FlowRefs(e.def) => Refs(initial, more, transitions, fields)
  <2>1. FlowRefs(e.def) => Refs(e.def.initial, states, transitions, fields)
    BY <1>1 DEF FlowRefs, Parts
  <2> QED
    BY <1>6, <1>8, <2>1, RefsGrow
<1>13. addState(e) = Change(e, Flow(e.def.slug, e.def.title, initial, more, transitions, fields, e.def.onSubmit), s)
  BY <1>1, <1>2, <1>3, <1>5, <1>7, <1>9, <1>10 DEF addState, Parts
<1> QED
  BY <1>1, <1>6, <1>8, <1>11, <1>12, <1>13, FlowStep DEF Parts

LEMMA UpdateStateGoesOn ==
    ASSUME NEW e, FlowHeld(e), NEW i \in DOMAIN e.def.states, NEW new \in States,
           new.key = e.def.states[i].key
    PROVE  FlowGoesOn(e, updateState(e, i, new))
<1>1. PICK states \in Seq(States), transitions \in Seq(Transitions), fields \in Seq(WorkflowFields) :
            Parts(e, states, transitions, fields)
  BY PartsAre DEF Parts
<1>1a. PICK d : d = e.def /\ d = Flow(d.slug, d.title, d.initial, states, transitions, fields, d.onSubmit)
  BY <1>1 DEF Parts
<1>3. new \in States /\ new.key = states[i].key
  BY <1>1 DEF Parts
<1>4. PICK list : list = [states EXCEPT ![i] = new]
  OBVIOUS
<1>5. list \in Seq(States) /\ DOMAIN list = DOMAIN states /\ KeysOf(list) = KeysOf(states)
  <2>1. i \in DOMAIN states
    BY <1>1 DEF Parts
  <2>2. Entered(list, states, i, new, States)
    BY <1>3, <1>4, <2>1, EntryIs
  <2> QED
    BY <1>3, <2>2 DEF Entered
<1>6. [e.def EXCEPT !.states[i] = new]
      = Flow(e.def.slug, e.def.title, e.def.initial, list, transitions, fields, e.def.onSubmit)
  <2>1. d.states = states
    BY <1>1a, FlowIs
  <2>2. [d EXCEPT !.states[i] = new] = [d EXCEPT !.states = list]
    BY <1>4, <2>1
  <2>3. [d EXCEPT !.states = list] = Flow(d.slug, d.title, d.initial, list, transitions, fields, d.onSubmit)
    BY <1>1a, FlowIs
  <2> QED
    BY <1>1a, <2>2, <2>3
<1>7. FlowRefs(e.def) => Refs(e.def.initial, list, transitions, fields)
  <2>1. list # << >> => states # << >>
    BY <1>5
  <2> QED
    BY <1>1, <1>5, <2>1 DEF FlowRefs, Refs, Parts
<1>8. (e.sel = Settings \/ e.sel \in FlowPlaces) /\ (FlowThere(e) => There(e.sel, list, transitions, fields))
  BY <1>1, <1>5, SelStays DEF Parts
<1>9. updateState(e, i, new)
      = Change(e, Flow(e.def.slug, e.def.title, e.def.initial, list, transitions, fields, e.def.onSubmit), e.sel)
  BY <1>6 DEF updateState
<1> QED
  BY <1>1, <1>5, <1>7, <1>8, <1>9, FlowStep DEF Parts

LEMMA AddFlowFieldGoesOn == ASSUME NEW e, FlowHeld(e) PROVE FlowGoesOn(e, addField(e))
<1>1. PICK states \in Seq(States), transitions \in Seq(Transitions), fields \in Seq(WorkflowFields) :
            Parts(e, states, transitions, fields)
  BY PartsAre DEF Parts
<1>1a. PICK d : d = e.def /\ d = Flow(d.slug, d.title, d.initial, states, transitions, fields, d.onSubmit)
  BY <1>1 DEF Parts
<1>2. PICK k \in Nat : k = Fresh(KeysOf(fields))
  BY <1>1, FreshIsNew DEF Parts
<1>3. PICK new : new = WorkflowField(k, "text", "none")
  OBVIOUS
<1>4. new \in WorkflowFields
  BY <1>3 DEF WorkflowField, WorkflowFields, FieldTypes, OptionLists, Labels
<1>5. PICK more : more = Append(fields, new)
  OBVIOUS
<1>6. /\ more \in Seq(WorkflowFields) /\ KeysOf(fields) \subseteq KeysOf(more)
      /\ Len(more) \in DOMAIN more /\ Len(more) \in Nat \ {0}
  <2>1. Added(more, fields, new, WorkflowFields)
    BY <1>4, <1>5, AddedIs
  <2> QED
    BY <1>4, <2>1 DEF Added
<1>9. [e.def EXCEPT !.fields = more]
      = Flow(e.def.slug, e.def.title, e.def.initial, states, transitions, more, e.def.onSubmit)
  BY <1>1, FlowIs DEF Parts
<1>10. PICK s : s = Place("fields", Len(more))
  OBVIOUS
<1>11. s \in FlowPlaces /\ There(s, states, transitions, more)
  BY <1>6, <1>10, PlaceThere DEF There
<1>12. FlowRefs(e.def) => Refs(e.def.initial, states, transitions, more)
  BY <1>1, <1>6, RefsGrow DEF FlowRefs, Parts, Refs
<1>13. addField(e) = Change(e, Flow(e.def.slug, e.def.title, e.def.initial, states, transitions, more, e.def.onSubmit), s)
  BY <1>1, <1>2, <1>3, <1>5, <1>9, <1>10 DEF addField, Parts
<1> QED
  BY <1>1, <1>6, <1>11, <1>12, <1>13, FlowStep DEF Parts

LEMMA UpdateFlowFieldGoesOn ==
    ASSUME NEW e, FlowHeld(e), NEW i \in DOMAIN e.def.fields, NEW f \in WorkflowFields, f.key = e.def.fields[i].key
    PROVE  FlowGoesOn(e, updateField(e, i, f))
<1>1. PICK states \in Seq(States), transitions \in Seq(Transitions), fields \in Seq(WorkflowFields) :
            Parts(e, states, transitions, fields)
  BY PartsAre DEF Parts
<1>2. PICK d : d = e.def /\ d = Flow(d.slug, d.title, d.initial, states, transitions, fields, d.onSubmit)
  BY <1>1 DEF Parts
<1>3. PICK new : new = [f EXCEPT !.options = FittingOptions(f)]
  OBVIOUS
<1>4. new \in WorkflowFields /\ new.key = fields[i].key
  <2>1. FittingOptions(f) \in OptionLists
    BY DEF FittingOptions, OptionLists, Filled
  <2> QED
    BY <1>1, <1>3, <2>1 DEF WorkflowFields, Parts
<1>5. PICK list : list = [fields EXCEPT ![i] = new]
  OBVIOUS
<1>6. list \in Seq(WorkflowFields) /\ DOMAIN list = DOMAIN fields /\ KeysOf(list) = KeysOf(fields)
  <2>1. i \in DOMAIN fields
    BY <1>1 DEF Parts
  <2>2. Entered(list, fields, i, new, WorkflowFields)
    BY <1>4, <1>5, <2>1, EntryIs
  <2> QED
    BY <1>4, <2>2 DEF Entered
<1>7. [e.def EXCEPT !.fields[i] = new] = Flow(d.slug, d.title, d.initial, states, transitions, list, d.onSubmit)
  <2>1. d.fields = fields
    BY <1>2, FlowIs
  <2>2. [d EXCEPT !.fields[i] = new] = [d EXCEPT !.fields = list]
    BY <1>5, <2>1
  <2>3. [d EXCEPT !.fields = list] = Flow(d.slug, d.title, d.initial, states, transitions, list, d.onSubmit)
    BY <1>2, FlowIs
  <2> QED
    BY <1>2, <2>2, <2>3
<1>8. FlowRefs(e.def) => Refs(e.def.initial, states, transitions, list)
  BY <1>1, <1>6 DEF FlowRefs, Refs, Parts
<1>9. (e.sel = Settings \/ e.sel \in FlowPlaces) /\ (FlowThere(e) => There(e.sel, states, transitions, list))
  BY <1>1, <1>6, SelStays DEF Parts
<1>10. updateField(e, i, f)
      = Change(e, Flow(e.def.slug, e.def.title, e.def.initial, states, transitions, list, e.def.onSubmit), e.sel)
  BY <1>2, <1>3, <1>7 DEF updateField
<1> QED
  BY <1>1, <1>6, <1>8, <1>9, <1>10, FlowStep DEF Parts

-----------------------------------------------------------------------------
(* Renaming a state or a field of a workflow. *)

SwapStates(transitions, old, k) ==
    [j \in DOMAIN transitions |->
        [transitions[j] EXCEPT !.from = SwapAll(@, old, k), !.to = Swap(@, old, k)]]
SwapNeeds(transitions, old, k) ==
    [j \in DOMAIN transitions |->
        withRequireFields(transitions[j], old, SwapAll(transitions[j].needs, old, k))]
DropNeeds(transitions, k) ==
    [j \in DOMAIN transitions |->
        withRequireFields(transitions[j], k, transitions[j].needs \ {k})]

(* new is transitions, changed one by one. *)
Changed(new, transitions) == new \in Seq(Transitions) /\ DOMAIN new = DOMAIN transitions

LEMMA TransitionIs ==
    ASSUME NEW t \in Transitions
    PROVE  /\ t.from \in SUBSET Nat /\ t.to \in Nat /\ t.needs \in SUBSET Nat /\ t.key \in Nat /\ t.actions \in Seq(Actions)
BY DEF Transitions

LEMMA RequireIs ==
    ASSUME NEW t \in Transitions, NEW k, NEW needs \in SUBSET Nat, k \notin t.needs => needs = t.needs
    PROVE  LET r == withRequireFields(t, k, needs)
           IN  r \in Transitions /\ r.from = t.from /\ r.to = t.to /\ r.needs = needs
<1>1. CASE k \in t.needs
  <2>1. PICK r : r = [t EXCEPT !.needs = needs, !.roles = "fine"]
    OBVIOUS
  <2>2. r \in Transitions /\ r.from = t.from /\ r.to = t.to /\ r.needs = needs
    BY <2>1 DEF Transitions, Labels
  <2> QED
    BY <1>1, <2>1, <2>2 DEF withRequireFields
<1>2. CASE k \notin t.needs
  BY <1>2 DEF withRequireFields
<1> QED
  BY <1>1, <1>2

LEMMA SwapIs ==
    ASSUME NEW old \in Nat, NEW k \in Nat
    PROVE  /\ \A x \in Nat : Swap(x, old, k) \in Nat
           /\ \A S \in SUBSET Nat : SwapAll(S, old, k) \in SUBSET Nat
BY DEF Swap, SwapAll

StatesSwapped(new, transitions, old, k) ==
    /\ Changed(new, transitions)
    /\ \A j \in DOMAIN transitions :
        /\ new[j].from = SwapAll(transitions[j].from, old, k)
        /\ new[j].to = Swap(transitions[j].to, old, k)
        /\ new[j].needs = transitions[j].needs

LEMMA SwapStatesAre ==
    ASSUME NEW transitions \in Seq(Transitions), NEW old \in Nat, NEW k \in Nat
    PROVE  StatesSwapped(SwapStates(transitions, old, k), transitions, old, k)
<1>1. PICK new : new = SwapStates(transitions, old, k)
  OBVIOUS
<1>2. DOMAIN new = DOMAIN transitions /\ new = [j \in DOMAIN new |-> new[j]]
  BY <1>1 DEF SwapStates
<1>3. ASSUME NEW j \in DOMAIN transitions
      PROVE  /\ new[j] \in Transitions
             /\ new[j].from = SwapAll(transitions[j].from, old, k)
             /\ new[j].to = Swap(transitions[j].to, old, k)
             /\ new[j].needs = transitions[j].needs
  <2>1. PICK t \in Transitions : t = transitions[j]
    BY ElementOfSeq, LenProperties
  <2>2. PICK from \in SUBSET Nat, to \in Nat : from = SwapAll(t.from, old, k) /\ to = Swap(t.to, old, k)
    BY <2>1, SwapIs, TransitionIs
  <2>3. new[j] = [t EXCEPT !.from = from, !.to = to]
    BY <1>1, <2>1, <2>2 DEF SwapStates
  <2> QED
    BY <2>1, <2>2, <2>3 DEF Transitions
<1>4. new \in Seq(Transitions)
  BY <1>2, <1>3, MapSeq
<1> QED
  BY <1>1, <1>2, <1>3, <1>4 DEF StatesSwapped, Changed

NeedsSwapped(new, transitions, old, k) ==
    /\ Changed(new, transitions)
    /\ \A j \in DOMAIN transitions :
        /\ new[j].needs = SwapAll(transitions[j].needs, old, k)
        /\ new[j].to = transitions[j].to /\ new[j].from = transitions[j].from

LEMMA SwapNeedsAre ==
    ASSUME NEW transitions \in Seq(Transitions), NEW old \in Nat, NEW k \in Nat
    PROVE  NeedsSwapped(SwapNeeds(transitions, old, k), transitions, old, k)
<1>1. PICK new : new = SwapNeeds(transitions, old, k)
  OBVIOUS
<1>2. DOMAIN new = DOMAIN transitions /\ new = [j \in DOMAIN new |-> new[j]]
  BY <1>1 DEF SwapNeeds
<1>3. ASSUME NEW j \in DOMAIN transitions
      PROVE  /\ new[j] \in Transitions
             /\ new[j].needs = SwapAll(transitions[j].needs, old, k)
             /\ new[j].to = transitions[j].to /\ new[j].from = transitions[j].from
  <2>1. PICK t \in Transitions : t = transitions[j]
    BY ElementOfSeq, LenProperties
  <2>2. PICK needs \in SUBSET Nat : needs = SwapAll(t.needs, old, k)
    BY <2>1, SwapIs, TransitionIs
  <2>3. new[j] = withRequireFields(t, old, needs)
    BY <1>1, <2>1, <2>2 DEF SwapNeeds
  <2>4. old \notin t.needs => needs = t.needs
    BY <2>2 DEF SwapAll, Swap
  <2> QED
    BY <2>1, <2>2, <2>3, <2>4, RequireIs
<1>4. new \in Seq(Transitions)
  BY <1>2, <1>3, MapSeq
<1> QED
  BY <1>1, <1>2, <1>3, <1>4 DEF NeedsSwapped, Changed

NeedsDropped(new, transitions, k) ==
    /\ Changed(new, transitions)
    /\ \A j \in DOMAIN transitions :
        /\ new[j].needs = transitions[j].needs \ {k}
        /\ new[j].to = transitions[j].to /\ new[j].from = transitions[j].from

LEMMA DropNeedsAre ==
    ASSUME NEW transitions \in Seq(Transitions), NEW k \in Nat
    PROVE  NeedsDropped(DropNeeds(transitions, k), transitions, k)
<1>1. PICK new : new = DropNeeds(transitions, k)
  OBVIOUS
<1>2. DOMAIN new = DOMAIN transitions /\ new = [j \in DOMAIN new |-> new[j]]
  BY <1>1 DEF DropNeeds
<1>3. ASSUME NEW j \in DOMAIN transitions
      PROVE  /\ new[j] \in Transitions
             /\ new[j].needs = transitions[j].needs \ {k}
             /\ new[j].to = transitions[j].to /\ new[j].from = transitions[j].from
  <2>1. PICK t \in Transitions : t = transitions[j]
    BY ElementOfSeq, LenProperties
  <2>2. PICK needs \in SUBSET Nat : needs = t.needs \ {k}
    BY <2>1, TransitionIs
  <2>3. new[j] = withRequireFields(t, k, needs)
    BY <1>1, <2>1, <2>2 DEF DropNeeds
  <2>4. PICK r : r = withRequireFields(t, k, needs)
    OBVIOUS
  <2>5. r \in Transitions /\ r.from = t.from /\ r.to = t.to /\ r.needs = needs
    <3>1. k \notin t.needs => needs = t.needs
      BY <2>2
    <3> QED
      BY <2>4, <3>1, RequireIs
  <2> QED
    BY <2>1, <2>2, <2>3, <2>4, <2>5
<1>4. new \in Seq(Transitions)
  BY <1>2, <1>3, MapSeq
<1> QED
  BY <1>1, <1>2, <1>3, <1>4 DEF NeedsDropped, Changed

SourcesFreed(new, transitions, k) ==
    /\ Changed(new, transitions)
    /\ \A j \in DOMAIN transitions :
        /\ new[j].from = transitions[j].from \ {k}
        /\ new[j].to = transitions[j].to /\ new[j].needs = transitions[j].needs

LEMMA FreedAre ==
    ASSUME NEW transitions \in Seq(Transitions), NEW k \in Nat
    PROVE  SourcesFreed(Freed(transitions, k), transitions, k)
<1>1. PICK new : new = Freed(transitions, k)
  OBVIOUS
<1>2. DOMAIN new = DOMAIN transitions /\ new = [j \in DOMAIN new |-> new[j]]
  BY <1>1 DEF Freed
<1>3. ASSUME NEW j \in DOMAIN transitions
      PROVE  /\ new[j] \in Transitions
             /\ new[j].from = transitions[j].from \ {k}
             /\ new[j].to = transitions[j].to /\ new[j].needs = transitions[j].needs
  <2>1. PICK t \in Transitions : t = transitions[j]
    BY ElementOfSeq, LenProperties
  <2>2. PICK from \in SUBSET Nat : from = t.from \ {k}
    BY <2>1, TransitionIs
  <2>3. new[j] = [t EXCEPT !.from = from]
    BY <1>1, <2>1, <2>2 DEF Freed
  <2> QED
    BY <2>1, <2>2, <2>3 DEF Transitions
<1>4. new \in Seq(Transitions)
  BY <1>2, <1>3, MapSeq
<1> QED
  BY <1>1, <1>2, <1>3, <1>4 DEF SourcesFreed, Changed

(* A list in which the i-th entry's key is k. *)
Rekeyed(list, i, k) == [list EXCEPT ![i] = [list[i] EXCEPT !.key = k]]

OneRekeyed(new, list, i, k) ==
    /\ DOMAIN new = DOMAIN list
    /\ \A j \in DOMAIN list : new[j].key = IF j = i THEN k ELSE list[j].key

LEMMA RekeyedStates ==
    ASSUME NEW states \in Seq(States), NEW i \in DOMAIN states, NEW k \in Nat
    PROVE  Rekeyed(states, i, k) \in Seq(States) /\ OneRekeyed(Rekeyed(states, i, k), states, i, k)
<1>1. PICK x : x = [states[i] EXCEPT !.key = k]
  OBVIOUS
<1>2. x \in States /\ x.key = k
  <2>1. states[i] \in States
    BY ElementOfSeq, LenProperties
  <2> QED
    BY <1>1, <2>1 DEF States
<1>3. PICK new : new = Rekeyed(states, i, k)
  OBVIOUS
<1>4. Entered(new, states, i, x, States)
  BY <1>1, <1>2, <1>3, EntryIs DEF Rekeyed
<1> QED
  BY <1>2, <1>3, <1>4 DEF Entered, OneRekeyed

LEMMA RekeyedFields ==
    ASSUME NEW fields \in Seq(WorkflowFields), NEW i \in DOMAIN fields, NEW k \in Nat
    PROVE  Rekeyed(fields, i, k) \in Seq(WorkflowFields) /\ OneRekeyed(Rekeyed(fields, i, k), fields, i, k)
<1>1. PICK x : x = [fields[i] EXCEPT !.key = k]
  OBVIOUS
<1>2. x \in WorkflowFields /\ x.key = k
  <2>1. fields[i] \in WorkflowFields
    BY ElementOfSeq, LenProperties
  <2> QED
    BY <1>1, <2>1 DEF WorkflowFields
<1>3. PICK new : new = Rekeyed(fields, i, k)
  OBVIOUS
<1>4. Entered(new, fields, i, x, WorkflowFields)
  BY <1>1, <1>2, <1>3, EntryIs DEF Rekeyed
<1> QED
  BY <1>2, <1>3, <1>4 DEF Entered, OneRekeyed

(* What is called old before is called k after, if its key goes with it. *)
LEMMA RekeyedKeys ==
    ASSUME NEW T, NEW list \in Seq(T), NEW i \in DOMAIN list, NEW k, NEW new, OneRekeyed(new, list, i, k)
    PROVE  /\ ~Follows(list, list[i].key) => KeysOf(list) \subseteq KeysOf(new)
           /\ \A x \in KeysOf(list) : Swap(x, list[i].key, k) \in KeysOf(new)
<1>0. /\ DOMAIN new = DOMAIN list
      /\ \A j \in DOMAIN list : new[j].key = IF j = i THEN k ELSE list[j].key
  BY DEF OneRekeyed
<1>1. PICK old : old = list[i].key
  OBVIOUS
<1>2. k \in KeysOf(new)
  BY <1>0 DEF KeysOf
<1>3. \A x \in KeysOf(list) : x # old => x \in KeysOf(new)
  BY <1>0, <1>1 DEF KeysOf
<1>4. ASSUME ~Follows(list, old) PROVE old \in KeysOf(new)
  <2>1. Follows(list, old) <=> \A j \in DOMAIN list : list[j].key = old => j = i
    BY <1>1, CountIs
  <2>2. PICK j \in DOMAIN list : list[j].key = old /\ j # i
    BY <1>4, <2>1
  <2> QED
    BY <1>0, <2>2 DEF KeysOf
<1> QED
  BY <1>1, <1>2, <1>3, <1>4 DEF Swap

-----------------------------------------------------------------------------
(* What renaming makes of the workflow (workflowReducer.ts:186-200,        *)
(* 264-277).                                                               *)

LEMMA RenameStateIs ==
    ASSUME NEW e, FlowHeld(e), NEW i \in DOMAIN e.def.states, NEW k \in Nat
    PROVE  LET old     == e.def.states[i].key
               follows == Follows(e.def.states, old)
           IN  renameState(e, i, k)
               = Change(e, Flow(e.def.slug, e.def.title, IF follows THEN Swap(e.def.initial, old, k) ELSE e.def.initial,
                                Rekeyed(e.def.states, i, k),
                                IF follows THEN SwapStates(e.def.transitions, old, k) ELSE e.def.transitions,
                                e.def.fields, e.def.onSubmit), e.sel)
<1>1. PICK d : d = e.def /\ d = Flow(d.slug, d.title, d.initial, d.states, d.transitions, d.fields, d.onSubmit)
  BY PartsAre DEF Parts
<1>2. PICK old : old = d.states[i].key
  OBVIOUS
<1>3. PICK d1 : d1 = [d EXCEPT !.states[i].key = k]
  OBVIOUS
<1>4. d1 = [d EXCEPT !.states = Rekeyed(d.states, i, k)]
  BY <1>3 DEF Rekeyed
<1>5. d1 = Flow(d.slug, d.title, d.initial, Rekeyed(d.states, i, k), d.transitions, d.fields, d.onSubmit)
  BY <1>1, <1>4, FlowIs
<1>6. d1.initial = d.initial /\ d1.transitions = d.transitions
  BY <1>5 DEF Flow
<1>7. PICK m : m = SwapStates(d.transitions, old, k)
  OBVIOUS
<1>8. PICK d2 : d2 = [d1 EXCEPT !.initial = Swap(d.initial, old, k)]
  OBVIOUS
<1>9. d2 = Flow(d.slug, d.title, Swap(d.initial, old, k), Rekeyed(d.states, i, k), d.transitions, d.fields, d.onSubmit)
  BY <1>5, <1>8, FlowIs
<1>10. [d2 EXCEPT !.transitions = m]
       = Flow(d.slug, d.title, Swap(d.initial, old, k), Rekeyed(d.states, i, k), m, d.fields, d.onSubmit)
  BY <1>9, FlowIs
<1>11. [d1 EXCEPT !.initial = Swap(d.initial, old, k), !.transitions = m] = [d2 EXCEPT !.transitions = m]
  BY <1>8
<1>12. renameState(e, i, k)
       = Change(e, IF ~Follows(d.states, old) THEN d1
                   ELSE [d1 EXCEPT !.initial = Swap(d1.initial, old, k), !.transitions = m], e.sel)
  <2>1. m = [j \in DOMAIN d1.transitions |->
                [d1.transitions[j] EXCEPT !.from = SwapAll(d1.transitions[j].from, old, k),
                                          !.to = Swap(d1.transitions[j].to, old, k)]]
    BY <1>6, <1>7 DEF SwapStates
  <2> QED
    BY <1>1, <1>2, <1>3, <2>1 DEF renameState, MapTransitions
<1>13. CASE Follows(d.states, old)
  BY <1>1, <1>2, <1>6, <1>7, <1>10, <1>11, <1>12, <1>13
<1>14. CASE ~Follows(d.states, old)
  BY <1>1, <1>2, <1>5, <1>12, <1>14
<1> QED
  BY <1>13, <1>14

LEMMA RenameFlowFieldIs ==
    ASSUME NEW e, FlowHeld(e), NEW i \in DOMAIN e.def.fields, NEW k \in Nat
    PROVE  LET old     == e.def.fields[i].key
               follows == Follows(e.def.fields, old)
           IN  renameField(e, i, k)
               = Change(e, Flow(e.def.slug, e.def.title, e.def.initial, e.def.states,
                                IF follows THEN SwapNeeds(e.def.transitions, old, k) ELSE e.def.transitions,
                                Rekeyed(e.def.fields, i, k), e.def.onSubmit), e.sel)
<1>1. PICK d : d = e.def /\ d = Flow(d.slug, d.title, d.initial, d.states, d.transitions, d.fields, d.onSubmit)
  BY PartsAre DEF Parts
<1>2. PICK old : old = d.fields[i].key
  OBVIOUS
<1>3. PICK d1 : d1 = [d EXCEPT !.fields[i].key = k]
  OBVIOUS
<1>4. d1 = [d EXCEPT !.fields = Rekeyed(d.fields, i, k)]
  BY <1>3 DEF Rekeyed
<1>5. d1 = Flow(d.slug, d.title, d.initial, d.states, d.transitions, Rekeyed(d.fields, i, k), d.onSubmit)
  BY <1>1, <1>4, FlowIs
<1>6. d1.transitions = d.transitions
  BY <1>5 DEF Flow
<1>7. PICK m : m = SwapNeeds(d.transitions, old, k)
  OBVIOUS
<1>10. [d1 EXCEPT !.transitions = m]
       = Flow(d.slug, d.title, d.initial, d.states, m, Rekeyed(d.fields, i, k), d.onSubmit)
  BY <1>5, FlowIs
<1>12. renameField(e, i, k)
       = Change(e, IF ~Follows(d.fields, old) THEN d1 ELSE [d1 EXCEPT !.transitions = m], e.sel)
  <2>1. m = [j \in DOMAIN d1.transitions |->
                withRequireFields(d1.transitions[j], old, SwapAll(d1.transitions[j].needs, old, k))]
    BY <1>6, <1>7 DEF SwapNeeds
  <2> QED
    BY <1>1, <1>2, <1>3, <2>1 DEF renameField, MapTransitions
<1>13. CASE Follows(d.fields, old)
  BY <1>1, <1>2, <1>7, <1>10, <1>12, <1>13
<1>14. CASE ~Follows(d.fields, old)
  BY <1>1, <1>2, <1>5, <1>12, <1>14
<1> QED
  BY <1>13, <1>14

LEMMA RenameStateGoesOn ==
    ASSUME NEW e, FlowHeld(e), NEW i \in DOMAIN e.def.states, NEW k \in Nat
    PROVE  FlowGoesOn(e, renameState(e, i, k))
<1>1. PICK states \in Seq(States), transitions \in Seq(Transitions), fields \in Seq(WorkflowFields) :
            Parts(e, states, transitions, fields)
  BY PartsAre DEF Parts
<1>2. states = e.def.states /\ transitions = e.def.transitions /\ fields = e.def.fields /\ i \in DOMAIN states
  BY <1>1 DEF Parts
<1>3. PICK old \in Nat : old = states[i].key
  <2>1. states[i] \in States
    BY <1>2, ElementOfSeq, LenProperties
  <2> QED
    BY <2>1 DEF States
<1>4. PICK new \in Seq(States) : new = Rekeyed(states, i, k) /\ OneRekeyed(new, states, i, k)
  BY <1>2, RekeyedStates
<1>4a. DOMAIN new = DOMAIN states
  BY <1>4 DEF OneRekeyed
<1>5. PICK follows : follows = Follows(states, old)
  OBVIOUS
<1>6. /\ ~Follows(states, old) => KeysOf(states) \subseteq KeysOf(new)
      /\ \A x \in KeysOf(states) : Swap(x, old, k) \in KeysOf(new)
  BY <1>2, <1>3, <1>4, RekeyedKeys
<1>7a. PICK swapped : swapped = SwapStates(transitions, old, k) /\ StatesSwapped(swapped, transitions, old, k)
  BY SwapStatesAre
<1>7. /\ swapped \in Seq(Transitions) /\ DOMAIN swapped = DOMAIN transitions
      /\ \A j \in DOMAIN transitions :
          /\ swapped[j].from = SwapAll(transitions[j].from, old, k)
          /\ swapped[j].to = Swap(transitions[j].to, old, k)
          /\ swapped[j].needs = transitions[j].needs
  BY <1>7a DEF StatesSwapped, Changed
<1>8. PICK initial \in Nat : initial = e.def.initial
  BY <1>1 DEF Parts
<1>9. FlowRefs(e.def) => Refs(initial, states, transitions, fields)
  BY <1>2, <1>8 DEF FlowRefs
<1>10. (e.sel = Settings \/ e.sel \in FlowPlaces) /\ (FlowThere(e) => There(e.sel, new, transitions, fields))
  BY <1>2, <1>4a, SelStays
<1>11. e.def.onSubmit \in Seq(Actions) /\ e.def.title \in Labels
  BY <1>1 DEF Parts
<1>12. CASE Follows(states, old)
  <2>1. renameState(e, i, k)
        = Change(e, Flow(e.def.slug, e.def.title, Swap(initial, old, k), new, swapped, fields, e.def.onSubmit), e.sel)
    BY <1>2, <1>3, <1>4, <1>7a, <1>8, <1>12, RenameStateIs
  <2>2. Refs(initial, states, transitions, fields) => Refs(Swap(initial, old, k), new, swapped, fields)
    <3> SUFFICES ASSUME Refs(initial, states, transitions, fields)
                 PROVE  Refs(Swap(initial, old, k), new, swapped, fields)
      OBVIOUS
    <3>1. new # << >> => Swap(initial, old, k) \in KeysOf(new)
      <4>1. states # << >>
        BY <1>2
      <4> QED
        BY <1>6, <4>1 DEF Refs
    <3>2. ASSUME NEW j \in DOMAIN swapped
          PROVE  /\ swapped[j].from \cup {swapped[j].to} \subseteq KeysOf(new)
                 /\ swapped[j].needs \subseteq KeysOf(fields)
      <4>1. transitions[j].from \cup {transitions[j].to} \subseteq KeysOf(states) /\ transitions[j].needs \subseteq KeysOf(fields)
        BY <1>7 DEF Refs
      <4>2. \A x \in SwapAll(transitions[j].from, old, k) : x \in KeysOf(new)
        BY <1>6, <4>1 DEF SwapAll
      <4> QED
        BY <1>6, <1>7, <4>1, <4>2
    <3> QED
      BY <3>1, <3>2 DEF Refs
  <2>3. Swap(initial, old, k) \in Nat
    BY SwapIs
  <2>4. FlowThere(e) => There(e.sel, new, swapped, fields)
    BY <1>7, <1>10 DEF There
  <2>5. swapped \in Seq(Transitions)
    BY <1>7
  <2> QED
    BY <2>5, <1>9, <1>10, <1>11, <2>1, <2>2, <2>3, <2>4, FlowStep
<1>13. CASE ~Follows(states, old)
  <2>1. renameState(e, i, k)
        = Change(e, Flow(e.def.slug, e.def.title, initial, new, transitions, fields, e.def.onSubmit), e.sel)
    BY <1>2, <1>3, <1>4, <1>8, <1>13, RenameStateIs
  <2>2. Refs(initial, states, transitions, fields) => Refs(initial, new, transitions, fields)
    <3>1. Refs(initial, states, transitions, fields) => initial \in KeysOf(new)
      <4>1. states # << >>
        BY <1>2
      <4> QED
        BY <1>6, <1>13, <4>1 DEF Refs
    <3> QED
      BY <1>6, <1>13, <3>1, RefsGrow
  <2> QED
    BY <1>9, <1>10, <1>11, <2>1, <2>2, FlowStep
<1> QED
  BY <1>12, <1>13

LEMMA RenameFlowFieldGoesOn ==
    ASSUME NEW e, FlowHeld(e), NEW i \in DOMAIN e.def.fields, NEW k \in Nat
    PROVE  FlowGoesOn(e, renameField(e, i, k))
<1>1. PICK states \in Seq(States), transitions \in Seq(Transitions), fields \in Seq(WorkflowFields) :
            Parts(e, states, transitions, fields)
  BY PartsAre DEF Parts
<1>2. states = e.def.states /\ transitions = e.def.transitions /\ fields = e.def.fields /\ i \in DOMAIN fields
  BY <1>1 DEF Parts
<1>3. PICK old \in Nat : old = fields[i].key
  <2>1. fields[i] \in WorkflowFields
    BY <1>2, ElementOfSeq, LenProperties
  <2> QED
    BY <2>1 DEF WorkflowFields
<1>4. PICK new \in Seq(WorkflowFields) : new = Rekeyed(fields, i, k) /\ OneRekeyed(new, fields, i, k)
  BY <1>2, RekeyedFields
<1>4a. DOMAIN new = DOMAIN fields
  BY <1>4 DEF OneRekeyed
<1>6. /\ ~Follows(fields, old) => KeysOf(fields) \subseteq KeysOf(new)
      /\ \A x \in KeysOf(fields) : Swap(x, old, k) \in KeysOf(new)
  BY <1>2, <1>3, <1>4, RekeyedKeys
<1>7a. PICK swapped : swapped = SwapNeeds(transitions, old, k) /\ NeedsSwapped(swapped, transitions, old, k)
  BY SwapNeedsAre
<1>7. /\ swapped \in Seq(Transitions) /\ DOMAIN swapped = DOMAIN transitions
      /\ \A j \in DOMAIN transitions :
          /\ swapped[j].needs = SwapAll(transitions[j].needs, old, k)
          /\ swapped[j].to = transitions[j].to
          /\ swapped[j].from = transitions[j].from
  BY <1>7a DEF NeedsSwapped, Changed
<1>8. PICK initial \in Nat : initial = e.def.initial
  BY <1>1 DEF Parts
<1>9. FlowRefs(e.def) => Refs(initial, states, transitions, fields)
  BY <1>2, <1>8 DEF FlowRefs
<1>10. (e.sel = Settings \/ e.sel \in FlowPlaces) /\ (FlowThere(e) => There(e.sel, states, transitions, new))
  BY <1>2, <1>4a, SelStays
<1>11. e.def.onSubmit \in Seq(Actions) /\ e.def.title \in Labels
  BY <1>1 DEF Parts
<1>12. CASE Follows(fields, old)
  <2>1. renameField(e, i, k)
        = Change(e, Flow(e.def.slug, e.def.title, initial, states, swapped, new, e.def.onSubmit), e.sel)
    BY <1>2, <1>3, <1>4, <1>7a, <1>8, <1>12, RenameFlowFieldIs
  <2>2. Refs(initial, states, transitions, fields) => Refs(initial, states, swapped, new)
    <3> SUFFICES ASSUME Refs(initial, states, transitions, fields)
                 PROVE  Refs(initial, states, swapped, new)
      OBVIOUS
    <3>2. ASSUME NEW j \in DOMAIN swapped
          PROVE  /\ swapped[j].from \cup {swapped[j].to} \subseteq KeysOf(states)
                 /\ swapped[j].needs \subseteq KeysOf(new)
      <4>1. transitions[j].from \cup {transitions[j].to} \subseteq KeysOf(states) /\ transitions[j].needs \subseteq KeysOf(fields)
        BY <1>7 DEF Refs
      <4>2. \A x \in SwapAll(transitions[j].needs, old, k) : x \in KeysOf(new)
        BY <1>6, <4>1 DEF SwapAll
      <4> QED
        BY <1>7, <4>1, <4>2
    <3> QED
      BY <3>2 DEF Refs
  <2>4. FlowThere(e) => There(e.sel, states, swapped, new)
    BY <1>7, <1>10 DEF There
  <2>5. swapped \in Seq(Transitions)
    BY <1>7
  <2> QED
    BY <2>5, <1>9, <1>10, <1>11, <2>1, <2>2, <2>4, FlowStep
<1>13. CASE ~Follows(fields, old)
  <2>1. renameField(e, i, k)
        = Change(e, Flow(e.def.slug, e.def.title, initial, states, transitions, new, e.def.onSubmit), e.sel)
    BY <1>2, <1>3, <1>4, <1>8, <1>13, RenameFlowFieldIs
  <2>2. Refs(initial, states, transitions, fields) => Refs(initial, states, transitions, new)
    BY <1>6, <1>13, RefsGrow DEF Refs
  <2> QED
    BY <1>9, <1>10, <1>11, <2>1, <2>2, FlowStep
<1> QED
  BY <1>12, <1>13

-----------------------------------------------------------------------------
(* What is left of a list when one entry is gone. *)

(* rest is list without its i-th entry. *)
TakenOut(rest, list, i, n) ==
    /\ n \in Nat /\ n = Len(rest) /\ DOMAIN rest = 1..n /\ DOMAIN list = 1..(n + 1) /\ i \in 1..(n + 1)
    /\ \A j \in 1..n : rest[j] = list[Up(j, i)] /\ Up(j, i) \in DOMAIN list /\ Up(j, i) # i
    /\ \A g \in DOMAIN list : g # i => \E j \in 1..n : Up(j, i) = g

LEMMA RemoveAtTakes ==
    ASSUME NEW T, NEW list \in Seq(T), NEW i \in DOMAIN list
    PROVE  RemoveAt(list, i) \in Seq(T) /\ \E n : TakenOut(RemoveAt(list, i), list, i, n)
<1>1. PICK m \in Nat : m = Len(list) /\ DOMAIN list = 1..m
  BY LenProperties
<1>2. PICK n \in Nat : m = n + 1 /\ n = m - 1
  BY <1>1
<1>3. PICK rest : rest = RemoveAt(list, i)
  OBVIOUS
<1>4. /\ rest \in Seq(T) /\ DOMAIN rest = 1..n /\ Len(rest) = n
      /\ \A j \in 1..n : rest[j] = list[Up(j, i)] /\ Up(j, i) \in DOMAIN list
  BY <1>1, <1>2, <1>3, RemoveAtIs
<1>5. \A j \in 1..n : Up(j, i) # i
  BY <1>1 DEF Up
<1>6. ASSUME NEW g \in 1..(n + 1), g # i PROVE \E j \in 1..n : Up(j, i) = g
  <2>1. i \in 1..(n + 1)
    BY <1>1, <1>2
  <2>2. CASE g < i
    <3>1. g \in 1..n /\ Up(g, i) = g
      BY <2>1, <2>2 DEF Up
    <3> QED
      BY <3>1
  <2>3. CASE g > i
    <3>1. g - 1 \in 1..n /\ Up(g - 1, i) = g
      BY <2>1, <2>3 DEF Up
    <3> QED
      BY <3>1
  <2> QED
    BY <1>6, <2>1, <2>2, <2>3
<1>7. TakenOut(rest, list, i, n)
  BY <1>1, <1>2, <1>4, <1>5, <1>6 DEF TakenOut
<1> QED
  BY <1>3, <1>4, <1>7

LEMMA CountNat ==
    ASSUME NEW T, NEW list \in Seq(T), NEW k
    PROVE  Count(list, k) \in Nat
<1>1. PICK S : S = {j \in DOMAIN list : list[j].key = k}
  OBVIOUS
<1>2. PICK n \in Nat : DOMAIN list = 1..n
  BY LenProperties
<1>3. IsFiniteSet(1..n) /\ S \in SUBSET (1..n)
  BY <1>1, <1>2, FS_Interval
<1>4. IsFiniteSet(S)
  BY <1>3, FS_Subset
<1> QED
  BY <1>1, <1>4, FS_CardinalityType DEF Count

LEMMA RemovedKeys ==
    ASSUME NEW T, NEW list \in Seq(T), NEW i \in DOMAIN list, NEW rest \in Seq(T), NEW n, TakenOut(rest, list, i, n)
    PROVE  /\ (Count(rest, list[i].key) = 0) <=> Follows(list, list[i].key)
           /\ (Count(rest, list[i].key) > 0) <=> ~Follows(list, list[i].key)
           /\ Follows(list, list[i].key) => KeysOf(rest) = KeysOf(list) \ {list[i].key}
           /\ ~Follows(list, list[i].key) => KeysOf(rest) = KeysOf(list)
<1>1. PICK k : k = list[i].key
  OBVIOUS
<1>2. /\ DOMAIN rest = 1..n
      /\ \A j \in 1..n : rest[j] = list[Up(j, i)] /\ Up(j, i) \in DOMAIN list /\ Up(j, i) # i
      /\ \A g \in DOMAIN list : g # i => \E j \in 1..n : Up(j, i) = g
  BY DEF TakenOut
<1>3. Follows(list, k) <=> \A j \in DOMAIN list : list[j].key = k => j = i
  BY <1>1, CountIs
<1>4. Count(rest, k) = 0 <=> \A j \in DOMAIN rest : rest[j].key # k
  BY CountIs
<1>5. Count(rest, k) \in Nat
  BY CountNat
<1>6. (\A j \in DOMAIN rest : rest[j].key # k) <=> \A g \in DOMAIN list : list[g].key = k => g = i
  BY <1>2
<1>7. \A x : x \in KeysOf(rest) <=> \E g \in DOMAIN list : g # i /\ list[g].key = x
  <2>1. \A x : x \in KeysOf(rest) <=> \E j \in 1..n : rest[j].key = x
    BY <1>2 DEF KeysOf
  <2> QED
    BY <1>2, <2>1
<1>8. \A x : x \in KeysOf(list) <=> \E g \in DOMAIN list : list[g].key = x
  BY DEF KeysOf
<1>9. Follows(list, k) => KeysOf(rest) = KeysOf(list) \ {k}
  BY <1>1, <1>3, <1>7, <1>8
<1>10. ~Follows(list, k) => KeysOf(rest) = KeysOf(list)
  BY <1>1, <1>3, <1>7, <1>8
<1> QED
  BY <1>1, <1>3, <1>4, <1>5, <1>6, <1>9, <1>10

-----------------------------------------------------------------------------
(* What a filtered list has. *)

LEMMA AppendRange ==
    ASSUME NEW T, NEW s \in Seq(T), NEW e \in T
    PROVE  Append(s, e) \in Seq(T) /\ Range(Append(s, e)) = Range(s) \cup {e}
<1>1. PICK n \in Nat : n = Len(s) /\ DOMAIN s = 1..n
  BY LenProperties
<1>2. PICK new : new = Append(s, e)
  OBVIOUS
<1>3. /\ new \in Seq(T) /\ DOMAIN new = 1..(n + 1)
      /\ \A j \in 1..(n + 1) : new[j] = IF j = n + 1 THEN e ELSE s[j]
  BY <1>1, <1>2, AppendIs
<1>4. \A x \in Range(new) : x \in Range(s) \cup {e}
  <2>1. \A j \in 1..(n + 1) : j # n + 1 => j \in 1..n
    OBVIOUS
  <2> QED
    BY <1>1, <1>3, <2>1 DEF Range
<1>5. \A x \in Range(s) : x \in Range(new)
  <2>1. \A j \in 1..n : j \in 1..(n + 1) /\ j # n + 1
    OBVIOUS
  <2> QED
    BY <1>1, <1>3, <2>1 DEF Range
<1>6. e \in Range(new)
  <2>1. n + 1 \in 1..(n + 1)
    OBVIOUS
  <2> QED
    BY <1>3, <2>1 DEF Range
<1> QED
  BY <1>2, <1>3, <1>4, <1>5, <1>6

LEMMA KeptRange ==
    ASSUME NEW T, NEW seq \in Seq(T), NEW S
    PROVE  Kept(seq, S) \in Seq(T) /\ Range(Kept(seq, S)) = Range(seq) \cap S
<1>1. PICK N \in Nat : N = Len(seq) /\ DOMAIN seq = 1..N
  BY LenProperties
<1>2. PICK kept : KeptAlong(kept, seq, S, N)
  BY <1>1, KeptWalk
<1>3. PICK A : A = {i \in 0..N : kept[i] \in Seq(T) /\ Range(kept[i]) = {x \in S : \E j \in 1..i : seq[j] = x}}
  OBVIOUS
<1>5. 0 \in A
  <2>1. PICK e : e = << >>
    OBVIOUS
  <2>2. e \in Seq(T) /\ DOMAIN e = {}
    BY <2>1, EmptySeq
  <2>3. kept[0] = e
    BY <1>2, <2>1 DEF KeptAlong
  <2>4. Range(e) = {}
    BY <2>2 DEF Range
  <2>5. {x \in S : \E j \in 1..0 : seq[j] = x} = {}
    OBVIOUS
  <2>6. 0 \in 0..N
    BY <1>1
  <2> QED
    BY <1>3, <2>2, <2>3, <2>4, <2>5, <2>6
<1>6. \A i \in 0..N : i \in A /\ i < N => i + 1 \in A
  <2> SUFFICES ASSUME NEW n \in 0..N, n \in A, n < N PROVE n + 1 \in A
    OBVIOUS
  <2>1. n + 1 \in 1..N /\ (n + 1) - 1 = n /\ n + 1 \in 1..Len(seq)
    BY <1>1
  <2>2. PICK x : x = seq[n + 1]
    OBVIOUS
  <2>3. PICK k : k = kept[n]
    OBVIOUS
  <2>4. kept[n + 1] = IF x \in S THEN Append(k, x) ELSE k
    BY <1>2, <2>1, <2>2, <2>3 DEF KeptAlong
  <2>5. x \in T
    BY <2>1, <2>2, ElementOfSeq
  <2>6. k \in Seq(T) /\ Range(k) = {y \in S : \E j \in 1..n : seq[j] = y}
    BY <1>3, <2>3
  <2>7. x \in S => Append(k, x) \in Seq(T) /\ Range(Append(k, x)) = Range(k) \cup {x}
    BY <2>5, <2>6, AppendRange
  <2>8. \A y : (\E j \in 1..(n + 1) : seq[j] = y) <=> (y = x \/ \E j \in 1..n : seq[j] = y)
    <3>1. \A j \in 1..(n + 1) : j = n + 1 \/ j \in 1..n
      OBVIOUS
    <3>2. n + 1 \in 1..(n + 1) /\ 1..n \subseteq 1..(n + 1)
      BY <2>1
    <3> QED
      BY <2>2, <3>1, <3>2
  <2>9. kept[n + 1] \in Seq(T) /\ Range(kept[n + 1]) = {y \in S : \E j \in 1..(n + 1) : seq[j] = y}
    <3>1. CASE x \in S
      BY <2>4, <2>6, <2>7, <2>8, <3>1
    <3>2. CASE x \notin S
      BY <2>4, <2>6, <2>8, <3>2
    <3> QED
      BY <3>1, <3>2
  <2>10. n + 1 \in 0..N
    BY <2>1
  <2> QED
    BY <1>3, <2>9, <2>10
<1>7. \A i \in 0..N : i \in A
  BY <1>1, <1>5, <1>6, IntervalInduction
<1>8. PICK k : k = Kept(seq, S)
  OBVIOUS
<1>9. k \in Seq(T) /\ Range(k) = {x \in S : \E j \in 1..N : seq[j] = x}
  <2>1. N \in A
    BY <1>1, <1>7
  <2>2. k = kept[N]
    BY <1>2, <1>8 DEF KeptAlong
  <2> QED
    BY <1>3, <2>1, <2>2
<1>10. Range(k) = Range(seq) \cap S
  BY <1>1, <1>9 DEF Range
<1> QED
  BY <1>8, <1>9, <1>10

-----------------------------------------------------------------------------
(* Removing a state or a field (workflowReducer.ts:201-215, 278-291).      *)

LEMMA RemoveStateIs ==
    ASSUME NEW e, FlowHeld(e), NEW i \in DOMAIN e.def.states, NEW rest, rest = RemoveAt(e.def.states, i)
    PROVE  LET old  == e.def.states[i].key
               gone == ~(Count(rest, old) > 0)
           IN  removeState(e, i)
               = Change(e, Flow(e.def.slug, e.def.title, IF gone THEN Swap(e.def.initial, old, FirstKey(rest)) ELSE e.def.initial,
                                rest, IF gone THEN WithoutState(e.def.transitions, old) ELSE e.def.transitions,
                                e.def.fields, e.def.onSubmit), Settings)
<1>1. PICK d : d = e.def /\ d = Flow(d.slug, d.title, d.initial, d.states, d.transitions, d.fields, d.onSubmit)
  BY PartsAre DEF Parts
<1>2. PICK old : old = d.states[i].key
  OBVIOUS
<1>3. PICK d1 : d1 = [d EXCEPT !.states = rest]
  OBVIOUS
<1>5. d1 = Flow(d.slug, d.title, d.initial, rest, d.transitions, d.fields, d.onSubmit)
  BY <1>1, <1>3, FlowIs
<1>6. d1.initial = d.initial /\ d1.transitions = d.transitions
  BY <1>5 DEF Flow
<1>7. PICK m : m = WithoutState(d.transitions, old)
  OBVIOUS
<1>8. PICK first : first = Swap(d.initial, old, FirstKey(rest))
  OBVIOUS
<1>9. PICK d2 : d2 = [d1 EXCEPT !.transitions = m]
  OBVIOUS
<1>10. d2 = Flow(d.slug, d.title, d.initial, rest, m, d.fields, d.onSubmit)
  BY <1>5, <1>9, FlowIs
<1>11. [d2 EXCEPT !.initial = first] = Flow(d.slug, d.title, first, rest, m, d.fields, d.onSubmit)
  BY <1>10, FlowIs
<1>12. [d1 EXCEPT !.transitions = m, !.initial = first] = [d2 EXCEPT !.initial = first]
  BY <1>9
<1>13. removeState(e, i)
       = Change(e, IF Count(rest, old) > 0 THEN d1 ELSE [d1 EXCEPT !.transitions = m, !.initial = first], Settings)
  BY <1>1, <1>2, <1>3, <1>6, <1>7, <1>8 DEF removeState
<1>14. CASE Count(rest, old) > 0
  BY <1>1, <1>2, <1>5, <1>13, <1>14
<1>15. CASE ~(Count(rest, old) > 0)
  BY <1>1, <1>2, <1>7, <1>8, <1>11, <1>12, <1>13, <1>15
<1> QED
  BY <1>14, <1>15

LEMMA RemoveFlowFieldIs ==
    ASSUME NEW e, FlowHeld(e), NEW i \in DOMAIN e.def.fields, NEW rest, rest = RemoveAt(e.def.fields, i)
    PROVE  LET old  == e.def.fields[i].key
               gone == ~(Count(rest, old) > 0)
           IN  removeField(e, i)
               = Change(e, Flow(e.def.slug, e.def.title, e.def.initial, e.def.states,
                                IF gone THEN DropNeeds(e.def.transitions, old) ELSE e.def.transitions,
                                rest, e.def.onSubmit), Settings)
<1>1. PICK d : d = e.def /\ d = Flow(d.slug, d.title, d.initial, d.states, d.transitions, d.fields, d.onSubmit)
  BY PartsAre DEF Parts
<1>2. PICK old : old = d.fields[i].key
  OBVIOUS
<1>3. PICK d1 : d1 = [d EXCEPT !.fields = rest]
  OBVIOUS
<1>5. d1 = Flow(d.slug, d.title, d.initial, d.states, d.transitions, rest, d.onSubmit)
  BY <1>1, <1>3, FlowIs
<1>6. d1.transitions = d.transitions
  BY <1>5 DEF Flow
<1>7. PICK m : m = DropNeeds(d.transitions, old)
  OBVIOUS
<1>10. [d1 EXCEPT !.transitions = m] = Flow(d.slug, d.title, d.initial, d.states, m, rest, d.onSubmit)
  BY <1>5, FlowIs
<1>13. removeField(e, i)
       = Change(e, IF Count(rest, old) > 0 THEN d1 ELSE [d1 EXCEPT !.transitions = m], Settings)
  <2>1. m = [j \in DOMAIN d1.transitions |->
                withRequireFields(d1.transitions[j], old, d1.transitions[j].needs \ {old})]
    BY <1>6, <1>7 DEF DropNeeds
  <2> QED
    BY <1>1, <1>2, <1>3, <2>1 DEF removeField, MapTransitions
<1>14. CASE Count(rest, old) > 0
  BY <1>1, <1>2, <1>5, <1>13, <1>14
<1>15. CASE ~(Count(rest, old) > 0)
  BY <1>1, <1>2, <1>7, <1>10, <1>13, <1>15
<1> QED
  BY <1>14, <1>15

(* The transitions that survive a state: each lost it as a source, and     *)
(* leads to another one.                                                   *)
LEMMA WithoutStateIs ==
    ASSUME NEW transitions \in Seq(Transitions), NEW k \in Nat
    PROVE  /\ WithoutState(transitions, k) \in Seq(Transitions)
           /\ Range(WithoutState(transitions, k))
              = {t \in Range(Freed(transitions, k)) : t.to # k /\ t.from # {}}
<1>1. PICK freed \in Seq(Transitions) : freed = Freed(transitions, k)
  BY FreedAre DEF SourcesFreed, Changed
<1>2. PICK S : S = {t \in Range(freed) : t.to # k /\ t.from # {}}
  OBVIOUS
<1>3. WithoutState(transitions, k) = Kept(freed, S)
  BY <1>1, <1>2 DEF WithoutState
<1>4. Kept(freed, S) \in Seq(Transitions) /\ Range(Kept(freed, S)) = Range(freed) \cap S
  BY KeptRange
<1> QED
  BY <1>1, <1>2, <1>3, <1>4

LEMMA RemoveStateGoesOn ==
    ASSUME NEW e, FlowHeld(e), NEW i \in DOMAIN e.def.states
    PROVE  FlowGoesOn(e, removeState(e, i))
<1>1. PICK states \in Seq(States), transitions \in Seq(Transitions), fields \in Seq(WorkflowFields) :
            Parts(e, states, transitions, fields)
  BY PartsAre DEF Parts
<1>2. states = e.def.states /\ transitions = e.def.transitions /\ fields = e.def.fields /\ i \in DOMAIN states
  BY <1>1 DEF Parts
<1>3. PICK old \in Nat : old = states[i].key
  <2>1. states[i] \in States
    BY <1>2, ElementOfSeq, LenProperties
  <2> QED
    BY <2>1 DEF States
<1>4a. PICK rest : rest = RemoveAt(states, i)
  OBVIOUS
<1>4b. rest \in Seq(States) /\ \E n : TakenOut(rest, states, i, n)
  BY <1>2, <1>4a, RemoveAtTakes
<1>4c. PICK n : TakenOut(rest, states, i, n)
  BY <1>4b
<1>4. rest = RemoveAt(states, i) /\ rest \in Seq(States) /\ TakenOut(rest, states, i, n)
  BY <1>4a, <1>4b, <1>4c
<1>5. /\ (Count(rest, old) > 0) <=> ~Follows(states, old)
      /\ Follows(states, old) => KeysOf(rest) = KeysOf(states) \ {old}
      /\ ~Follows(states, old) => KeysOf(rest) = KeysOf(states)
  BY <1>2, <1>3, <1>4, RemovedKeys
<1>6. PICK initial \in Nat : initial = e.def.initial
  BY <1>1 DEF Parts
<1>7. FlowRefs(e.def) => Refs(initial, states, transitions, fields)
  BY <1>2, <1>6 DEF FlowRefs
<1>8. e.def.onSubmit \in Seq(Actions) /\ e.def.title \in Labels
  BY <1>1 DEF Parts
<1>9. \A new : There(Settings, rest, new, fields)
  BY NothingSelected
<1>10. CASE ~Follows(states, old)
  <2>1. removeState(e, i)
        = Change(e, Flow(e.def.slug, e.def.title, initial, rest, transitions, fields, e.def.onSubmit), Settings)
    BY <1>2, <1>3, <1>4, <1>5, <1>6, <1>10, RemoveStateIs
  <2>2. Refs(initial, states, transitions, fields) => Refs(initial, rest, transitions, fields)
    <3>1. Refs(initial, states, transitions, fields) => initial \in KeysOf(rest)
      <4>1. states # << >>
        BY <1>2
      <4> QED
        BY <1>5, <1>10, <4>1 DEF Refs
    <3> QED
      BY <1>5, <1>10, <3>1, RefsGrow
  <2> QED
    BY <1>4, <1>7, <1>8, <1>9, <2>1, <2>2, FlowStep
<1>11. CASE Follows(states, old)
  <2>1. PICK new \in Seq(Transitions) :
            /\ new = WithoutState(transitions, old)
            /\ Range(new) = {t \in Range(Freed(transitions, old)) : t.to # old /\ t.from # {}}
    BY WithoutStateIs
  <2>2. PICK first : first = Swap(initial, old, FirstKey(rest))
    OBVIOUS
  <2>3. removeState(e, i)
        = Change(e, Flow(e.def.slug, e.def.title, first, rest, new, fields, e.def.onSubmit), Settings)
    BY <1>2, <1>3, <1>4, <1>5, <1>6, <1>11, <2>1, <2>2, RemoveStateIs
  <2>4. /\ FirstKey(rest) \in Nat
        /\ rest # << >> => FirstKey(rest) \in KeysOf(rest)
    <3>1. CASE rest = << >>
      BY <3>1 DEF FirstKey
    <3>2. CASE rest # << >>
      <4>1. 1 \in DOMAIN rest /\ rest[1] \in States
        BY <1>4, <3>2, ElementOfSeq, LenProperties, EmptySeq
      <4> QED
        BY <3>2, <4>1 DEF FirstKey, KeysOf, States
    <3> QED
      BY <3>1, <3>2
  <2>5. first \in Nat
    BY <2>2, <2>4 DEF Swap
  <2>6. Refs(initial, states, transitions, fields) => Refs(first, rest, new, fields)
    <3> SUFFICES ASSUME Refs(initial, states, transitions, fields)
                 PROVE  Refs(first, rest, new, fields)
      OBVIOUS
    <3>1. rest # << >> => first \in KeysOf(rest)
      <4>1. states # << >>
        BY <1>2
      <4> QED
        BY <1>5, <1>11, <2>2, <2>4, <4>1 DEF Refs, Swap
    <3>2. ASSUME NEW j \in DOMAIN new
          PROVE  new[j].from \cup {new[j].to} \subseteq KeysOf(rest) /\ new[j].needs \subseteq KeysOf(fields)
      <4>1. PICK freed : freed = Freed(transitions, old) /\ SourcesFreed(freed, transitions, old)
        BY FreedAre
      <4>2. new[j] \in Range(freed) /\ new[j].to # old
        BY <2>1, <4>1 DEF Range
      <4>3. PICK h \in DOMAIN freed : new[j] = freed[h]
        BY <4>2 DEF Range
      <4>4. /\ h \in DOMAIN transitions /\ new[j].from = transitions[h].from \ {old}
            /\ new[j].to = transitions[h].to /\ new[j].needs = transitions[h].needs
        BY <4>1, <4>3 DEF SourcesFreed, Changed
      <4>5. /\ transitions[h].from \cup {transitions[h].to} \subseteq KeysOf(states)
            /\ transitions[h].needs \subseteq KeysOf(fields)
        BY <4>4 DEF Refs
      <4> QED
        BY <1>5, <1>11, <4>2, <4>4, <4>5
    <3> QED
      BY <3>1, <3>2 DEF Refs
  <2> QED
    BY <1>4, <1>7, <1>8, <1>9, <2>1, <2>3, <2>5, <2>6, FlowStep
<1> QED
  BY <1>10, <1>11

LEMMA RemoveFlowFieldGoesOn ==
    ASSUME NEW e, FlowHeld(e), NEW i \in DOMAIN e.def.fields
    PROVE  FlowGoesOn(e, removeField(e, i))
<1>1. PICK states \in Seq(States), transitions \in Seq(Transitions), fields \in Seq(WorkflowFields) :
            Parts(e, states, transitions, fields)
  BY PartsAre DEF Parts
<1>2. states = e.def.states /\ transitions = e.def.transitions /\ fields = e.def.fields /\ i \in DOMAIN fields
  BY <1>1 DEF Parts
<1>3. PICK old \in Nat : old = fields[i].key
  <2>1. fields[i] \in WorkflowFields
    BY <1>2, ElementOfSeq, LenProperties
  <2> QED
    BY <2>1 DEF WorkflowFields
<1>4a. PICK rest : rest = RemoveAt(fields, i)
  OBVIOUS
<1>4b. rest \in Seq(WorkflowFields) /\ \E n : TakenOut(rest, fields, i, n)
  BY <1>2, <1>4a, RemoveAtTakes
<1>4c. PICK n : TakenOut(rest, fields, i, n)
  BY <1>4b
<1>4. rest = RemoveAt(fields, i) /\ rest \in Seq(WorkflowFields) /\ TakenOut(rest, fields, i, n)
  BY <1>4a, <1>4b, <1>4c
<1>5. /\ (Count(rest, old) > 0) <=> ~Follows(fields, old)
      /\ Follows(fields, old) => KeysOf(rest) = KeysOf(fields) \ {old}
      /\ ~Follows(fields, old) => KeysOf(rest) = KeysOf(fields)
  BY <1>2, <1>3, <1>4, RemovedKeys
<1>6. PICK initial \in Nat : initial = e.def.initial
  BY <1>1 DEF Parts
<1>7. FlowRefs(e.def) => Refs(initial, states, transitions, fields)
  BY <1>2, <1>6 DEF FlowRefs
<1>8. e.def.onSubmit \in Seq(Actions) /\ e.def.title \in Labels
  BY <1>1 DEF Parts
<1>9. \A new : There(Settings, states, new, rest)
  BY NothingSelected
<1>10. CASE ~Follows(fields, old)
  <2>1. removeField(e, i)
        = Change(e, Flow(e.def.slug, e.def.title, initial, states, transitions, rest, e.def.onSubmit), Settings)
    BY <1>2, <1>3, <1>4, <1>5, <1>6, <1>10, RemoveFlowFieldIs
  <2>2. Refs(initial, states, transitions, fields) => Refs(initial, states, transitions, rest)
    BY <1>5, <1>10, RefsGrow DEF Refs
  <2> QED
    BY <1>4, <1>7, <1>8, <1>9, <2>1, <2>2, FlowStep
<1>11. CASE Follows(fields, old)
  <2>1. PICK new : new = DropNeeds(transitions, old) /\ NeedsDropped(new, transitions, old)
    BY DropNeedsAre
  <2>2. new \in Seq(Transitions)
    BY <2>1 DEF NeedsDropped, Changed
  <2>3. removeField(e, i)
        = Change(e, Flow(e.def.slug, e.def.title, initial, states, new, rest, e.def.onSubmit), Settings)
    BY <1>2, <1>3, <1>4, <1>5, <1>6, <1>11, <2>1, RemoveFlowFieldIs
  <2>6. Refs(initial, states, transitions, fields) => Refs(initial, states, new, rest)
    BY <1>5, <1>11, <2>1 DEF Refs, NeedsDropped, Changed
  <2> QED
    BY <1>4, <1>7, <1>8, <1>9, <2>2, <2>3, <2>6, FlowStep
<1> QED
  BY <1>10, <1>11

-----------------------------------------------------------------------------
(* The transitions (workflowReducer.ts:217-243).                           *)

(* One transition is another: what it names is known as before. *)
LEMMA TransitionGoesOn ==
    ASSUME NEW e, FlowHeld(e), NEW i \in DOMAIN e.def.transitions, NEW t \in Transitions,
           FlowRefs(e.def) => /\ t.from \cup {t.to} \subseteq KeysOf(e.def.states)
                              /\ t.needs \subseteq KeysOf(e.def.fields)
    PROVE  FlowGoesOn(e, Change(e, [e.def EXCEPT !.transitions = [e.def.transitions EXCEPT ![i] = t]], e.sel))
<1>1. PICK states \in Seq(States), transitions \in Seq(Transitions), fields \in Seq(WorkflowFields) :
            Parts(e, states, transitions, fields)
  BY PartsAre DEF Parts
<1>2. states = e.def.states /\ transitions = e.def.transitions /\ fields = e.def.fields /\ i \in DOMAIN transitions
  BY <1>1 DEF Parts
<1>3. PICK new : new = [transitions EXCEPT ![i] = t]
  OBVIOUS
<1>4. Entered(new, transitions, i, t, Transitions)
  BY <1>2, <1>3, EntryIs
<1>5. /\ new \in Seq(Transitions) /\ DOMAIN new = DOMAIN transitions
      /\ \A j \in DOMAIN transitions : new[j] = IF j = i THEN t ELSE transitions[j]
  BY <1>4 DEF Entered
<1>6. PICK d : d = e.def /\ d = Flow(d.slug, d.title, d.initial, states, transitions, fields, d.onSubmit)
  BY <1>1 DEF Parts
<1>7. [d EXCEPT !.transitions = new] = Flow(d.slug, d.title, d.initial, states, new, fields, d.onSubmit)
  BY <1>6, FlowIs
<1>8. FlowRefs(e.def) => Refs(d.initial, states, new, fields)
  BY <1>2, <1>5, <1>6 DEF FlowRefs, Refs
<1>9. (e.sel = Settings \/ e.sel \in FlowPlaces) /\ (FlowThere(e) => There(e.sel, states, new, fields))
  BY <1>2, <1>5, SelStays
<1>10. d.initial \in Nat /\ d.onSubmit \in Seq(Actions) /\ d.title \in Labels
  BY <1>1, <1>6 DEF Parts
<1>11. FlowGoesOn(e, Change(e, Flow(d.slug, d.title, d.initial, states, new, fields, d.onSubmit), e.sel))
  BY <1>5, <1>8, <1>9, <1>10, FlowStep
<1> QED
  BY <1>2, <1>3, <1>6, <1>7, <1>11

LEMMA PatchTransitionGoesOn ==
    ASSUME NEW e, FlowHeld(e), NEW i \in DOMAIN e.def.transitions, NEW labels \in SUBSET Labels,
           NEW keys \in SUBSET Nat, NEW t \in TransitionPatches(e.def, i, labels, keys)
    PROVE  FlowGoesOn(e, updateTransition(e, i, t))
<1>1. PICK states \in Seq(States), transitions \in Seq(Transitions), fields \in Seq(WorkflowFields) :
            Parts(e, states, transitions, fields)
  BY PartsAre DEF Parts
<1>2. states = e.def.states /\ transitions = e.def.transitions /\ fields = e.def.fields /\ i \in DOMAIN transitions
  BY <1>1 DEF Parts
<1>3. PICK u \in Transitions : u = transitions[i]
  BY <1>2, ElementOfSeq, LenProperties
<1>4. /\ \A k \in KeysOf(states) : k \in Nat
      /\ \A k \in KeysOf(fields) : k \in Nat
  BY <1>2, KeysAreNumbers
<1>5. FlowRefs(e.def) => u.from \cup {u.to} \subseteq KeysOf(states) /\ u.needs \subseteq KeysOf(fields)
  BY <1>2, <1>3 DEF FlowRefs, Refs
<1>6. u.from \in SUBSET Nat /\ u.to \in Nat /\ u.needs \in SUBSET Nat
  BY TransitionIs
<1>7. t \in Transitions /\ (FlowRefs(e.def) => t.from \cup {t.to} \subseteq KeysOf(states) /\ t.needs \subseteq KeysOf(fields))
  <2>1. CASE \E k \in keys : t = [u EXCEPT !.key = k]
    <3>1. t \in Transitions /\ t.from = u.from /\ t.to = u.to /\ t.needs = u.needs
      BY <2>1 DEF Transitions
    <3> QED
      BY <1>5, <3>1
  <2>2. CASE \E k \in KeysOf(states) : t = [u EXCEPT !.from = IF k \in u.from THEN u.from \ {k} ELSE u.from \cup {k}]
    <3>1. PICK k \in KeysOf(states) : t = [u EXCEPT !.from = IF k \in u.from THEN u.from \ {k} ELSE u.from \cup {k}]
      BY <2>2
    <3>2. PICK from \in SUBSET Nat : /\ from = IF k \in u.from THEN u.from \ {k} ELSE u.from \cup {k}
                                     /\ from \subseteq u.from \cup {k}
      BY <1>4, <1>6
    <3>3. t \in Transitions /\ t.from = from /\ t.to = u.to /\ t.needs = u.needs
      BY <3>1, <3>2 DEF Transitions
    <3> QED
      BY <1>5, <3>2, <3>3
  <2>3. CASE \E k \in KeysOf(states) : t = [u EXCEPT !.to = k]
    <3>1. PICK k \in KeysOf(states) : t = [u EXCEPT !.to = k]
      BY <2>3
    <3>2. t \in Transitions /\ t.from = u.from /\ t.to = k /\ t.needs = u.needs
      BY <1>4, <3>1 DEF Transitions
    <3> QED
      BY <1>5, <3>2
  <2>4. CASE \E k \in KeysOf(fields) : t = [u EXCEPT !.needs = IF k \in u.needs THEN u.needs \ {k} ELSE u.needs \cup {k}, !.roles = "fine"]
    <3>1. PICK k \in KeysOf(fields) : t = [u EXCEPT !.needs = IF k \in u.needs THEN u.needs \ {k} ELSE u.needs \cup {k}, !.roles = "fine"]
      BY <2>4
    <3>2. PICK needs \in SUBSET Nat : /\ needs = IF k \in u.needs THEN u.needs \ {k} ELSE u.needs \cup {k}
                                      /\ needs \subseteq u.needs \cup {k}
      BY <1>4, <1>6
    <3>3. t = [u EXCEPT !.needs = needs, !.roles = "fine"] /\ "fine" \in Labels
      BY <3>1, <3>2 DEF Labels
    <3>4. t \in Transitions /\ t.from = u.from /\ t.to = u.to /\ t.needs = needs
      BY <3>3 DEF Transitions
    <3> QED
      BY <1>5, <3>2, <3>4
  <2>6. CASE \E l \in labels : t = [u EXCEPT !.label = l]
    <3>1. t \in Transitions /\ t.from = u.from /\ t.to = u.to /\ t.needs = u.needs
      BY <2>6 DEF Transitions
    <3> QED
      BY <1>5, <3>1
  <2>7. CASE t = [u EXCEPT !.roles = "fine"]
    <3>1. t \in Transitions /\ t.from = u.from /\ t.to = u.to /\ t.needs = u.needs
      BY <2>7 DEF Transitions, Labels
    <3> QED
      BY <1>5, <3>1
  <2>5. \/ \E k \in keys : t = [u EXCEPT !.key = k]
        \/ \E l \in labels : t = [u EXCEPT !.label = l]
        \/ t = [u EXCEPT !.roles = "fine"]
        \/ \E k \in KeysOf(states) : t = [u EXCEPT !.from = IF k \in u.from THEN u.from \ {k} ELSE u.from \cup {k}]
        \/ \E k \in KeysOf(states) : t = [u EXCEPT !.to = k]
        \/ \E k \in KeysOf(fields) : t = [u EXCEPT !.needs = IF k \in u.needs THEN u.needs \ {k} ELSE u.needs \cup {k}, !.roles = "fine"]
    BY <1>2, <1>3, Zenon DEF TransitionPatches
  <2> QED
    BY <2>1, <2>2, <2>3, <2>4, <2>5, <2>6, <2>7
<1>8. updateTransition(e, i, t)
      = Change(e, [e.def EXCEPT !.transitions = [e.def.transitions EXCEPT ![i] = t]], e.sel)
  BY DEF updateTransition
<1> QED
  BY <1>2, <1>7, <1>8, TransitionGoesOn

LEMMA RemoveTransitionGoesOn ==
    ASSUME NEW e, FlowHeld(e), NEW i \in DOMAIN e.def.transitions
    PROVE  FlowGoesOn(e, removeTransition(e, i))
<1>1. PICK states \in Seq(States), transitions \in Seq(Transitions), fields \in Seq(WorkflowFields) :
            Parts(e, states, transitions, fields)
  BY PartsAre DEF Parts
<1>2. states = e.def.states /\ transitions = e.def.transitions /\ fields = e.def.fields /\ i \in DOMAIN transitions
  BY <1>1 DEF Parts
<1>3. PICK rest : rest = RemoveAt(transitions, i)
  OBVIOUS
<1>4. rest \in Seq(Transitions) /\ \E n : TakenOut(rest, transitions, i, n)
  BY <1>2, <1>3, RemoveAtTakes
<1>5. \A j \in DOMAIN rest : \E h \in DOMAIN transitions : rest[j] = transitions[h]
  BY <1>4 DEF TakenOut
<1>6. PICK d : d = e.def /\ d = Flow(d.slug, d.title, d.initial, states, transitions, fields, d.onSubmit)
  BY <1>1 DEF Parts
<1>7. [d EXCEPT !.transitions = rest] = Flow(d.slug, d.title, d.initial, states, rest, fields, d.onSubmit)
  BY <1>6, FlowIs
<1>8. FlowRefs(e.def) => Refs(d.initial, states, rest, fields)
  BY <1>2, <1>5, <1>6 DEF FlowRefs, Refs
<1>9. There(Settings, states, rest, fields)
  BY NothingSelected
<1>10. d.initial \in Nat /\ d.onSubmit \in Seq(Actions) /\ d.title \in Labels
  BY <1>1, <1>6 DEF Parts
<1>11. FlowGoesOn(e, Change(e, Flow(d.slug, d.title, d.initial, states, rest, fields, d.onSubmit), Settings))
  BY <1>4, <1>8, <1>9, <1>10, FlowStep
<1>12. removeTransition(e, i) = Change(e, [d EXCEPT !.transitions = rest], Settings)
  BY <1>2, <1>3, <1>6 DEF removeTransition
<1> QED
  BY <1>7, <1>11, <1>12

(* The first entry whose key is another one. *)
FirstOf(others) == CHOOSE i \in others : \A j \in others : i <= j

LEMMA FirstOther ==
    ASSUME NEW states \in Seq(States), NEW others, others \subseteq DOMAIN states, others # {}
    PROVE  FirstOf(others) \in others
<1>1. others \in SUBSET Nat
  BY LenProperties
<1>2. \E i \in others : \A j \in others : i <= j
  BY <1>1, LeastNumber
<1> QED
  BY <1>2 DEF FirstOf

Source(d) == IF d.initial \in KeysOf(d.states) THEN d.initial ELSE FirstKey(d.states)
Others(d) == {i \in DOMAIN d.states : d.states[i].key # Source(d)}
Target(d) == IF Others(d) = {} THEN Source(d) ELSE d.states[FirstOf(Others(d))].key
NewTransition(d) == Transition(Fresh(KeysOf(d.transitions)), {Source(d)} \ {0}, Target(d))

LEMMA AddTransitionIs ==
    ASSUME NEW e
    PROVE  addTransition(e) = Change(e, [e.def EXCEPT !.transitions = Append(e.def.transitions, NewTransition(e.def))],
                                     Place("transitions", Len(Append(e.def.transitions, NewTransition(e.def)))))
BY Zenon DEF addTransition, NewTransition, Target, Others, Source, FirstOf

LEMMA AddTransitionGoesOn ==
    ASSUME NEW e, FlowHeld(e), e.def.states # << >>
    PROVE  FlowGoesOn(e, addTransition(e))
<1>1. PICK states \in Seq(States), transitions \in Seq(Transitions), fields \in Seq(WorkflowFields) :
            Parts(e, states, transitions, fields)
  BY PartsAre DEF Parts
<1>2. states = e.def.states /\ transitions = e.def.transitions /\ fields = e.def.fields
  BY <1>1 DEF Parts
<1>3. PICK source : source = Source(e.def)
  OBVIOUS
<1>4. PICK others : others = Others(e.def) /\ others \subseteq DOMAIN states
  BY <1>2 DEF Others
<1>5. PICK to : to = Target(e.def)
  OBVIOUS
<1>6. \A k \in KeysOf(states) : k \in Nat
  BY <1>2, KeysAreNumbers
<1>7. source \in KeysOf(states)
  <2>1. 1 \in DOMAIN states
    BY <1>2, LenProperties, EmptySeq
  <2>2. FirstKey(states) = states[1].key
    BY <1>2 DEF FirstKey
  <2> QED
    BY <1>2, <1>3, <2>1, <2>2 DEF KeysOf, Source
<1>8. to \in KeysOf(states)
  <2>1. CASE others = {}
    BY <1>3, <1>4, <1>5, <1>7, <2>1 DEF Target
  <2>2. CASE others # {}
    <3>1. PICK i \in others : i = FirstOf(others)
      BY <1>4, <2>2, FirstOther
    <3> QED
      BY <1>2, <1>4, <1>5, <2>2, <3>1 DEF KeysOf, Target
  <2> QED
    BY <2>1, <2>2
<1>9. PICK k \in Nat : k = Fresh(KeysOf(transitions))
  BY FreshIsNew
<1>10. PICK t : t = NewTransition(e.def) /\ t = Transition(k, {source} \ {0}, to)
  BY <1>2, <1>3, <1>5, <1>9 DEF NewTransition
<1>11. t \in Transitions /\ t.from \subseteq {source} /\ t.to = to /\ t.needs = {}
  <2>1. << >> \in Seq(Actions)
    BY EmptySeq
  <2> QED
    BY <1>6, <1>7, <1>8, <1>10, <2>1 DEF Transition, Transitions, Labels
<1>12. PICK more : more = Append(transitions, t)
  OBVIOUS
<1>13. Added(more, transitions, t, Transitions)
  BY <1>11, <1>12, AddedIs
<1>14. /\ more \in Seq(Transitions) /\ Len(more) \in DOMAIN more /\ Len(more) \in Nat \ {0}
       /\ \A j \in DOMAIN more : more[j] = IF j = Len(more) THEN t ELSE transitions[j]
       /\ \A j \in DOMAIN more : j # Len(more) => j \in DOMAIN transitions
  BY <1>13 DEF Added
<1>15. PICK d : d = e.def /\ d = Flow(d.slug, d.title, d.initial, states, transitions, fields, d.onSubmit)
  BY <1>1 DEF Parts
<1>16. [d EXCEPT !.transitions = more] = Flow(d.slug, d.title, d.initial, states, more, fields, d.onSubmit)
  BY <1>15, FlowIs
<1>17. FlowRefs(e.def) => Refs(d.initial, states, more, fields)
  <2> SUFFICES ASSUME FlowRefs(e.def), NEW j \in DOMAIN more
               PROVE  more[j].from \cup {more[j].to} \subseteq KeysOf(states) /\ more[j].needs \subseteq KeysOf(fields)
    BY <1>2, <1>15 DEF FlowRefs, Refs
  <2>1. CASE j = Len(more)
    BY <1>7, <1>8, <1>11, <1>14, <2>1
  <2>2. CASE j # Len(more)
    BY <1>2, <1>14, <2>2 DEF FlowRefs, Refs
  <2> QED
    BY <2>1, <2>2
<1>18. PICK s : s = Place("transitions", Len(more))
  OBVIOUS
<1>19. s \in FlowPlaces /\ There(s, states, more, fields)
  BY <1>14, <1>18, PlaceThere DEF There
<1>20. d.initial \in Nat /\ d.onSubmit \in Seq(Actions) /\ d.title \in Labels
  BY <1>1, <1>15 DEF Parts
<1>21. FlowGoesOn(e, Change(e, Flow(d.slug, d.title, d.initial, states, more, fields, d.onSubmit), s))
  BY <1>14, <1>17, <1>19, <1>20, FlowStep
<1>22. addTransition(e) = Change(e, [d EXCEPT !.transitions = more], s)
  BY <1>2, <1>10, <1>12, <1>15, <1>18, AddTransitionIs
<1> QED
  BY <1>16, <1>21, <1>22

-----------------------------------------------------------------------------
(* The actions of a transition or of the submit; texts and problems        *)
(* (workflowReducer.ts:293-316).                                           *)

HasActions(e) == e.sel = Settings \/ (e.sel.at = "transitions" /\ e.sel.i \in DOMAIN e.def.transitions)

LEMMA ActionsAre ==
    ASSUME NEW e, FlowHeld(e), HasActions(e)
    PROVE  getActions(e) \in Seq(Actions)
<1>1. CASE e.sel = Settings
  BY <1>1, PartsAre DEF getActions, Parts
<1>2. CASE e.sel # Settings
  <2>1. PICK t : t = e.def.transitions[e.sel.i] /\ t \in Transitions
    BY <1>2, PartsAre, ElementOfSeq, LenProperties DEF Parts, HasActions
  <2>2. t.actions \in Seq(Actions)
    BY <2>1, TransitionIs
  <2> QED
    BY <1>2, <2>1, <2>2 DEF getActions
<1> QED
  BY <1>1, <1>2

LEMMA SetActionsGoesOn ==
    ASSUME NEW e, FlowHeld(e), HasActions(e), NEW actions \in Seq(Actions)
    PROVE  FlowGoesOn(e, setActions(e, actions))
<1>1. PICK states \in Seq(States), transitions \in Seq(Transitions), fields \in Seq(WorkflowFields) :
            Parts(e, states, transitions, fields)
  BY PartsAre DEF Parts
<1>2. states = e.def.states /\ transitions = e.def.transitions /\ fields = e.def.fields
  BY <1>1 DEF Parts
<1>3. PICK d : d = e.def /\ d = Flow(d.slug, d.title, d.initial, states, transitions, fields, d.onSubmit)
  BY <1>1 DEF Parts
<1>4. CASE e.sel = Settings
  <2>1. [d EXCEPT !.onSubmit = actions] = Flow(d.slug, d.title, d.initial, states, transitions, fields, actions)
    BY <1>3, FlowIs
  <2>2. FlowRefs(e.def) => Refs(d.initial, states, transitions, fields)
    BY <1>2, <1>3 DEF FlowRefs
  <2>3. There(Settings, states, transitions, fields)
    BY NothingSelected
  <2>4. d.initial \in Nat /\ d.title \in Labels
    BY <1>1, <1>3 DEF Parts
  <2>5. FlowGoesOn(e, Change(e, Flow(d.slug, d.title, d.initial, states, transitions, fields, actions), Settings))
    BY <2>2, <2>3, <2>4, FlowStep
  <2>6. setActions(e, actions) = Change(e, [d EXCEPT !.onSubmit = actions], Settings)
    BY <1>3, <1>4 DEF setActions
  <2> QED
    BY <2>1, <2>5, <2>6
<1>5. CASE e.sel # Settings
  <2>1. PICK i \in DOMAIN transitions : i = e.sel.i
    BY <1>2, <1>5 DEF HasActions
  <2>2. PICK u \in Transitions : u = transitions[i]
    BY ElementOfSeq, LenProperties
  <2>3. PICK t : t = [u EXCEPT !.actions = actions]
    OBVIOUS
  <2>4. t \in Transitions /\ t.from = u.from /\ t.to = u.to /\ t.needs = u.needs
    BY <2>2, <2>3 DEF Transitions
  <2>5. FlowRefs(e.def) => t.from \cup {t.to} \subseteq KeysOf(e.def.states) /\ t.needs \subseteq KeysOf(e.def.fields)
    BY <1>2, <2>2, <2>4 DEF FlowRefs, Refs
  <2>6. FlowGoesOn(e, Change(e, [e.def EXCEPT !.transitions = [e.def.transitions EXCEPT ![i] = t]], e.sel))
    BY <1>2, <2>1, <2>4, <2>5, TransitionGoesOn
  <2>7. d.transitions = transitions
    BY <1>2, <1>3
  <2>8. [d EXCEPT !.transitions[i].actions = actions] = [d EXCEPT !.transitions = [transitions EXCEPT ![i] = t]]
    BY <2>2, <2>3, <2>7
  <2>9. setActions(e, actions) = Change(e, [d EXCEPT !.transitions[i].actions = actions], e.sel)
    BY <1>3, <1>5, <2>1 DEF setActions
  <2> QED
    BY <1>2, <1>3, <2>6, <2>8, <2>9
<1> QED
  BY <1>4, <1>5

LEMMA AddActionGoesOn ==
    ASSUME NEW e, FlowHeld(e), HasActions(e), NEW type \in ActionTypes
    PROVE  FlowGoesOn(e, addAction(e, type))
<1>1. newAction(type) \in Actions
  BY DEF newAction, Actions
<1>2. Append(getActions(e), newAction(type)) \in Seq(Actions)
  BY <1>1, ActionsAre, AppendProperties
<1> QED
  BY <1>2, SetActionsGoesOn DEF addAction

LEMMA UpdateActionGoesOn ==
    ASSUME NEW e, FlowHeld(e), HasActions(e), NEW j \in DOMAIN getActions(e), NEW sides \in SUBSET Sides
    PROVE  FlowGoesOn(e, updateAction(e, j, sides))
<1>1. PICK actions \in Seq(Actions) : actions = getActions(e)
  BY ActionsAre
<1>2. PICK a \in Actions : a = actions[j]
  BY <1>1, ElementOfSeq, LenProperties
<1>3. PICK b : b = [a EXCEPT !.refusedBy = sides]
  OBVIOUS
<1>4. b \in Actions
  BY <1>3 DEF Actions
<1>5. Entered([actions EXCEPT ![j] = b], actions, j, b, Actions)
  BY <1>1, <1>4, EntryIs
<1>6. [actions EXCEPT ![j].refusedBy = sides] = [actions EXCEPT ![j] = b]
  BY <1>2, <1>3
<1>7. [actions EXCEPT ![j].refusedBy = sides] \in Seq(Actions)
  BY <1>5, <1>6 DEF Entered
<1> QED
  BY <1>1, <1>7, SetActionsGoesOn DEF updateAction

LEMMA RemoveActionGoesOn ==
    ASSUME NEW e, FlowHeld(e), HasActions(e), NEW j \in DOMAIN getActions(e)
    PROVE  FlowGoesOn(e, removeAction(e, j))
<1>1. PICK actions \in Seq(Actions) : actions = getActions(e)
  BY ActionsAre
<1>2. RemoveAt(actions, j) \in Seq(Actions)
  BY <1>1, RemoveAtTakes
<1> QED
  BY <1>1, <1>2, SetActionsGoesOn DEF removeAction

(* A selection that is kept is there. *)
LEMMA ValidIsThere ==
    ASSUME NEW d, IsWorkflow(d), NEW s, s = Settings \/ s \in FlowPlaces
    PROVE  /\ validSelection(d, s) \in {s, Settings}
           /\ There(validSelection(d, s), d.states, d.transitions, d.fields)
<1>1. PICK v : v = validSelection(d, s)
  OBVIOUS
<1>2. v = IF s.i <= Len(ListAt(d, s.at)) THEN s ELSE Settings
  BY <1>1 DEF validSelection
<1>3. CASE s \in FlowPlaces /\ s.i <= Len(ListAt(d, s.at))
  <2>1. \A T : \A list \in Seq(T) : s.i <= Len(list) => s.i \in DOMAIN list
    <3> SUFFICES ASSUME NEW T, NEW list \in Seq(T), s.i <= Len(list) PROVE s.i \in DOMAIN list
      OBVIOUS
    <3>1. PICK n \in Nat : n = Len(list) /\ DOMAIN list = 1..n
      BY LenProperties
    <3>2. s.i \in Nat /\ s.i # 0
      BY <1>3 DEF FlowPlaces
    <3> QED
      BY <3>1, <3>2
  <2>2. s.at \in {"states", "transitions", "fields"}
    BY <1>3 DEF FlowPlaces
  <2>3. CASE s.at = "states"
    <3>1. ListAt(d, s.at) = d.states
      BY <2>3 DEF ListAt
    <3> QED
      BY <1>1, <1>2, <1>3, <2>1, <2>3, <3>1 DEF There, IsWorkflow
  <2>4. CASE s.at = "transitions"
    <3>1. ListAt(d, s.at) = d.transitions
      BY <2>4 DEF ListAt
    <3> QED
      BY <1>1, <1>2, <1>3, <2>1, <2>4, <3>1 DEF There, IsWorkflow
  <2>5. CASE s.at = "fields"
    <3>1. ListAt(d, s.at) = d.fields
      BY <2>5 DEF ListAt
    <3> QED
      BY <1>1, <1>2, <1>3, <2>1, <2>5, <3>1 DEF There, IsWorkflow
  <2> QED
    BY <2>2, <2>3, <2>4, <2>5
<1>4. CASE ~(s \in FlowPlaces /\ s.i <= Len(ListAt(d, s.at)))
  <2>1. v = Settings
    BY <1>2, <1>4
  <2> QED
    BY <1>1, <2>1, NothingSelected
<1> QED
  BY <1>3, <1>4, <1>1, <1>2

LEMMA FlowReplaceHolds ==
    ASSUME NEW e, FlowHeld(e), NEW d, IsWorkflow(d)
    PROVE  FlowHeld(workflowReplace(e, d)) /\ FlowThere(workflowReplace(e, d)) /\ workflowReplace(e, d).def = d
<1>1. PICK r : r = workflowReplace(e, d)
  OBVIOUS
<1>2. e.sel = Settings \/ e.sel \in FlowPlaces
  BY DEF FlowHeld
<1>3. DOMAIN r = {"def", "sel", "dirty"} /\ r.def = d /\ r.sel = validSelection(d, e.sel)
  BY <1>1 DEF workflowReplace, Change
<1>4. validSelection(d, e.sel) \in {e.sel, Settings} /\ There(validSelection(d, e.sel), d.states, d.transitions, d.fields)
  BY <1>2, ValidIsThere
<1> QED
  BY <1>1, <1>2, <1>3, <1>4 DEF FlowHeld, FlowThere, IsEditor

LEMMA FlowSelectHolds ==
    ASSUME NEW e, FlowHeld(e), NEW s, s = Settings \/ s \in FlowPlaces
    PROVE  FlowHeld(workflowSelect(e, s)) /\ FlowThere(workflowSelect(e, s)) /\ workflowSelect(e, s).def = e.def
<1>1. PICK r : r = workflowSelect(e, s)
  OBVIOUS
<1>2. IsWorkflow(e.def) /\ DOMAIN e = {"def", "sel", "dirty"}
  BY DEF FlowHeld, IsEditor
<1>3. DOMAIN r = {"def", "sel", "dirty"} /\ r.def = e.def /\ r.sel = validSelection(e.def, s)
  BY <1>1, <1>2 DEF workflowSelect
<1>4. validSelection(e.def, s) \in {s, Settings} /\ There(validSelection(e.def, s), e.def.states, e.def.transitions, e.def.fields)
  BY <1>2, ValidIsThere
<1> QED
  BY <1>1, <1>2, <1>3, <1>4 DEF FlowHeld, FlowThere, IsEditor

-----------------------------------------------------------------------------
(* What renaming and deleting a field mean for the conditions of a form. *)

LEMMA ControllerIs ==
    ASSUME NEW fields, NEW a, NEW b
    PROVE  <<a, b>> \in Controllers(fields) <=>
            /\ a \in DOMAIN fields /\ b \in DOMAIN fields /\ fields[a].showIf.op # "no"
            /\ fields[b].key = fields[a].showIf.field
BY DEF Controllers

LEMMA ControllersArePairs ==
    ASSUME NEW fields, NEW c \in Controllers(fields)
    PROVE  c = <<c[1], c[2]>>
BY DEF Controllers

LEMMA FormRenameMeans ==
    ASSUME NEW e, FormHeld(e), NEW i \in DOMAIN e.def.fields, NEW k \in Nat, k \notin KeysOf(e.def.fields),
           \A j \in DOMAIN e.def.fields : e.def.fields[j].showIf.field # k
    PROVE  Controllers(formRenameField(e, i, k).def.fields)
           = {c \in Controllers(e.def.fields) :
                c[2] = i => c[1] # i /\ Count(e.def.fields, e.def.fields[i].key) = 1}
<1>1. PICK fields \in Seq(FormFields) : fields = e.def.fields
  BY FormListIs
<1>2. PICK old : old = fields[i].key
  OBVIOUS
<1>3. PICK new : RenamedTo(new, fields, i, k) /\ formRenameField(e, i, k) = withFields(e, new, e.sel)
  BY <1>1, RenamedFields
<1>4. /\ new \in Seq(FormFields) /\ DOMAIN new = DOMAIN fields
      /\ \A j \in DOMAIN fields :
            /\ new[j].key = IF j = i THEN k ELSE fields[j].key
            /\ new[j].showIf.op = fields[j].showIf.op
            /\ new[j].showIf.field =
                    IF j # i /\ Follows(fields, old) /\ fields[j].showIf.op # "no" /\ fields[j].showIf.field = old
                    THEN k ELSE fields[j].showIf.field
  BY <1>2, <1>3 DEF RenamedTo
<1>5. formRenameField(e, i, k).def.fields = new
  BY <1>3, <1>4, WithFieldsIs
<1>6. Follows(fields, old) <=> \A j \in DOMAIN fields : fields[j].key = old => j = i
  BY <1>1, <1>2, CountIs
<1>7. \A j \in DOMAIN fields : fields[j].key # k /\ fields[j].showIf.field # k
  BY <1>1 DEF KeysOf
<1>8. ASSUME NEW a, NEW b
      PROVE  <<a, b>> \in Controllers(new) <=>
                <<a, b>> \in Controllers(fields) /\ (b = i => a # i /\ Follows(fields, old))
  <2>1. <<a, b>> \in Controllers(new) <=>
            /\ a \in DOMAIN fields /\ b \in DOMAIN fields /\ fields[a].showIf.op # "no"
            /\ new[b].key = new[a].showIf.field
    BY <1>4, ControllerIs
  <2>2. <<a, b>> \in Controllers(fields) <=>
            /\ a \in DOMAIN fields /\ b \in DOMAIN fields /\ fields[a].showIf.op # "no"
            /\ fields[b].key = fields[a].showIf.field
    BY ControllerIs
  <2>3. ASSUME a \in DOMAIN fields, b \in DOMAIN fields, fields[a].showIf.op # "no"
        PROVE  new[b].key = new[a].showIf.field <=>
                    fields[b].key = fields[a].showIf.field /\ (b = i => a # i /\ Follows(fields, old))
    <3>1. CASE b = i
      BY <1>2, <1>4, <1>7, <2>3, <3>1
    <3>2. CASE b # i
      <4>1. new[b].key = fields[b].key /\ fields[b].key # k
        BY <1>4, <1>7, <2>3, <3>2
      <4>2. CASE a # i /\ Follows(fields, old) /\ fields[a].showIf.field = old
        BY <1>4, <1>6, <2>3, <3>2, <4>1, <4>2
      <4>3. CASE ~(a # i /\ Follows(fields, old) /\ fields[a].showIf.field = old)
        BY <1>4, <2>3, <3>2, <4>1, <4>3
      <4> QED
        BY <4>2, <4>3
    <3> QED
      BY <3>1, <3>2
  <2> QED
    BY <2>1, <2>2, <2>3
<1>9. PICK R : R = {c \in Controllers(fields) : c[2] = i => c[1] # i /\ Follows(fields, old)}
  OBVIOUS
<1>10. \A c \in Controllers(new) : c \in R
  <2> SUFFICES ASSUME NEW c \in Controllers(new) PROVE c \in R
    OBVIOUS
  <2>1. PICK a, b : c = <<a, b>> /\ a = c[1] /\ b = c[2]
    BY ControllersArePairs
  <2> QED
    BY <1>8, <1>9, <2>1
<1>11. \A c \in R : c \in Controllers(new)
  <2> SUFFICES ASSUME NEW c \in R PROVE c \in Controllers(new)
    OBVIOUS
  <2>0. c \in Controllers(fields)
    BY <1>9
  <2>1. PICK a, b : c = <<a, b>> /\ a = c[1] /\ b = c[2]
    BY <2>0, ControllersArePairs
  <2> QED
    BY <1>8, <1>9, <2>1
<1>12. Controllers(new) = R
  BY <1>10, <1>11
<1> QED
  BY <1>1, <1>2, <1>5, <1>9, <1>12 DEF Follows

(* Where the entry at j comes to be when the one at i is gone. *)
Down(j, i) == IF j > i THEN j - 1 ELSE j

LEMMA UpAndDown ==
    ASSUME NEW n \in Nat, NEW i \in 1..(n + 1)
    PROVE  /\ \A j \in 1..n : Up(j, i) \in 1..(n + 1) /\ Up(j, i) # i /\ Down(Up(j, i), i) = j
           /\ \A g \in 1..(n + 1) : g # i => Down(g, i) \in 1..n /\ Up(Down(g, i), i) = g
BY DEF Up, Down

LEMMA FormRemovalMeans ==
    ASSUME NEW e, FormHeld(e), NEW i \in DOMAIN e.def.fields
    PROVE  Controllers(formRemoveField(e, i).def.fields)
           = {<<Down(c[1], i), Down(c[2], i)>> : c \in {d \in Controllers(e.def.fields) : i \notin {d[1], d[2]}}}
<1>1. PICK fields \in Seq(FormFields) : fields = e.def.fields
  BY FormListIs
<1>2. PICK old : old = fields[i].key
  OBVIOUS
<1>3. PICK new, rest, n : /\ RemovedTo(new, rest, fields, i, n)
                          /\ formRemoveField(e, i) = withFields(e, new, SelectedAfter(e.sel, i, n - 1))
  BY <1>1, FieldsRemoved
<1>4. PICK m \in Nat : m = n - 1 /\ n = m + 1
  BY <1>3 DEF RemovedTo
<1>5. /\ new \in Seq(FormFields) /\ rest \in Seq(FormFields)
      /\ DOMAIN fields = 1..(m + 1) /\ i \in 1..(m + 1) /\ DOMAIN new = 1..m /\ DOMAIN rest = 1..m
      /\ \A j \in 1..m :
            /\ Up(j, i) \in 1..(m + 1) /\ rest[j] = fields[Up(j, i)]
            /\ new[j] = IF Count(rest, old) = 0 /\ fields[Up(j, i)].showIf.op # "no" /\ fields[Up(j, i)].showIf.field = old
                        THEN [fields[Up(j, i)] EXCEPT !.showIf = NoCondition] ELSE fields[Up(j, i)]
  BY <1>1, <1>2, <1>3, <1>4 DEF RemovedTo
<1>6. formRemoveField(e, i).def.fields = new
  BY <1>3, <1>5, WithFieldsIs
<1>7. Count(rest, old) = 0 <=> \A h \in 1..m : rest[h].key # old
  BY <1>5, CountIs
<1>8. /\ \A j \in 1..m : Up(j, i) \in 1..(m + 1) /\ Up(j, i) # i /\ Down(Up(j, i), i) = j
      /\ \A g \in 1..(m + 1) : g # i => Down(g, i) \in 1..m /\ Up(Down(g, i), i) = g
  BY <1>5, UpAndDown
<1>9. ASSUME NEW a \in 1..m
      PROVE  LET f == fields[Up(a, i)]
             IN  /\ new[a].key = f.key
                 /\ new[a].showIf = IF Count(rest, old) = 0 /\ f.showIf.op # "no" /\ f.showIf.field = old
                                    THEN NoCondition ELSE f.showIf
  <2>1. PICK f \in FormFields : f = fields[Up(a, i)]
    BY <1>1, <1>5, FormListIs
  <2>2. [f EXCEPT !.showIf = NoCondition].key = f.key /\ [f EXCEPT !.showIf = NoCondition].showIf = NoCondition
    BY DEF FormFields
  <2> QED
    BY <1>5, <2>1, <2>2
<1>10. ASSUME NEW a \in 1..m, NEW b \in 1..m
       PROVE  <<a, b>> \in Controllers(new) <=> <<Up(a, i), Up(b, i)>> \in Controllers(fields)
  <2>1. PICK f : f = fields[Up(a, i)]
    OBVIOUS
  <2>2. <<Up(a, i), Up(b, i)>> \in Controllers(fields) <=>
            f.showIf.op # "no" /\ fields[Up(b, i)].key = f.showIf.field
    BY <1>5, <2>1, ControllerIs
  <2>3. <<a, b>> \in Controllers(new) <=> new[a].showIf.op # "no" /\ new[b].key = new[a].showIf.field
    <3>1. a \in DOMAIN new /\ b \in DOMAIN new
      BY <1>5
    <3> QED
      BY <3>1, ControllerIs
  <2>4. new[b].key = fields[Up(b, i)].key /\ fields[Up(b, i)] = rest[b]
    BY <1>5, <1>9
  <2>5. CASE Count(rest, old) = 0 /\ f.showIf.op # "no" /\ f.showIf.field = old
    <3>1. new[a].showIf = NoCondition
      BY <1>9, <2>1, <2>5
    <3>2. new[a].showIf.op = "no"
      BY <3>1 DEF NoCondition
    <3>3. fields[Up(b, i)].key # old
      BY <1>7, <2>4, <2>5
    <3> QED
      BY <2>2, <2>3, <2>5, <3>2, <3>3
  <2>6. CASE ~(Count(rest, old) = 0 /\ f.showIf.op # "no" /\ f.showIf.field = old)
    <3>1. new[a].showIf = f.showIf
      BY <1>9, <2>1, <2>6
    <3> QED
      BY <2>2, <2>3, <2>4, <3>1
  <2> QED
    BY <2>5, <2>6
<1>11. PICK D : D = {d \in Controllers(fields) : i \notin {d[1], d[2]}}
  OBVIOUS
<1>12. PICK R : R = {<<Down(c[1], i), Down(c[2], i)>> : c \in D}
  OBVIOUS
<1>13. \A c \in Controllers(new) : c \in R
  <2> SUFFICES ASSUME NEW c \in Controllers(new) PROVE c \in R
    OBVIOUS
  <2>0. PICK a, b : c = <<a, b>>
    BY ControllersArePairs
  <2>1. a \in 1..m /\ b \in 1..m /\ c = <<a, b>>
    BY <1>5, <2>0, ControllerIs
  <2>2. PICK x, y : x = Up(a, i) /\ y = Up(b, i)
    OBVIOUS
  <2>3. <<x, y>> \in Controllers(fields) /\ x # i /\ y # i /\ Down(x, i) = a /\ Down(y, i) = b
    BY <1>8, <1>10, <2>1, <2>2
  <2>4a. PICK d : d = <<x, y>>
    OBVIOUS
  <2>4. d[1] = x /\ d[2] = y
    BY <2>4a
  <2>5. d \in D
    BY <1>11, <2>3, <2>4, <2>4a
  <2> QED
    BY <1>12, <2>1, <2>3, <2>4, <2>5
<1>14. \A c \in R : c \in Controllers(new)
  <2> SUFFICES ASSUME NEW d \in D PROVE <<Down(d[1], i), Down(d[2], i)>> \in Controllers(new)
    BY <1>12
  <2>1. PICK x, y : d = <<x, y>> /\ d[1] = x /\ d[2] = y /\ <<x, y>> \in Controllers(fields) /\ x # i /\ y # i
    BY <1>11, ControllersArePairs
  <2>2. x \in 1..(m + 1) /\ y \in 1..(m + 1)
    BY <1>5, <2>1, ControllerIs
  <2>3. PICK a \in 1..m, b \in 1..m : a = Down(x, i) /\ b = Down(y, i) /\ Up(a, i) = x /\ Up(b, i) = y
    BY <1>8, <2>1, <2>2
  <2>4. <<a, b>> \in Controllers(new)
    BY <1>10, <2>1, <2>3
  <2> QED
    BY <2>1, <2>3, <2>4
<1>15. Controllers(new) = R
  BY <1>13, <1>14
<1> QED
  BY <1>1, <1>6, <1>11, <1>12, <1>15

-----------------------------------------------------------------------------
(* Positions, as keys are renamed and entries are taken out. *)

LEMMA PositionIs ==
    ASSUME NEW list
    PROVE  /\ \A k, j : j \in Positions(list, k) <=> j \in DOMAIN list /\ list[j].key = k
           /\ \A S, j : j \in At(list, S) <=> j \in DOMAIN list /\ list[j].key \in S
BY DEF Positions, At

LEMMA RenamedPositions ==
    ASSUME NEW T, NEW list \in Seq(T), NEW i \in DOMAIN list, NEW k, k \notin KeysOf(list),
           NEW new, OneRekeyed(new, list, i, k), Follows(list, list[i].key)
    PROVE  /\ \A x \in KeysOf(list) : Positions(new, Swap(x, list[i].key, k)) = Positions(list, x)
           /\ \A S \in SUBSET KeysOf(list) : At(new, SwapAll(S, list[i].key, k)) = At(list, S)
<1>1. PICK old : old = list[i].key
  OBVIOUS
<1>2. /\ DOMAIN new = DOMAIN list
      /\ \A j \in DOMAIN list : new[j].key = IF j = i THEN k ELSE list[j].key
  BY DEF OneRekeyed
<1>3. \A j \in DOMAIN list : list[j].key = old => j = i
  BY <1>1, CountIs
<1>4. \A j \in DOMAIN list : list[j].key # k
  BY DEF KeysOf
<1>5. ASSUME NEW x \in KeysOf(list), NEW j \in DOMAIN list
      PROVE  new[j].key = Swap(x, old, k) <=> list[j].key = x
  <2>1. x # k
    OBVIOUS
  <2>2. CASE x = old
    BY <1>1, <1>2, <1>3, <1>4, <2>2 DEF Swap
  <2>3. CASE x # old
    BY <1>1, <1>2, <2>1, <2>3 DEF Swap
  <2> QED
    BY <2>2, <2>3
<1>6. ASSUME NEW x \in KeysOf(list) PROVE Positions(new, Swap(x, old, k)) = Positions(list, x)
  <2>1. \A j : j \in Positions(new, Swap(x, old, k)) <=> j \in Positions(list, x)
    BY <1>2, <1>5, PositionIs
  <2> QED
    BY <2>1
<1>7. ASSUME NEW S \in SUBSET KeysOf(list) PROVE At(new, SwapAll(S, old, k)) = At(list, S)
  <2>1. ASSUME NEW j \in DOMAIN list PROVE new[j].key \in SwapAll(S, old, k) <=> list[j].key \in S
    <3>1. new[j].key \in SwapAll(S, old, k) <=> \E x \in S : new[j].key = Swap(x, old, k)
      BY DEF SwapAll
    <3> QED
      BY <1>5, <3>1
  <2>2. \A j : j \in At(new, SwapAll(S, old, k)) <=> j \in At(list, S)
    BY <1>2, <2>1, PositionIs
  <2> QED
    BY <2>2
<1> QED
  BY <1>1, <1>6, <1>7

LEMMA SharedPositions ==
    ASSUME NEW list, NEW i \in DOMAIN list, NEW k, NEW new, OneRekeyed(new, list, i, k)
    PROVE  /\ \A x : x # k => Positions(new, x) = Positions(list, x) \ {i}
           /\ \A S : k \notin S => At(new, S) = At(list, S) \ {i}
<1>1. /\ DOMAIN new = DOMAIN list
      /\ \A j \in DOMAIN list : new[j].key = IF j = i THEN k ELSE list[j].key
  BY DEF OneRekeyed
<1>2. ASSUME NEW x, x # k PROVE Positions(new, x) = Positions(list, x) \ {i}
  <2>1. \A j : j \in Positions(new, x) <=> j \in Positions(list, x) /\ j # i
    BY <1>1, <1>2, PositionIs
  <2> QED
    BY <2>1
<1>3. ASSUME NEW S, k \notin S PROVE At(new, S) = At(list, S) \ {i}
  <2>1. \A j : j \in At(new, S) <=> j \in At(list, S) /\ j # i
    BY <1>1, <1>3, PositionIs
  <2> QED
    BY <2>1
<1> QED
  BY <1>2, <1>3

LEMMA ShiftIs ==
    ASSUME NEW n \in Nat, NEW i \in 1..(n + 1), NEW S \in SUBSET (1..(n + 1))
    PROVE  \A j : j \in Shift(S, i) <=> j \in 1..n /\ Up(j, i) \in S
<1>1. Shift(S, i) = {Down(j, i) : j \in S \ {i}}
  BY DEF Shift, Without, Down
<1>2. /\ \A j \in 1..n : Up(j, i) \in 1..(n + 1) /\ Up(j, i) # i /\ Down(Up(j, i), i) = j
      /\ \A g \in 1..(n + 1) : g # i => Down(g, i) \in 1..n /\ Up(Down(g, i), i) = g
  BY UpAndDown
<1>3. ASSUME NEW j \in Shift(S, i) PROVE j \in 1..n /\ Up(j, i) \in S
  <2>1. PICK g \in S \ {i} : j = Down(g, i)
    BY <1>1, <1>3
  <2> QED
    BY <1>2, <2>1
<1>4. ASSUME NEW j \in 1..n, Up(j, i) \in S PROVE j \in Shift(S, i)
  <2>1. Up(j, i) \in S \ {i} /\ j = Down(Up(j, i), i)
    BY <1>2, <1>4
  <2> QED
    BY <1>1, <2>1
<1> QED
  BY <1>3, <1>4

LEMMA RemovedPositions ==
    ASSUME NEW list, NEW i, NEW rest, NEW n, TakenOut(rest, list, i, n)
    PROVE  /\ \A x : Positions(rest, x) = Shift(Positions(list, x), i)
           /\ \A S : At(rest, S) = Shift(At(list, S), i)
<1>1. /\ n \in Nat /\ i \in 1..(n + 1) /\ DOMAIN rest = 1..n /\ DOMAIN list = 1..(n + 1)
      /\ \A j \in 1..n : rest[j] = list[Up(j, i)] /\ Up(j, i) \in DOMAIN list
  BY DEF TakenOut
<1>2. ASSUME NEW x PROVE Positions(rest, x) = Shift(Positions(list, x), i)
  <2>1. PICK P \in SUBSET (1..(n + 1)) : P = Positions(list, x)
    BY <1>1, PositionIs
  <2>2. \A j : j \in Shift(P, i) <=> j \in 1..n /\ Up(j, i) \in P
    BY <1>1, ShiftIs
  <2>3. \A j : j \in Positions(rest, x) <=> j \in 1..n /\ Up(j, i) \in P
    BY <1>1, <2>1, PositionIs
  <2>4. \A j : j \in Positions(rest, x) <=> j \in Shift(P, i)
    BY <2>2, <2>3
  <2> QED
    BY <2>1, <2>4
<1>3. ASSUME NEW S PROVE At(rest, S) = Shift(At(list, S), i)
  <2>1. PICK P \in SUBSET (1..(n + 1)) : P = At(list, S)
    BY <1>1, PositionIs
  <2>2. \A j : j \in Shift(P, i) <=> j \in 1..n /\ Up(j, i) \in P
    BY <1>1, ShiftIs
  <2>3. \A j : j \in At(rest, S) <=> j \in 1..n /\ Up(j, i) \in P
    BY <1>1, <2>1, PositionIs
  <2>4. \A j : j \in At(rest, S) <=> j \in Shift(P, i)
    BY <2>2, <2>3
  <2> QED
    BY <2>1, <2>4
<1> QED
  BY <1>2, <1>3

-----------------------------------------------------------------------------
(* The diagram of a workflow. *)

EdgeOf(states, fields, t) ==
    [from |-> At(states, t.from), to |-> Positions(states, t.to), needs |-> At(fields, t.needs)]

LEMMA EdgesAre ==
    ASSUME NEW d
    PROVE  \A e : e \in Edges(d) <=> \E j \in DOMAIN d.transitions : e = EdgeOf(d.states, d.fields, d.transitions[j])
BY DEF Edges, EdgeOf

-----------------------------------------------------------------------------
(* What renaming means for the diagram: every edge keeps its ends, but for *)
(* those of a state whose name another has.                                *)

(* What stays of the positions S of the keys when the i-th entry's key is  *)
(* another: all of them, if the references followed.                       *)
Stay(list, i, S) == IF Count(list, list[i].key) = 1 THEN S ELSE Without(S, i)

(* Every transition of one workflow is drawn as g of the other's. *)
Mapped(d, new, g) ==
    /\ DOMAIN new.transitions = DOMAIN d.transitions
    /\ \A j \in DOMAIN d.transitions :
        EdgeOf(new.states, new.fields, new.transitions[j]) = g[EdgeOf(d.states, d.fields, d.transitions[j])]

LEMMA MappedEdges ==
    ASSUME NEW d, NEW new, NEW g, Mapped(d, new, g)
    PROVE  Edges(new) = {g[x] : x \in Edges(d)}
<1>1. ASSUME NEW y \in Edges(new) PROVE y \in {g[x] : x \in Edges(d)}
  <2>1. PICK j \in DOMAIN new.transitions : y = EdgeOf(new.states, new.fields, new.transitions[j])
    BY EdgesAre
  <2>2. PICK x : x = EdgeOf(d.states, d.fields, d.transitions[j])
    OBVIOUS
  <2>3. x \in Edges(d) /\ y = g[x]
    BY <2>1, <2>2, EdgesAre DEF Mapped
  <2> QED
    BY <2>3
<1>2. ASSUME NEW x \in Edges(d) PROVE g[x] \in Edges(new)
  <2>1. PICK j \in DOMAIN d.transitions : x = EdgeOf(d.states, d.fields, d.transitions[j])
    BY EdgesAre
  <2>2. g[x] = EdgeOf(new.states, new.fields, new.transitions[j])
    BY <2>1 DEF Mapped
  <2> QED
    BY <2>1, <2>2, EdgesAre DEF Mapped
<1> QED
  BY <1>1, <1>2

Ends(x, from, to) == [x EXCEPT !.from = from, !.to = to]
Needing(x, needs) == [x EXCEPT !.needs = needs]
Edge(from, to, needs) == [from |-> from, to |-> to, needs |-> needs]

LEMMA EdgeMoved ==
    ASSUME NEW a, NEW b, NEW c
    PROVE  /\ \A from, to : Ends(Edge(a, b, c), from, to) = Edge(from, to, c)
           /\ \A needs : Needing(Edge(a, b, c), needs) = Edge(a, b, needs)
           /\ Edge(a, b, c).from = a /\ Edge(a, b, c).to = b /\ Edge(a, b, c).needs = c
<1>1. PICK x : x = Edge(a, b, c)
  OBVIOUS
<1>2. x.from = a /\ x.to = b /\ x.needs = c
  BY <1>1 DEF Edge
<1>3. ASSUME NEW from, NEW to PROVE Ends(x, from, to) = Edge(from, to, c)
  <2>1. PICK y : y = [x EXCEPT !.from = from]
    OBVIOUS
  <2>2. y = Edge(from, b, c)
    BY <1>1, <2>1 DEF Edge
  <2>3. [y EXCEPT !.to = to] = Edge(from, to, c)
    BY <2>2 DEF Edge
  <2>4. [x EXCEPT !.from = from, !.to = to] = [y EXCEPT !.to = to]
    BY <2>1
  <2> QED
    BY <2>3, <2>4 DEF Ends
<1>4. ASSUME NEW needs PROVE Needing(x, needs) = Edge(a, b, needs)
  BY <1>1 DEF Edge, Needing
<1> QED
  BY <1>1, <1>2, <1>3, <1>4

LEMMA RenameStateMeans ==
    ASSUME NEW e, FlowHeld(e), FlowRefs(e.def), NEW i \in DOMAIN e.def.states, NEW k \in Nat,
           k \notin KeysOf(e.def.states), NEW new, new = renameState(e, i, k).def
    PROVE  /\ Edges(new) = {Ends(x, Stay(e.def.states, i, x.from), Stay(e.def.states, i, x.to)) :
                                x \in Edges(e.def)}
           /\ Positions(new.states, new.initial) = Stay(e.def.states, i, Positions(e.def.states, e.def.initial))
<1>1. PICK states \in Seq(States), transitions \in Seq(Transitions), fields \in Seq(WorkflowFields) :
            Parts(e, states, transitions, fields)
  BY PartsAre DEF Parts
<1>2. states = e.def.states /\ transitions = e.def.transitions /\ fields = e.def.fields /\ i \in DOMAIN states
  BY <1>1 DEF Parts
<1>3. PICK old \in Nat : old = states[i].key
  <2>1. states[i] \in States
    BY <1>2, ElementOfSeq, LenProperties
  <2> QED
    BY <2>1 DEF States
<1>4. PICK list : list = Rekeyed(states, i, k) /\ OneRekeyed(list, states, i, k)
  BY <1>2, RekeyedStates
<1>5. PICK initial : initial = e.def.initial
  OBVIOUS
<1>6. PICK ts : ts = IF Follows(states, old) THEN SwapStates(transitions, old, k) ELSE transitions
  OBVIOUS
<1>7. PICK first : first = IF Follows(states, old) THEN Swap(initial, old, k) ELSE initial
  OBVIOUS
<1>8. new.states = list /\ new.transitions = ts /\ new.fields = fields /\ new.initial = first
  <2>1. renameState(e, i, k) = Change(e, Flow(e.def.slug, e.def.title, first, list, ts, fields, e.def.onSubmit), e.sel)
    BY <1>2, <1>3, <1>4, <1>5, <1>6, <1>7, RenameStateIs
  <2>2. new = Flow(e.def.slug, e.def.title, first, list, ts, fields, e.def.onSubmit)
    BY <2>1 DEF Change
  <2> QED
    BY <2>2, FlowIs
<1>9. /\ initial \in KeysOf(states)
      /\ \A j \in DOMAIN transitions : /\ transitions[j].from \in SUBSET KeysOf(states)
                                       /\ transitions[j].to \in KeysOf(states)
  <2>1. states # << >>
    BY <1>2
  <2> QED
    BY <1>2, <1>5, <2>1 DEF FlowRefs, Refs
<1>10. k \notin KeysOf(states)
  BY <1>2
<1>11. ASSUME NEW j \in DOMAIN transitions
       PROVE  /\ j \in DOMAIN ts /\ ts[j].needs = transitions[j].needs
              /\ At(list, ts[j].from) = Stay(states, i, At(states, transitions[j].from))
              /\ Positions(list, ts[j].to) = Stay(states, i, Positions(states, transitions[j].to))
  <2>1. CASE Follows(states, old)
    <3>1. StatesSwapped(ts, transitions, old, k)
      BY <1>6, <2>1, SwapStatesAre
    <3>2. /\ ts[j].from = SwapAll(transitions[j].from, old, k) /\ ts[j].to = Swap(transitions[j].to, old, k)
          /\ ts[j].needs = transitions[j].needs /\ j \in DOMAIN ts
      BY <3>1 DEF StatesSwapped, Changed
    <3>3. /\ \A x \in KeysOf(states) : Positions(list, Swap(x, old, k)) = Positions(states, x)
          /\ \A S \in SUBSET KeysOf(states) : At(list, SwapAll(S, old, k)) = At(states, S)
      BY <1>2, <1>3, <1>4, <1>10, <2>1, RenamedPositions
    <3>4. \A S : Stay(states, i, S) = S
      BY <1>3, <2>1 DEF Stay, Follows
    <3> QED
      BY <1>9, <3>2, <3>3, <3>4
  <2>2. CASE ~Follows(states, old)
    <3>1. ts = transitions
      BY <1>6, <2>2
    <3>2. /\ \A x : x # k => Positions(list, x) = Positions(states, x) \ {i}
          /\ \A S : k \notin S => At(list, S) = At(states, S) \ {i}
      BY <1>2, <1>4, SharedPositions
    <3>3. \A S : Stay(states, i, S) = S \ {i}
      BY <1>3, <2>2 DEF Stay, Follows, Without
    <3> QED
      BY <1>9, <1>10, <3>1, <3>2, <3>3
  <2> QED
    BY <2>1, <2>2
<1>12. Positions(list, first) = Stay(states, i, Positions(states, initial))
  <2>1. CASE Follows(states, old)
    <3>1. first = Swap(initial, old, k)
      BY <1>7, <2>1
    <3>2. \A x \in KeysOf(states) : Positions(list, Swap(x, old, k)) = Positions(states, x)
      BY <1>2, <1>3, <1>4, <1>10, <2>1, RenamedPositions
    <3>3. \A S : Stay(states, i, S) = S
      BY <1>3, <2>1 DEF Stay, Follows
    <3> QED
      BY <1>9, <3>1, <3>2, <3>3
  <2>2. CASE ~Follows(states, old)
    <3>1. first = initial
      BY <1>7, <2>2
    <3>2. \A x : x # k => Positions(list, x) = Positions(states, x) \ {i}
      BY <1>2, <1>4, SharedPositions
    <3>3. \A S : Stay(states, i, S) = S \ {i}
      BY <1>3, <2>2 DEF Stay, Follows, Without
    <3> QED
      BY <1>9, <1>10, <3>1, <3>2, <3>3
  <2> QED
    BY <2>1, <2>2
<1>13. DOMAIN ts = DOMAIN transitions
  BY <1>6, SwapStatesAre DEF StatesSwapped, Changed
<1>14. PICK g : g = [x \in Edges(e.def) |->
                        Ends(x, Stay(states, i, x.from), Stay(states, i, x.to))]
  OBVIOUS
<1>15. ASSUME NEW j \in DOMAIN transitions
       PROVE  EdgeOf(list, fields, ts[j]) = g[EdgeOf(states, fields, transitions[j])]
  <2>1. PICK a, b, c : a = At(states, transitions[j].from) /\ b = Positions(states, transitions[j].to)
                       /\ c = At(fields, transitions[j].needs)
    OBVIOUS
  <2>2. PICK x : x = EdgeOf(states, fields, transitions[j])
    OBVIOUS
  <2>3. x = Edge(a, b, c) /\ x.from = a /\ x.to = b
    BY <2>1, <2>2, EdgeMoved DEF EdgeOf, Edge
  <2>4. x \in Edges(e.def)
    BY <1>2, <2>2, EdgesAre
  <2>5. g[x] = Edge(Stay(states, i, a), Stay(states, i, b), c)
    BY <1>14, <2>3, <2>4, EdgeMoved
  <2>6. EdgeOf(list, fields, ts[j]) = Edge(Stay(states, i, a), Stay(states, i, b), c)
    BY <1>11, <2>1 DEF EdgeOf, Edge
  <2> QED
    BY <2>2, <2>5, <2>6
<1>16. Edges(new) = {g[x] : x \in Edges(e.def)}
  <2>1. DOMAIN new.transitions = DOMAIN e.def.transitions
    BY <1>2, <1>8, <1>13
  <2>2. \A j \in DOMAIN e.def.transitions :
            EdgeOf(new.states, new.fields, new.transitions[j])
            = g[EdgeOf(e.def.states, e.def.fields, e.def.transitions[j])]
    BY <1>2, <1>8, <1>15
  <2>3. Mapped(e.def, new, g)
    BY <2>1, <2>2 DEF Mapped
  <2> QED
    BY <2>3, MappedEdges
<1>17. {g[x] : x \in Edges(e.def)}
       = {Ends(x, Stay(states, i, x.from), Stay(states, i, x.to)) : x \in Edges(e.def)}
  BY <1>14
<1> QED
  BY <1>2, <1>5, <1>8, <1>12, <1>16, <1>17

LEMMA RenameFlowFieldMeans ==
    ASSUME NEW e, FlowHeld(e), FlowRefs(e.def), NEW i \in DOMAIN e.def.fields, NEW k \in Nat,
           k \notin KeysOf(e.def.fields), NEW new, new = renameField(e, i, k).def
    PROVE  Edges(new) = {Needing(x, Stay(e.def.fields, i, x.needs)) : x \in Edges(e.def)}
<1>1. PICK states \in Seq(States), transitions \in Seq(Transitions), fields \in Seq(WorkflowFields) :
            Parts(e, states, transitions, fields)
  BY PartsAre DEF Parts
<1>2. states = e.def.states /\ transitions = e.def.transitions /\ fields = e.def.fields /\ i \in DOMAIN fields
  BY <1>1 DEF Parts
<1>3. PICK old \in Nat : old = fields[i].key
  <2>1. fields[i] \in WorkflowFields
    BY <1>2, ElementOfSeq, LenProperties
  <2> QED
    BY <2>1 DEF WorkflowFields
<1>4. PICK list : list = Rekeyed(fields, i, k) /\ OneRekeyed(list, fields, i, k)
  BY <1>2, RekeyedFields
<1>6. PICK ts : ts = IF Follows(fields, old) THEN SwapNeeds(transitions, old, k) ELSE transitions
  OBVIOUS
<1>8. new.states = states /\ new.transitions = ts /\ new.fields = list
  <2>1. renameField(e, i, k) = Change(e, Flow(e.def.slug, e.def.title, e.def.initial, states, ts, list, e.def.onSubmit), e.sel)
    BY <1>2, <1>3, <1>4, <1>6, RenameFlowFieldIs
  <2>2. new = Flow(e.def.slug, e.def.title, e.def.initial, states, ts, list, e.def.onSubmit)
    BY <2>1 DEF Change
  <2> QED
    BY <2>2, FlowIs
<1>9. \A j \in DOMAIN transitions : transitions[j].needs \in SUBSET KeysOf(fields)
  BY <1>2 DEF FlowRefs, Refs
<1>10. k \notin KeysOf(fields)
  BY <1>2
<1>11. ASSUME NEW j \in DOMAIN transitions
       PROVE  /\ ts[j].from = transitions[j].from /\ ts[j].to = transitions[j].to
              /\ At(list, ts[j].needs) = Stay(fields, i, At(fields, transitions[j].needs))
  <2>1. CASE Follows(fields, old)
    <3>1. NeedsSwapped(ts, transitions, old, k)
      BY <1>6, <2>1, SwapNeedsAre
    <3>2. /\ ts[j].needs = SwapAll(transitions[j].needs, old, k) /\ ts[j].to = transitions[j].to
          /\ ts[j].from = transitions[j].from
      BY <3>1 DEF NeedsSwapped
    <3>3. \A S \in SUBSET KeysOf(fields) : At(list, SwapAll(S, old, k)) = At(fields, S)
      BY <1>2, <1>3, <1>4, <1>10, <2>1, RenamedPositions
    <3>4. \A S : Stay(fields, i, S) = S
      BY <1>3, <2>1 DEF Stay, Follows
    <3> QED
      BY <1>9, <3>2, <3>3, <3>4
  <2>2. CASE ~Follows(fields, old)
    <3>1. ts = transitions
      BY <1>6, <2>2
    <3>2. \A S : k \notin S => At(list, S) = At(fields, S) \ {i}
      BY <1>2, <1>4, SharedPositions
    <3>3. \A S : Stay(fields, i, S) = S \ {i}
      BY <1>3, <2>2 DEF Stay, Follows, Without
    <3> QED
      BY <1>9, <1>10, <3>1, <3>2, <3>3
  <2> QED
    BY <2>1, <2>2
<1>13. DOMAIN ts = DOMAIN transitions
  BY <1>6, SwapNeedsAre DEF NeedsSwapped, Changed
<1>14. PICK g : g = [x \in Edges(e.def) |-> Needing(x, Stay(fields, i, x.needs))]
  OBVIOUS
<1>15. ASSUME NEW j \in DOMAIN transitions
       PROVE  EdgeOf(states, list, ts[j]) = g[EdgeOf(states, fields, transitions[j])]
  <2>1. PICK a, b, c : a = At(states, transitions[j].from) /\ b = Positions(states, transitions[j].to)
                       /\ c = At(fields, transitions[j].needs)
    OBVIOUS
  <2>2. PICK x : x = EdgeOf(states, fields, transitions[j])
    OBVIOUS
  <2>3. x = Edge(a, b, c) /\ x.needs = c
    BY <2>1, <2>2, EdgeMoved DEF EdgeOf, Edge
  <2>4. x \in Edges(e.def)
    BY <1>2, <2>2, EdgesAre
  <2>5. g[x] = Edge(a, b, Stay(fields, i, c))
    BY <1>14, <2>3, <2>4, EdgeMoved
  <2>6. EdgeOf(states, list, ts[j]) = Edge(a, b, Stay(fields, i, c))
    BY <1>11, <2>1 DEF EdgeOf, Edge
  <2> QED
    BY <2>2, <2>5, <2>6
<1>16. Edges(new) = {g[x] : x \in Edges(e.def)}
  <2>1. DOMAIN new.transitions = DOMAIN e.def.transitions
    BY <1>2, <1>8, <1>13
  <2>2. \A j \in DOMAIN e.def.transitions :
            EdgeOf(new.states, new.fields, new.transitions[j])
            = g[EdgeOf(e.def.states, e.def.fields, e.def.transitions[j])]
    BY <1>2, <1>8, <1>15
  <2>3. Mapped(e.def, new, g)
    BY <2>1, <2>2 DEF Mapped
  <2> QED
    BY <2>3, MappedEdges
<1>17. {g[x] : x \in Edges(e.def)} = {Needing(x, Stay(fields, i, x.needs)) : x \in Edges(e.def)}
  BY <1>14
<1> QED
  BY <1>2, <1>16, <1>17

-----------------------------------------------------------------------------
(* What removing means for it: if no other state has its key, the edges    *)
(* with a source and a target left stay, else all do.                      *)

LEMMA KnownPositions ==
    ASSUME NEW list
    PROVE  /\ \A k : Positions(list, k) # {} <=> k \in KeysOf(list)
           /\ \A S : At(list, S) # {} <=> S \cap KeysOf(list) # {}
           /\ \A S, k : k \notin KeysOf(list) => At(list, S \ {k}) = At(list, S)
<1>1. \A k : Positions(list, k) # {} <=> k \in KeysOf(list)
  BY DEF Positions, KeysOf
<1>2. ASSUME NEW S PROVE At(list, S) # {} <=> S \cap KeysOf(list) # {}
  BY DEF At, Positions, KeysOf
<1>3. ASSUME NEW S, NEW k, k \notin KeysOf(list) PROVE At(list, S \ {k}) = At(list, S)
  <2>1. \A j \in DOMAIN list : list[j].key # k
    BY <1>3 DEF KeysOf
  <2>2. \A j : j \in At(list, S \ {k}) <=> j \in At(list, S)
    BY <2>1, PositionIs
  <2> QED
    BY <2>2
<1> QED
  BY <1>1, <1>2, <1>3

LEMMA SomeShifted == \A S, i : Shift(S, i) # {} <=> Without(S, i) # {}
BY DEF Shift

(* The transitions that are left when the i-th state is gone: all if it    *)
(* shares its key, else those that still have a source and a target.       *)
Remains(d, i, rest, h) ==
    \/ ~Follows(d.states, d.states[i].key)
    \/ At(rest, d.transitions[h].from) # {} /\ Positions(rest, d.transitions[h].to) # {}

IsLeft(d, i, rest, y) ==
    \E h \in DOMAIN d.transitions : y = EdgeOf(rest, d.fields, d.transitions[h]) /\ Remains(d, i, rest, h)

LEMMA LeftEdges ==
    ASSUME NEW e, FlowHeld(e), FlowRefs(e.def), NEW i \in DOMAIN e.def.states,
           NEW new, new = removeState(e, i).def, NEW rest, rest = RemoveAt(e.def.states, i)
    PROVE  \A y : y \in Edges(new) <=> IsLeft(e.def, i, rest, y)
<1>1. PICK states \in Seq(States), transitions \in Seq(Transitions), fields \in Seq(WorkflowFields) :
            Parts(e, states, transitions, fields)
  BY PartsAre DEF Parts
<1>2. states = e.def.states /\ transitions = e.def.transitions /\ fields = e.def.fields /\ i \in DOMAIN states
  BY <1>1 DEF Parts
<1>3. PICK old \in Nat : old = states[i].key
  <2>1. states[i] \in States
    BY <1>2, ElementOfSeq, LenProperties
  <2> QED
    BY <2>1 DEF States
<1>4. rest \in Seq(States) /\ \E n : TakenOut(rest, states, i, n)
  BY <1>2, RemoveAtTakes
<1>5. /\ (Count(rest, old) > 0) <=> ~Follows(states, old)
      /\ Follows(states, old) => KeysOf(rest) = KeysOf(states) \ {old}
      /\ ~Follows(states, old) => KeysOf(rest) = KeysOf(states)
  BY <1>2, <1>3, <1>4, RemovedKeys
<1>6. PICK initial : initial = IF ~(Count(rest, old) > 0) THEN Swap(e.def.initial, old, FirstKey(rest)) ELSE e.def.initial
  OBVIOUS
<1>7. PICK ts : ts = IF ~(Count(rest, old) > 0) THEN WithoutState(transitions, old) ELSE transitions
  OBVIOUS
<1>8. new.states = rest /\ new.transitions = ts /\ new.fields = fields
  <2>1. removeState(e, i) = Change(e, Flow(e.def.slug, e.def.title, initial, rest, ts, fields, e.def.onSubmit), Settings)
    BY <1>2, <1>3, <1>6, <1>7, RemoveStateIs
  <2>2. new = Flow(e.def.slug, e.def.title, initial, rest, ts, fields, e.def.onSubmit)
    BY <2>1 DEF Change
  <2> QED
    BY <2>2, FlowIs
<1>9. \A h \in DOMAIN transitions : /\ transitions[h].from \in SUBSET KeysOf(states)
                                    /\ transitions[h].to \in KeysOf(states)
  BY <1>2 DEF FlowRefs, Refs
<1>10. \A y : y \in Edges(new) <=> \E j \in DOMAIN ts : y = EdgeOf(rest, fields, ts[j])
  BY <1>8, EdgesAre
<1>11. CASE ~Follows(states, old)
  <2>1. ts = transitions
    BY <1>5, <1>7, <1>11
  <2>2. \A h : Remains(e.def, i, rest, h)
    BY <1>2, <1>3, <1>11 DEF Remains
  <2> QED
    BY <1>2, <1>10, <2>1, <2>2 DEF IsLeft
<1>12. CASE Follows(states, old)
  <2>1. ts = WithoutState(transitions, old) /\ KeysOf(rest) = KeysOf(states) \ {old}
    BY <1>5, <1>7, <1>12
  <2>2. PICK freed : freed = Freed(transitions, old) /\ SourcesFreed(freed, transitions, old)
    BY FreedAre
  <2>3. Range(ts) = {t \in Range(freed) : t.to # old /\ t.from # {}}
    BY <2>1, <2>2, WithoutStateIs
  <2>4. DOMAIN freed = DOMAIN transitions
    BY <2>2 DEF SourcesFreed, Changed
  <2>5. ASSUME NEW h \in DOMAIN transitions
        PROVE  /\ freed[h].from = transitions[h].from \ {old} /\ freed[h].to = transitions[h].to
               /\ EdgeOf(rest, fields, freed[h]) = EdgeOf(rest, fields, transitions[h])
               /\ At(rest, freed[h].from) # {} <=> freed[h].from # {}
               /\ At(rest, freed[h].from) # {} <=> At(rest, transitions[h].from) # {}
               /\ freed[h].to # old <=> Positions(rest, transitions[h].to) # {}
    <3>1. /\ freed[h].from = transitions[h].from \ {old} /\ freed[h].to = transitions[h].to
          /\ freed[h].needs = transitions[h].needs
      BY <2>2 DEF SourcesFreed, Changed
    <3>2. At(rest, transitions[h].from \ {old}) = At(rest, transitions[h].from)
      BY <2>1, KnownPositions
    <3>3. EdgeOf(rest, fields, freed[h]) = EdgeOf(rest, fields, transitions[h])
      BY <3>1, <3>2 DEF EdgeOf
    <3>4. At(rest, freed[h].from) # {} <=> freed[h].from \cap KeysOf(rest) # {}
      BY KnownPositions
    <3>5. freed[h].from \cap KeysOf(rest) = freed[h].from
      BY <1>9, <2>1, <3>1
    <3>6. freed[h].to # old <=> Positions(rest, transitions[h].to) # {}
      BY <1>9, <2>1, <3>1, KnownPositions
    <3> QED
      BY <3>1, <3>2, <3>3, <3>4, <3>5, <3>6
  <2>5a. \A h : Remains(e.def, i, rest, h) <=>
                    At(rest, transitions[h].from) # {} /\ Positions(rest, transitions[h].to) # {}
    BY <1>2, <1>3, <1>12 DEF Remains
  <2>6. ASSUME NEW y, NEW j \in DOMAIN ts, y = EdgeOf(rest, fields, ts[j])
        PROVE  \E h \in DOMAIN transitions : y = EdgeOf(rest, fields, transitions[h]) /\ Remains(e.def, i, rest, h)
    <3>1. ts[j] \in Range(freed) /\ ts[j].to # old /\ ts[j].from # {}
      BY <2>3 DEF Range
    <3>2. PICK h \in DOMAIN transitions : ts[j] = freed[h]
      BY <2>4, <3>1 DEF Range
    <3> QED
      BY <2>5, <2>5a, <2>6, <3>1, <3>2
  <2>7. ASSUME NEW y, NEW h \in DOMAIN transitions, y = EdgeOf(rest, fields, transitions[h]),
               Remains(e.def, i, rest, h)
        PROVE  \E j \in DOMAIN ts : y = EdgeOf(rest, fields, ts[j])
    <3>1. freed[h].to # old /\ freed[h].from # {}
      BY <2>5, <2>5a, <2>7
    <3>2. freed[h] \in Range(ts)
      BY <2>3, <2>4, <3>1 DEF Range
    <3>3. PICK j \in DOMAIN ts : ts[j] = freed[h]
      BY <3>2 DEF Range
    <3> QED
      BY <2>5, <2>7, <3>3
  <2> QED
    BY <1>2, <1>10, <2>6, <2>7 DEF IsLeft
<1> QED
  BY <1>11, <1>12

LEMMA RemoveStateMeans ==
    ASSUME NEW e, FlowHeld(e), FlowRefs(e.def), NEW i \in DOMAIN e.def.states
    PROVE  Edges(removeState(e, i).def)
           = {Ends(x, Shift(x.from, i), Shift(x.to, i)) :
                x \in {d \in Edges(e.def) : \/ Count(e.def.states, e.def.states[i].key) > 1
                                            \/ Without(d.from, i) # {} /\ Without(d.to, i) # {}}}
<1>1. PICK states \in Seq(States), transitions \in Seq(Transitions), fields \in Seq(WorkflowFields) :
            Parts(e, states, transitions, fields)
  BY PartsAre DEF Parts
<1>2. states = e.def.states /\ transitions = e.def.transitions /\ fields = e.def.fields /\ i \in DOMAIN states
  BY <1>1 DEF Parts
<1>3. PICK rest : rest = RemoveAt(states, i)
  OBVIOUS
<1>4. PICK n : TakenOut(rest, states, i, n)
  BY <1>2, <1>3, RemoveAtTakes
<1>5. /\ \A x : Positions(rest, x) = Shift(Positions(states, x), i)
      /\ \A S : At(rest, S) = Shift(At(states, S), i)
  BY <1>4, RemovedPositions
<1>6. PICK new : new = removeState(e, i).def
  OBVIOUS
<1>7. \A y : y \in Edges(new) <=>
                \E h \in DOMAIN transitions : y = EdgeOf(rest, fields, transitions[h]) /\ Remains(e.def, i, rest, h)
  <2>1. rest = RemoveAt(e.def.states, i)
    BY <1>2, <1>3
  <2>2. \A y : y \in Edges(new) <=> IsLeft(e.def, i, rest, y)
    BY <1>6, <2>1, LeftEdges
  <2> QED
    BY <1>2, <2>2 DEF IsLeft
<1>7a. Count(states, states[i].key) > 1 <=> ~Follows(states, states[i].key)
  <2>1. Count(states, states[i].key) \in Nat /\ Count(states, states[i].key) # 0
    BY <1>2, CountIs, CountNat
  <2> QED
    BY <2>1 DEF Follows
<1>8. PICK stay : stay = {d \in Edges(e.def) : \/ Count(e.def.states, e.def.states[i].key) > 1
                                               \/ Without(d.from, i) # {} /\ Without(d.to, i) # {}}
  OBVIOUS
<1>9. ASSUME NEW h \in DOMAIN transitions, NEW x, x = EdgeOf(states, fields, transitions[h])
      PROVE  /\ x \in Edges(e.def)
             /\ x \in stay <=> Remains(e.def, i, rest, h)
             /\ EdgeOf(rest, fields, transitions[h]) = Ends(x, Shift(x.from, i), Shift(x.to, i))
  <2>1. PICK a, b, c : a = At(states, transitions[h].from) /\ b = Positions(states, transitions[h].to)
                       /\ c = At(fields, transitions[h].needs)
    OBVIOUS
  <2>2. x = Edge(a, b, c) /\ x.from = a /\ x.to = b
    BY <1>9, <2>1, EdgeMoved DEF EdgeOf, Edge
  <2>3. EdgeOf(rest, fields, transitions[h]) = Edge(Shift(a, i), Shift(b, i), c)
    BY <1>5, <2>1 DEF EdgeOf, Edge
  <2>4. Ends(x, Shift(x.from, i), Shift(x.to, i)) = Edge(Shift(a, i), Shift(b, i), c)
    BY <2>2, EdgeMoved
  <2>5. x \in Edges(e.def)
    BY <1>2, <1>9, EdgesAre
  <2>6. Remains(e.def, i, rest, h) <=>
            \/ ~Follows(states, states[i].key)
            \/ Without(a, i) # {} /\ Without(b, i) # {}
    BY <1>2, <1>5, <2>1, SomeShifted DEF Remains
  <2>7. x \in stay <=> Remains(e.def, i, rest, h)
    BY <1>2, <1>7a, <1>8, <2>2, <2>5, <2>6
  <2> QED
    BY <2>3, <2>4, <2>5, <2>7
<1>10. \A x \in stay : \E h \in DOMAIN transitions : x = EdgeOf(states, fields, transitions[h])
  BY <1>2, <1>8, EdgesAre
<1>11. ASSUME NEW y \in Edges(new) PROVE \E x \in stay : y = Ends(x, Shift(x.from, i), Shift(x.to, i))
  <2>1. PICK h \in DOMAIN transitions : y = EdgeOf(rest, fields, transitions[h]) /\ Remains(e.def, i, rest, h)
    BY <1>7
  <2>2. PICK x : x = EdgeOf(states, fields, transitions[h])
    OBVIOUS
  <2> QED
    BY <1>9, <2>1, <2>2
<1>12. ASSUME NEW x \in stay PROVE Ends(x, Shift(x.from, i), Shift(x.to, i)) \in Edges(new)
  <2>1. PICK h \in DOMAIN transitions : x = EdgeOf(states, fields, transitions[h])
    BY <1>10
  <2> QED
    BY <1>7, <1>9, <2>1
<1>13. Edges(new) = {Ends(x, Shift(x.from, i), Shift(x.to, i)) : x \in stay}
  BY <1>11, <1>12
<1> QED
  BY <1>6, <1>8, <1>13

LEMMA RemoveFlowFieldMeans ==
    ASSUME NEW e, FlowHeld(e), NEW i \in DOMAIN e.def.fields
    PROVE  Edges(removeField(e, i).def) = {Needing(x, Shift(x.needs, i)) : x \in Edges(e.def)}
<1>1. PICK states \in Seq(States), transitions \in Seq(Transitions), fields \in Seq(WorkflowFields) :
            Parts(e, states, transitions, fields)
  BY PartsAre DEF Parts
<1>2. states = e.def.states /\ transitions = e.def.transitions /\ fields = e.def.fields /\ i \in DOMAIN fields
  BY <1>1 DEF Parts
<1>3. PICK old \in Nat : old = fields[i].key
  <2>1. fields[i] \in WorkflowFields
    BY <1>2, ElementOfSeq, LenProperties
  <2> QED
    BY <2>1 DEF WorkflowFields
<1>4. PICK rest : rest = RemoveAt(fields, i)
  OBVIOUS
<1>5. rest \in Seq(WorkflowFields) /\ \E n : TakenOut(rest, fields, i, n)
  BY <1>2, <1>4, RemoveAtTakes
<1>6. \A S : At(rest, S) = Shift(At(fields, S), i)
  BY <1>5, RemovedPositions
<1>7. /\ (Count(rest, old) > 0) <=> ~Follows(fields, old)
      /\ Follows(fields, old) => KeysOf(rest) = KeysOf(fields) \ {old}
  BY <1>2, <1>3, <1>5, RemovedKeys
<1>8. PICK ts : ts = IF ~(Count(rest, old) > 0) THEN DropNeeds(transitions, old) ELSE transitions
  OBVIOUS
<1>9. PICK new : new = removeField(e, i).def
  OBVIOUS
<1>10. new.states = states /\ new.transitions = ts /\ new.fields = rest
  <2>1. removeField(e, i) = Change(e, Flow(e.def.slug, e.def.title, e.def.initial, states, ts, rest, e.def.onSubmit), Settings)
    BY <1>2, <1>3, <1>4, <1>8, RemoveFlowFieldIs
  <2>2. new = Flow(e.def.slug, e.def.title, e.def.initial, states, ts, rest, e.def.onSubmit)
    BY <1>9, <2>1 DEF Change
  <2> QED
    BY <2>2, FlowIs
<1>11. /\ DOMAIN ts = DOMAIN transitions
       /\ \A j \in DOMAIN transitions :
            /\ ts[j].from = transitions[j].from /\ ts[j].to = transitions[j].to
            /\ At(rest, ts[j].needs) = At(rest, transitions[j].needs)
  <2>1. CASE ~Follows(fields, old)
    BY <1>7, <1>8, <2>1
  <2>2. CASE Follows(fields, old)
    <3>1. NeedsDropped(ts, transitions, old)
      BY <1>7, <1>8, <2>2, DropNeedsAre
    <3>2. old \notin KeysOf(rest)
      BY <1>7, <2>2
    <3>3. \A S : At(rest, S \ {old}) = At(rest, S)
      BY <3>2, KnownPositions
    <3> QED
      BY <3>1, <3>3 DEF NeedsDropped, Changed
  <2> QED
    BY <2>1, <2>2
<1>12. PICK g : g = [x \in Edges(e.def) |-> Needing(x, Shift(x.needs, i))]
  OBVIOUS
<1>13. ASSUME NEW j \in DOMAIN transitions
       PROVE  EdgeOf(states, rest, ts[j]) = g[EdgeOf(states, fields, transitions[j])]
  <2>1. PICK a, b, c : a = At(states, transitions[j].from) /\ b = Positions(states, transitions[j].to)
                       /\ c = At(fields, transitions[j].needs)
    OBVIOUS
  <2>2. PICK x : x = EdgeOf(states, fields, transitions[j])
    OBVIOUS
  <2>3. x = Edge(a, b, c) /\ x.needs = c
    BY <2>1, <2>2, EdgeMoved DEF EdgeOf, Edge
  <2>4. x \in Edges(e.def)
    BY <1>2, <2>2, EdgesAre
  <2>5. g[x] = Edge(a, b, Shift(c, i))
    BY <1>12, <2>3, <2>4, EdgeMoved
  <2>6. EdgeOf(states, rest, ts[j]) = Edge(a, b, Shift(c, i))
    BY <1>6, <1>11, <2>1 DEF EdgeOf, Edge
  <2> QED
    BY <2>2, <2>5, <2>6
<1>14. Edges(new) = {g[x] : x \in Edges(e.def)}
  <2>1. Mapped(e.def, new, g)
    BY <1>2, <1>10, <1>11, <1>13 DEF Mapped
  <2> QED
    BY <2>1, MappedEdges
<1>15. {g[x] : x \in Edges(e.def)} = {Needing(x, Shift(x.needs, i)) : x \in Edges(e.def)}
  BY <1>12
<1> QED
  BY <1>9, <1>14, <1>15

-----------------------------------------------------------------------------
(* What moving and copying a field mean for the conditions of a form. *)

Trade(h, a, b) == IF h = a THEN b ELSE IF h = b THEN a ELSE h

LEMMA MoveMeans ==
    ASSUME NEW e, FormHeld(e), NEW i \in DOMAIN e.def.fields, NEW j \in DOMAIN e.def.fields
    PROVE  Controllers(moveField(e, i, j).def.fields)
           = {<<Trade(c[1], i, j), Trade(c[2], i, j)>> : c \in Controllers(e.def.fields)}
<1>1. PICK fields \in Seq(FormFields) : fields = e.def.fields
  BY FormListIs
<1>2. PICK new : new = [fields EXCEPT ![i] = fields[j], ![j] = fields[i]]
  OBVIOUS
<1>3. /\ new \in Seq(FormFields) /\ DOMAIN new = DOMAIN fields
      /\ \A h \in DOMAIN fields : new[h] = IF h = j THEN fields[i] ELSE IF h = i THEN fields[j] ELSE fields[h]
  BY <1>1, <1>2, Swapped
<1>4. moveField(e, i, j).def.fields = new
  <2>1. PICK s : moveField(e, i, j) = withFields(e, new, s)
    BY <1>1, <1>2 DEF moveField
  <2> QED
    BY <1>3, <2>1, WithFieldsIs
<1>5. /\ \A h \in DOMAIN fields : Trade(h, i, j) \in DOMAIN fields /\ new[h] = fields[Trade(h, i, j)]
      /\ \A h : Trade(Trade(h, i, j), i, j) = h
  BY <1>1, <1>3 DEF Trade
<1>6. ASSUME NEW a \in DOMAIN fields, NEW b \in DOMAIN fields
      PROVE  <<a, b>> \in Controllers(new) <=> <<Trade(a, i, j), Trade(b, i, j)>> \in Controllers(fields)
  <2>1. PICK x \in DOMAIN fields, y \in DOMAIN fields : x = Trade(a, i, j) /\ y = Trade(b, i, j)
    BY <1>5
  <2>2. new[a] = fields[x] /\ new[b] = fields[y]
    BY <1>5, <2>1
  <2>3. <<a, b>> \in Controllers(new) <=> new[a].showIf.op # "no" /\ new[b].key = new[a].showIf.field
    BY <1>3, ControllerIs
  <2>4. <<x, y>> \in Controllers(fields) <=> fields[x].showIf.op # "no" /\ fields[y].key = fields[x].showIf.field
    BY ControllerIs
  <2> QED
    BY <2>1, <2>2, <2>3, <2>4
<1>7. PICK R : R = {<<Trade(c[1], i, j), Trade(c[2], i, j)>> : c \in Controllers(fields)}
  OBVIOUS
<1>8. ASSUME NEW c \in Controllers(new) PROVE c \in R
  <2>1. PICK a, b : c = <<a, b>>
    BY ControllersArePairs
  <2>2. a \in DOMAIN fields /\ b \in DOMAIN fields
    BY <1>3, <2>1, ControllerIs
  <2>3. PICK x, y : x = Trade(a, i, j) /\ y = Trade(b, i, j) /\ Trade(x, i, j) = a /\ Trade(y, i, j) = b
    BY <1>5
  <2>4a. PICK d : d = <<x, y>>
    OBVIOUS
  <2>4. d = <<x, y>> /\ d[1] = x /\ d[2] = y
    BY <2>4a
  <2>5. d \in Controllers(fields)
    BY <1>6, <2>1, <2>2, <2>3, <2>4
  <2>6. c = <<Trade(d[1], i, j), Trade(d[2], i, j)>>
    BY <2>1, <2>3, <2>4
  <2> QED
    BY <1>7, <2>5, <2>6
<1>9. ASSUME NEW d \in Controllers(fields) PROVE <<Trade(d[1], i, j), Trade(d[2], i, j)>> \in Controllers(new)
  <2>1. PICK x, y : d = <<x, y>> /\ d[1] = x /\ d[2] = y
    BY ControllersArePairs
  <2>2. x \in DOMAIN fields /\ y \in DOMAIN fields
    BY <2>1, ControllerIs
  <2>3. PICK a \in DOMAIN fields, b \in DOMAIN fields :
            a = Trade(x, i, j) /\ b = Trade(y, i, j) /\ Trade(a, i, j) = x /\ Trade(b, i, j) = y
    BY <1>5, <2>2
  <2>4. <<a, b>> \in Controllers(new)
    BY <1>6, <2>1, <2>3
  <2> QED
    BY <2>1, <2>3, <2>4
<1>10. Controllers(new) = R
  BY <1>7, <1>8, <1>9
<1> QED
  BY <1>1, <1>4, <1>7, <1>10

(* Where the entry at j comes to be when the i-th gets a copy behind it. *)
Lift(j, i) == IF j > i THEN j + 1 ELSE j

LEMMA LiftAndDown ==
    ASSUME NEW n \in Nat, NEW i \in 1..n
    PROVE  /\ \A x \in 1..n : Lift(x, i) \in 1..(n + 1) /\ Lift(x, i) # i + 1 /\ Down(Lift(x, i), i) = x
           /\ \A a \in 1..(n + 1) : /\ Down(a, i) \in 1..n
                                    /\ a # i + 1 => Lift(Down(a, i), i) = a
           /\ i + 1 \in 1..(n + 1) /\ Down(i + 1, i) = i
BY DEF Lift, Down

LEMMA DuplicateMeans ==
    ASSUME NEW e, FormHeld(e), FormRefs(e.def.fields), NEW i \in DOMAIN e.def.fields
    PROVE  Controllers(duplicateField(e, i).def.fields)
           = {<<Lift(c[1], i), Lift(c[2], i)>> : c \in Controllers(e.def.fields)}
             \cup {<<i + 1, Lift(c[2], i)>> : c \in {d \in Controllers(e.def.fields) : d[1] = i}}
<1>1. PICK fields \in Seq(FormFields) : fields = e.def.fields
  BY FormListIs
<1>2. PICK new, copy : \E n \in Nat :
            /\ CopiedTo(new, copy, fields, i, n)
            /\ duplicateField(e, i) = withFields(e, new, Place("fields", i + 1))
  BY <1>1, FieldCopied
<1>3. PICK n \in Nat :
            /\ CopiedTo(new, copy, fields, i, n)
            /\ duplicateField(e, i) = withFields(e, new, Place("fields", i + 1))
  BY <1>2
<1>4. /\ new \in Seq(FormFields) /\ DOMAIN fields = 1..n /\ DOMAIN new = 1..(n + 1) /\ i \in 1..n
      /\ \A j \in 1..(n + 1) : new[j] = IF j <= i THEN fields[j] ELSE IF j = i + 1 THEN copy ELSE fields[j - 1]
      /\ copy.showIf = fields[i].showIf
  BY <1>1, <1>3 DEF CopiedTo
<1>5. duplicateField(e, i).def.fields = new
  BY <1>3, <1>4, WithFieldsIs
<1>6. /\ \A x \in 1..n : Lift(x, i) \in 1..(n + 1) /\ Lift(x, i) # i + 1 /\ Down(Lift(x, i), i) = x
      /\ \A a \in 1..(n + 1) : /\ Down(a, i) \in 1..n
                               /\ a # i + 1 => Lift(Down(a, i), i) = a
      /\ i + 1 \in 1..(n + 1) /\ Down(i + 1, i) = i
  BY <1>4, LiftAndDown
<1>7. ASSUME NEW a \in 1..(n + 1)
      PROVE  /\ new[a].showIf = fields[Down(a, i)].showIf
             /\ new[a].key = IF a = i + 1 THEN copy.key ELSE fields[Down(a, i)].key
  <2>1. CASE a <= i
    <3>1. Down(a, i) = a /\ a # i + 1 /\ new[a] = fields[a]
      BY <1>4, <2>1 DEF Down
    <3> QED
      BY <3>1
  <2>2. CASE a = i + 1
    <3>1. new[a] = copy /\ Down(a, i) = i
      BY <1>4, <1>6, <2>2
    <3> QED
      BY <1>4, <2>2, <3>1
  <2>3. CASE a > i + 1
    <3>1. Down(a, i) = a - 1 /\ a # i + 1 /\ new[a] = fields[a - 1]
      BY <1>4, <2>3 DEF Down
    <3> QED
      BY <3>1
  <2> QED
    BY <1>4, <2>1, <2>2, <2>3
<1>8. ASSUME NEW a \in 1..(n + 1), NEW b \in 1..(n + 1)
      PROVE  <<a, b>> \in Controllers(new) <=> b # i + 1 /\ <<Down(a, i), Down(b, i)>> \in Controllers(fields)
  <2>1. PICK x \in 1..n, y \in 1..n : x = Down(a, i) /\ y = Down(b, i)
    BY <1>6
  <2>2. <<a, b>> \in Controllers(new) <=> new[a].showIf.op # "no" /\ new[b].key = new[a].showIf.field
    BY <1>4, ControllerIs
  <2>2a. x \in DOMAIN fields /\ y \in DOMAIN fields
    BY <1>4
  <2>3. <<x, y>> \in Controllers(fields) <=> fields[x].showIf.op # "no" /\ fields[y].key = fields[x].showIf.field
    BY <2>2a, ControllerIs
  <2>4. fields[x].showIf.op # "no" => fields[x].showIf.field # copy.key
    <3>1. copy.key \notin KeysOf(fields)
      BY <1>3 DEF CopiedTo
    <3>2. fields[x].showIf.op # "no" => fields[x].showIf.field \in KeysOf(fields)
      BY <1>1, <1>4 DEF FormRefs
    <3> QED
      BY <3>1, <3>2
  <2>5. new[a].showIf = fields[x].showIf /\ new[b].key = IF b = i + 1 THEN copy.key ELSE fields[y].key
    BY <1>7, <2>1
  <2> QED
    BY <2>1, <2>2, <2>3, <2>4, <2>5
<1>9. PICK R, S : /\ R = {<<Lift(c[1], i), Lift(c[2], i)>> : c \in Controllers(fields)}
                  /\ S = {<<i + 1, Lift(c[2], i)>> : c \in {d \in Controllers(fields) : d[1] = i}}
  OBVIOUS
<1>10. ASSUME NEW c \in Controllers(new) PROVE c \in R \cup S
  <2>1. PICK a, b : c = <<a, b>>
    BY ControllersArePairs
  <2>2. a \in 1..(n + 1) /\ b \in 1..(n + 1)
    BY <1>4, <2>1, ControllerIs
  <2>3. PICK x, y : x = Down(a, i) /\ y = Down(b, i)
    OBVIOUS
  <2>4. <<x, y>> \in Controllers(fields) /\ Lift(y, i) = b
    BY <1>6, <1>8, <2>1, <2>2, <2>3
  <2>5a. PICK d : d = <<x, y>>
    OBVIOUS
  <2>5. d = <<x, y>> /\ d[1] = x /\ d[2] = y
    BY <2>5a
  <2>6. CASE a = i + 1
    <3>1. d \in {p \in Controllers(fields) : p[1] = i}
      BY <1>6, <2>3, <2>4, <2>5, <2>6
    <3>2. c = <<i + 1, Lift(d[2], i)>>
      BY <2>1, <2>4, <2>5, <2>6
    <3> QED
      BY <1>9, <3>1, <3>2
  <2>7. CASE a # i + 1
    <3>1. c = <<Lift(d[1], i), Lift(d[2], i)>>
      BY <1>6, <2>1, <2>2, <2>3, <2>4, <2>5, <2>7
    <3> QED
      BY <1>9, <2>4, <2>5, <3>1
  <2> QED
    BY <2>6, <2>7
<1>11. ASSUME NEW d \in Controllers(fields)
       PROVE  /\ <<Lift(d[1], i), Lift(d[2], i)>> \in Controllers(new)
              /\ d[1] = i => <<i + 1, Lift(d[2], i)>> \in Controllers(new)
  <2>1. PICK x, y : d = <<x, y>> /\ d[1] = x /\ d[2] = y
    BY ControllersArePairs
  <2>2. x \in 1..n /\ y \in 1..n /\ <<x, y>> \in Controllers(fields)
    BY <1>4, <2>1, ControllerIs
  <2>3. PICK a \in 1..(n + 1), b \in 1..(n + 1) :
            a = Lift(x, i) /\ b = Lift(y, i) /\ Down(a, i) = x /\ Down(b, i) = y /\ b # i + 1
    BY <1>6, <2>2
  <2>4. <<a, b>> \in Controllers(new)
    BY <1>8, <2>2, <2>3
  <2>5. x = i => <<i + 1, b>> \in Controllers(new)
    BY <1>6, <1>8, <2>2, <2>3
  <2> QED
    BY <2>1, <2>3, <2>4, <2>5
<1>12. Controllers(new) = R \cup S
  <2>1. \A c \in R \cup S : c \in Controllers(new)
    BY <1>9, <1>11
  <2> QED
    BY <1>10, <2>1
<1> QED
  BY <1>1, <1>5, <1>9, <1>12

-----------------------------------------------------------------------------
(* Where problems are. *)

FormPlaces == [at : {"fields"}, i : Nat \ {0}]

LEMMA PlaceInList ==
    ASSUME NEW T, NEW list \in Seq(T), NEW i \in DOMAIN list, NEW where
    PROVE  LET p == Place(where, i)
           IN  p.at = where /\ p.i = i /\ p \in [at : {where}, i : Nat \ {0}]
<1>1. PICK n \in Nat : DOMAIN list = 1..n
  BY LenProperties
<1>2. i \in Nat \ {0}
  BY <1>1
<1> QED
  BY <1>2 DEF Place

LEMMA FormProblemPlaces ==
    ASSUME NEW d, IsForm(d), NEW p \in validateForm(d) \cup parse_form(d)
    PROVE  p = Settings \/ (p.at = "fields" /\ p.i \in DOMAIN d.fields /\ p \in FormPlaces)
<1>1. PICK fields \in Seq(FormFields) : fields = d.fields
  BY DEF IsForm
<1>2. p \in formSchemaProblems(d) \cup formSemanticProblems(d) \cup validate_form(d)
  BY AfterTheSchema DEF validateForm
<1>3. p = Settings \/ \E i \in DOMAIN d.fields : p = Place("fields", i)
  BY <1>2, FormProblemsAre
<1> QED
  BY <1>1, <1>3, PlaceInList DEF FormPlaces

LEMMA FlowProblemPlaces ==
    ASSUME NEW d, IsWorkflow(d), NEW p \in validateWorkflow(d) \cup parse_workflow(d)
    PROVE  (p = Settings \/ p \in FlowPlaces) /\ There(p, d.states, d.transitions, d.fields)
<1>1. PICK states \in Seq(States), transitions \in Seq(Transitions), fields \in Seq(WorkflowFields) :
            states = d.states /\ transitions = d.transitions /\ fields = d.fields
  BY DEF IsWorkflow
<1>2. p \in workflowSchemaProblems(d) \cup workflowSemanticProblems(d) \cup validate_workflow(d)
  BY AfterTheSchema DEF validateWorkflow
<1>3. \/ p = Settings
      \/ \E i \in DOMAIN states : p = Place("states", i)
      \/ \E i \in DOMAIN fields : p = Place("fields", i)
      \/ \E i \in DOMAIN transitions : p = Place("transitions", i)
  BY <1>1, <1>2, WorkflowProblemsAre
<1>4. CASE p = Settings
  BY <1>4, NothingSelected
<1>5. CASE \E i \in DOMAIN states : p = Place("states", i)
  BY <1>1, <1>5, PlaceInList DEF FlowPlaces, There
<1>6. CASE \E i \in DOMAIN fields : p = Place("fields", i)
  BY <1>1, <1>6, PlaceInList DEF FlowPlaces, There
<1>7. CASE \E i \in DOMAIN transitions : p = Place("transitions", i)
  BY <1>1, <1>7, PlaceInList DEF FlowPlaces, There
<1> QED
  BY <1>3, <1>4, <1>5, <1>6, <1>7

-----------------------------------------------------------------------------
(* Moving and deleting other fields: the selection stays with its field. *)

KeyOfSel(e) == IF e.sel.i \in DOMAIN e.def.fields THEN e.def.fields[e.sel.i].key ELSE 0

LEMMA RemovalKeepsSelected ==
    ASSUME NEW e, FormHeld(e), e.sel # Settings, e.sel.i \in DOMAIN e.def.fields,
           NEW i \in DOMAIN e.def.fields, i # e.sel.i
    PROVE  KeyOfSel(formRemoveField(e, i)) = KeyOfSel(e)
<1>1. PICK fields \in Seq(FormFields) : fields = e.def.fields
  BY FormListIs
<1>2. PICK new, rest, n : /\ RemovedTo(new, rest, fields, i, n)
                          /\ formRemoveField(e, i) = withFields(e, new, SelectedAfter(e.sel, i, n - 1))
  BY <1>1, FieldsRemoved
<1>3. PICK m \in Nat : m = n - 1 /\ n = m + 1
  BY <1>2 DEF RemovedTo
<1>4. /\ new \in Seq(FormFields) /\ DOMAIN fields = 1..(m + 1) /\ i \in 1..(m + 1) /\ DOMAIN new = 1..m
      /\ \A j \in 1..m :
            /\ Up(j, i) \in 1..(m + 1)
            /\ \/ new[j] = fields[Up(j, i)]
               \/ new[j] = [fields[Up(j, i)] EXCEPT !.showIf = NoCondition]
  BY <1>1, <1>2, <1>3 DEF RemovedTo
<1>5. PICK s : s = SelectedAfter(e.sel, i, m)
  OBVIOUS
<1>6. PICK h \in 1..(m + 1) : h = e.sel.i /\ h # i
  BY <1>1, <1>4
<1>7. s # Settings /\ s.i = Down(h, i)
  <2>1. m + 1 \in Nat \ {0} /\ m + 1 - 1 = m
    OBVIOUS
  <2> QED
    BY <1>1, <1>4, <1>5, <1>6, <2>1, SelectedAfterIs DEF Down
<1>8. s.i \in 1..m /\ Up(s.i, i) = h
  BY <1>4, <1>6, <1>7, UpAndDown
<1>9. new[s.i].key = fields[h].key
  <2>1. PICK f \in FormFields : f = fields[h]
    BY <1>1, <1>4, FormListIs
  <2>2. [f EXCEPT !.showIf = NoCondition].key = f.key
    BY DEF FormFields
  <2> QED
    BY <1>4, <1>8, <2>1, <2>2
<1>10. PICK r : r = formRemoveField(e, i)
  OBVIOUS
<1>11. r.sel = s /\ r.def.fields = new
  BY <1>2, <1>3, <1>4, <1>5, <1>10, WithFieldsIs
<1> QED
  BY <1>1, <1>4, <1>6, <1>8, <1>9, <1>10, <1>11 DEF KeyOfSel

LEMMA MoveKeepsSelected ==
    ASSUME NEW e, FormHeld(e), e.sel # Settings, e.sel.i \in DOMAIN e.def.fields,
           NEW i \in DOMAIN e.def.fields, NEW j \in DOMAIN e.def.fields
    PROVE  KeyOfSel(moveField(e, i, j)) = KeyOfSel(e)
<1>1. PICK fields \in Seq(FormFields) : fields = e.def.fields
  BY FormListIs
<1>2. PICK new : new = [fields EXCEPT ![i] = fields[j], ![j] = fields[i]]
  OBVIOUS
<1>3. /\ new \in Seq(FormFields) /\ DOMAIN new = DOMAIN fields
      /\ \A h \in DOMAIN fields : new[h] = IF h = j THEN fields[i] ELSE IF h = i THEN fields[j] ELSE fields[h]
  BY <1>1, <1>2, Swapped
<1>4. i \in Nat /\ j \in Nat
  BY <1>1, LenProperties
<1>5. PICK s : s = (CASE e.sel = Place("fields", i) -> Place("fields", j)
                     [] e.sel = Place("fields", j) -> Place("fields", i)
                     [] OTHER -> e.sel)
  OBVIOUS
<1>6. s = Place("fields", IF e.sel.i = i THEN j ELSE IF e.sel.i = j THEN i ELSE e.sel.i)
  BY <1>4, <1>5, MovedSelection
<1>7. s.i = IF e.sel.i = i THEN j ELSE IF e.sel.i = j THEN i ELSE e.sel.i
  BY <1>6, PlaceIs
<1>8. s.i \in DOMAIN fields /\ new[s.i] = fields[e.sel.i]
  BY <1>1, <1>3, <1>7
<1>9. PICK r : r = moveField(e, i, j)
  OBVIOUS
<1>10. r.sel = s /\ r.def.fields = new
  <2>1. r = withFields(e, new, s)
    BY <1>1, <1>2, <1>5, <1>9 DEF moveField
  <2> QED
    BY <1>3, <2>1, WithFieldsIs
<1> QED
  BY <1>1, <1>3, <1>8, <1>9, <1>10 DEF KeyOfSel

-----------------------------------------------------------------------------
(* What a save leaves behind.                                              *)

Fields      == {"phase", "def"}

Shapes ==
    /\ IsEditor(editor) /\ DOMAIN save = Fields
    /\ editor.dirty \in BOOLEAN /\ meanwhile \in BOOLEAN /\ raced \in BOOLEAN
    /\ left # "no" => save.phase = "idle"

(* A save under way is of the definition shown, unless that was edited;    *)
(* one that is through is what the page has stored last.                   *)
Saving ==
    /\ save.phase # "idle" => serverProblems = {}
    /\ (save.phase # "idle" /\ ~meanwhile) => save.def = def
    /\ save.phase = "refreshing" => mine = save.def

Clean == (left = "no" /\ ~editor.dirty) => def = opened

FreeSlug == (isNew /\ save.phase = "putting" /\ save.def.slug \in taken) => raced

IInv == Shapes /\ Saving /\ Clean /\ FreeSlug /\ SaveMatchesPage

-----------------------------------------------------------------------------

LEMMA InitInv == Init => IInv
<1> SUFFICES ASSUME Init PROVE IInv
  OBVIOUS
<1>1. /\ IsEditor(editor) /\ def = opened /\ editor.dirty = FALSE
      /\ DOMAIN save = Fields /\ save.phase = "idle"
  BY DEF Init, IsEditor, Fields, def
<1>2. serverProblems = {} /\ left = "no" /\ meanwhile = FALSE /\ raced = FALSE
  BY DEF Init
<1> QED
  BY <1>1, <1>2 DEF IInv, Shapes, Saving, Clean, FreeSlug, SaveMatchesPage, ProblemsOfThis, LeavesKept

(* An edit marks the editor, and drops the problems of the last save. *)
LEMMA EditInv ==
    ASSUME IInv, NEW e, Edit(e), IsEditor(e), e.dirty = TRUE
    PROVE  IInv'
<1>1. /\ left = "no" /\ editor' = e /\ serverProblems' = {}
      /\ meanwhile' = (meanwhile \/ save.phase # "idle")
      /\ UNCHANGED <<kind, isNew, opened, save, raced, saves, taken, mine, left>>
  BY DEF Edit, Dropped
<1>2. Shapes'
  BY <1>1 DEF IInv, Shapes
<1>3. Saving' /\ Clean' /\ FreeSlug'
  BY <1>1 DEF IInv, Saving, Clean, FreeSlug, Shapes
<1>4. SaveMatchesPage'
  BY <1>1 DEF SaveMatchesPage, ProblemsOfThis, LeavesKept
<1> QED
  BY <1>2, <1>3, <1>4 DEF IInv

(* What the reducers return is marked. *)
Marked(e) == IsEditor(e) /\ e.dirty = TRUE

LEMMA ChangeMarks == \A e, d, s : Marked(Change(e, d, s))
BY DEF Change, Marked, IsEditor

LEMMA FieldsMark ==
    ASSUME NEW e, IsEditor(e)
    PROVE  /\ \A fields, s : Marked(withFields(e, fields, s))
           /\ \A slug : Marked(formSetSlug(e, slug))
           /\ \A title : Marked(formSetTitle(e, title))
           /\ \A d : Marked(formReplace(e, d))
BY DEF withFields, formSetSlug, formSetTitle, formReplace, Marked, IsEditor

LEMMA FormActionsMark ==
    ASSUME NEW e, IsEditor(e)
    PROVE  /\ \A type : Marked(formAddField(e, type))
           /\ \A i, f : Marked(formUpdateField(e, i, f))
           /\ \A i, type : Marked(setFieldType(e, i, type))
           /\ \A i, k : Marked(formRenameField(e, i, k))
           /\ \A i : Marked(formRemoveField(e, i))
           /\ \A i : Marked(duplicateField(e, i))
           /\ \A i, j : Marked(moveField(e, i, j))
<1>1. \A type : Marked(formAddField(e, type))
  BY FieldsMark DEF formAddField
<1>2. \A i, f : Marked(formUpdateField(e, i, f))
  BY FieldsMark DEF formUpdateField
<1>3. \A i, type : Marked(setFieldType(e, i, type))
  BY <1>2 DEF setFieldType
<1>4. \A i, k : Marked(formRenameField(e, i, k))
  BY FieldsMark DEF formRenameField
<1>5. \A i : Marked(formRemoveField(e, i))
  BY FieldsMark DEF formRemoveField
<1>6. \A i : Marked(duplicateField(e, i))
  BY FieldsMark DEF duplicateField
<1>7. \A i, j : Marked(moveField(e, i, j))
  BY FieldsMark DEF moveField
<1> QED
  BY <1>1, <1>2, <1>3, <1>4, <1>5, <1>6, <1>7

LEMMA WorkflowActionsMark ==
    ASSUME NEW e
    PROVE  /\ \A slug : Marked(setSlug(e, slug)) /\ Marked(setTitle(e, slug))
           /\ \A k : Marked(setInitial(e, k))
           /\ Marked(addState(e)) /\ Marked(addTransition(e)) /\ Marked(addField(e))
           /\ \A i, s : Marked(updateState(e, i, s))
           /\ \A i, k : Marked(renameState(e, i, k)) /\ Marked(renameField(e, i, k))
           /\ \A i : Marked(removeState(e, i)) /\ Marked(removeTransition(e, i)) /\ Marked(removeField(e, i))
           /\ \A i, t : Marked(updateTransition(e, i, t))
           /\ \A i, f : Marked(updateField(e, i, f))
           /\ \A type : Marked(addAction(e, type))
           /\ \A j, sides : Marked(updateAction(e, j, sides))
           /\ \A j : Marked(removeAction(e, j))
           /\ \A d : Marked(workflowReplace(e, d))
<1>1. /\ \A slug : Marked(setSlug(e, slug)) /\ Marked(setTitle(e, slug))
      /\ \A k : Marked(setInitial(e, k))
      /\ \A i, s : Marked(updateState(e, i, s))
      /\ \A i, t : Marked(updateTransition(e, i, t))
      /\ \A i : Marked(removeTransition(e, i))
      /\ \A d : Marked(workflowReplace(e, d))
  BY ChangeMarks DEF setSlug, setTitle, setInitial, updateState, updateTransition,
                      removeTransition, workflowReplace
<1>2. Marked(addState(e)) /\ Marked(addTransition(e)) /\ Marked(addField(e))
  BY ChangeMarks DEF addState, addTransition, addField
<1>3. \A i, f : Marked(updateField(e, i, f))
  BY ChangeMarks DEF updateField
<1>4. /\ \A i, k : Marked(renameState(e, i, k))
      /\ \A i : Marked(removeState(e, i))
  BY ChangeMarks DEF renameState, removeState
<1>5. /\ \A i, k : Marked(renameField(e, i, k))
      /\ \A i : Marked(removeField(e, i))
  BY ChangeMarks DEF renameField, removeField
<1>6. \A actions : Marked(setActions(e, actions))
  BY ChangeMarks DEF setActions
<1>7. /\ \A type : Marked(addAction(e, type))
      /\ \A j, sides : Marked(updateAction(e, j, sides))
      /\ \A j : Marked(removeAction(e, j))
  BY <1>6 DEF addAction, updateAction, removeAction
<1> QED
  BY <1>1, <1>2, <1>3, <1>4, <1>5, <1>7

LEMMA MarkedEditInv ==
    ASSUME IInv, \E e : Edit(e) /\ Marked(e)
    PROVE  IInv'
BY EditInv DEF Marked

LEMMA FormEditsInv ==
    ASSUME IInv, EditMeta \/ ListFields \/ InspectField \/ TypeText
    PROVE  IInv'
<1>0. IsEditor(editor)
  BY DEF IInv, Shapes
<1>1. CASE EditMeta
  BY <1>0, <1>1, MarkedEditInv, FieldsMark, WorkflowActionsMark DEF EditMeta
<1>2. CASE ListFields
  BY <1>0, <1>2, MarkedEditInv, FormActionsMark DEF ListFields
<1>3. CASE InspectField
  BY <1>0, <1>3, MarkedEditInv, FormActionsMark DEF InspectField
<1>4. CASE TypeText
  BY <1>0, <1>4, MarkedEditInv, FieldsMark, WorkflowActionsMark DEF TypeText
<1> QED
  BY <1>1, <1>2, <1>3, <1>4

LEMMA WorkflowEditsInv ==
    ASSUME IInv, Outline \/ InspectState \/ InspectTransition \/ InspectWorkflowField \/ EditActions
    PROVE  IInv'
<1>1. CASE Outline
  BY <1>1, MarkedEditInv, WorkflowActionsMark DEF Outline
<1>2. CASE InspectState
  BY <1>2, MarkedEditInv, WorkflowActionsMark DEF InspectState
<1>3. CASE InspectTransition
  BY <1>3, MarkedEditInv, WorkflowActionsMark DEF InspectTransition
<1>4. CASE InspectWorkflowField
  BY <1>4, MarkedEditInv, WorkflowActionsMark DEF InspectWorkflowField
<1>5. CASE EditActions
  BY <1>5, MarkedEditInv, WorkflowActionsMark DEF EditActions
<1> QED
  BY <1>1, <1>2, <1>3, <1>4, <1>5

(* Selecting leaves the definition alone. *)
LEMMA SelectInv ==
    ASSUME IInv, SelectEntry \/ SelectProblem
    PROVE  IInv'
<1>1. /\ left = "no"
      /\ UNCHANGED <<kind, isNew, opened, serverProblems, save, meanwhile, raced, edits, saves,
                     pasted, taken, mine, left>>
  BY DEF SelectEntry, SelectProblem
<1>2. PICK place : editor' = Select(place)
  BY DEF SelectEntry, SelectProblem
<1>3. IsEditor(editor') /\ editor'.def = editor.def /\ editor'.dirty = editor.dirty
  BY <1>2 DEF Select, formSelect, workflowSelect, IInv, Shapes, IsEditor
<1>4. Shapes' /\ Saving' /\ Clean' /\ FreeSlug'
  BY <1>1, <1>3 DEF IInv, Shapes, Saving, Clean, FreeSlug, def
<1>5. SaveMatchesPage'
  BY <1>1, <1>3 DEF IInv, SaveMatchesPage, ProblemsOfThis, LeavesKept, def, Refusals
<1> QED
  BY <1>4, <1>5 DEF IInv

-----------------------------------------------------------------------------

LEMMA OnSaveInv == ASSUME IInv, onSave PROVE IInv'
<1>1. /\ left = "no" /\ serverProblems' = {} /\ meanwhile' = FALSE /\ raced' = FALSE
      /\ save' = [phase |-> FirstPhase, def |-> def]
      /\ UNCHANGED <<kind, isNew, opened, editor, taken, mine, left>>
  BY DEF onSave, EditingSame
<1>2. DOMAIN save' = Fields /\ save'.phase = FirstPhase /\ save'.def = def
  BY <1>1 DEF Fields
<1>3. FirstPhase \in {"asking", "putting"} /\ (isNew => FirstPhase = "asking")
  BY DEF FirstPhase
<1>4. Shapes' /\ Saving' /\ Clean' /\ FreeSlug'
  BY <1>1, <1>2, <1>3 DEF IInv, Shapes, Saving, Clean, FreeSlug, def
<1>5. SaveMatchesPage'
  BY <1>1 DEF SaveMatchesPage, ProblemsOfThis, LeavesKept
<1> QED
  BY <1>4, <1>5 DEF IInv

(* A slug that was found free is free when the definition is put, unless   *)
(* somebody takes it in between.                                           *)
LEMMA AskedInv == ASSUME IInv, Asked PROVE IInv'
<1>1. /\ save.phase = "asking"
      /\ UNCHANGED <<kind, isNew, opened, editor, meanwhile, raced, taken, mine, left>>
  BY DEF Asked, EditingSame
<1>2. \/ /\ save' = [save EXCEPT !.phase = "idle"] /\ serverProblems' = {Settings}
      \/ /\ save.def.slug \notin taken
         /\ save' = [save EXCEPT !.phase = "putting"] /\ serverProblems' = serverProblems
  BY DEF Asked, Ended, definitionExists
<1>3. /\ DOMAIN save' = Fields /\ save'.def = save.def
      /\ \/ save'.phase = "idle" /\ serverProblems' = {Settings}
         \/ save'.phase = "putting" /\ save.def.slug \notin taken /\ serverProblems' = {}
  BY <1>1, <1>2 DEF IInv, Shapes, Saving, Fields
<1>4. left = "no"
  BY <1>1 DEF IInv, Shapes
<1>5. Shapes' /\ Saving' /\ Clean' /\ FreeSlug'
  BY <1>1, <1>3, <1>4 DEF IInv, Shapes, Saving, Clean, FreeSlug, def
<1>6. SaveMatchesPage'
  BY <1>1, <1>3, <1>4 DEF IInv, Saving, SaveMatchesPage, ProblemsOfThis, LeavesKept, def
<1> QED
  BY <1>5, <1>6 DEF IInv

LEMMA PutInv == ASSUME IInv, Put PROVE IInv'
<1>1. /\ save.phase = "putting" /\ mine' = save.def
      /\ UNCHANGED <<kind, isNew, opened, editor, serverProblems, meanwhile, raced, left>>
  BY DEF Put, EditingSame
<1>2. DOMAIN save' = Fields /\ save'.def = save.def /\ save'.phase \in {"refreshing", "idle"}
  BY DEF Put, Ended, IInv, Shapes, Fields
<1>3. left = "no" /\ serverProblems = {}
  BY <1>1 DEF IInv, Shapes, Saving
<1>4. Shapes' /\ Saving' /\ Clean' /\ FreeSlug'
  BY <1>1, <1>2, <1>3 DEF IInv, Shapes, Saving, Clean, FreeSlug, def
<1>5. SaveMatchesPage'
  BY <1>1, <1>3 DEF SaveMatchesPage, ProblemsOfThis, LeavesKept
<1> QED
  BY <1>4, <1>5 DEF IInv

LEMMA RefusedInv == ASSUME IInv, Refused PROVE IInv'
<1>1. /\ save.phase = "putting" /\ serverProblems' = Refusals(save.def)
      /\ UNCHANGED <<kind, isNew, opened, editor, meanwhile, raced, taken, mine, left>>
  BY DEF Refused, EditingSame
<1>2. DOMAIN save' = Fields /\ save'.def = save.def /\ save'.phase = "idle"
  BY DEF Refused, Ended, IInv, Shapes, Fields
<1>3. left = "no"
  BY <1>1 DEF IInv, Shapes
<1>4. Shapes' /\ Saving' /\ Clean' /\ FreeSlug'
  BY <1>1, <1>2, <1>3 DEF IInv, Shapes, Saving, Clean, FreeSlug, def
<1>5. SaveMatchesPage'
  BY <1>1, <1>2, <1>3 DEF IInv, Saving, SaveMatchesPage, ProblemsOfThis, LeavesKept, def, Refusals
<1> QED
  BY <1>4, <1>5 DEF IInv

LEMMA FailsInv == ASSUME IInv, Fails PROVE IInv'
<1>1. /\ save.phase \in {"asking", "putting"}
      /\ UNCHANGED <<kind, isNew, opened, editor, serverProblems, meanwhile, raced, taken, mine, left>>
  BY DEF Fails, EditingSame
<1>2. DOMAIN save' = Fields /\ save'.def = save.def /\ save'.phase = "idle"
  BY DEF Fails, Ended, IInv, Shapes, Fields
<1>3. left = "no" /\ serverProblems = {}
  BY <1>1 DEF IInv, Shapes, Saving
<1>4. Shapes' /\ Saving' /\ Clean' /\ FreeSlug'
  BY <1>1, <1>2, <1>3 DEF IInv, Shapes, Saving, Clean, FreeSlug, def
<1>5. SaveMatchesPage'
  BY <1>1, <1>3 DEF SaveMatchesPage, ProblemsOfThis, LeavesKept
<1> QED
  BY <1>4, <1>5 DEF IInv

(* The page is left: nothing that was shown may be lost without a question.*)
LEMMA CloseInv ==
    ASSUME IInv, left = "no", NEW how, Close(how), UNCHANGED <<saves, taken, mine>>, how # "no",
           how = "saved" => save.phase = "refreshing",
           how = "quiet" => ~editor.dirty
    PROVE  IInv'
<1>1. /\ left' = how /\ editor' = [def |-> def, sel |-> Settings, dirty |-> FALSE] /\ serverProblems' = {}
      /\ UNCHANGED <<kind, isNew, opened, meanwhile, raced, taken, mine>>
  BY DEF Close, EditingSame
<1>2. DOMAIN save' = Fields /\ save'.def = save.def /\ save'.phase = "idle"
  BY DEF Close, Ended, IInv, Shapes, Fields
<1>3. IsEditor(editor') /\ editor'.def = editor.def /\ editor'.dirty = FALSE
  BY <1>1 DEF IsEditor, def
<1>4. Shapes' /\ Saving' /\ Clean' /\ FreeSlug'
  BY <1>1, <1>2, <1>3 DEF IInv, Shapes, Saving, Clean, FreeSlug
<1>5. LeavesKept'
  BY <1>1, <1>3 DEF IInv, Clean, Saving, LeavesKept, def
<1>6. SaveMatchesPage'
  BY <1>1, <1>5 DEF SaveMatchesPage, ProblemsOfThis
<1> QED
  BY <1>4, <1>6 DEF IInv

LEMMA LeavingInv == ASSUME IInv, Saved \/ Leave PROVE IInv'
<1>1. CASE Saved
  BY <1>1, CloseInv DEF Saved
<1>2. CASE Leave
  <2>1. PICK how : /\ Close(how) /\ how \in {"asked", "quiet", "failed"}
                   /\ how = "quiet" => ~editor.dirty
    BY <1>2 DEF Leave
  <2>2. left = "no" /\ UNCHANGED <<saves, taken, mine>>
    BY <1>2 DEF Leave
  <2> QED
    BY <2>1, <2>2, CloseInv
<1> QED
  BY <1>1, <1>2

LEMMA OthersCreateInv == ASSUME IInv, OthersCreate PROVE IInv'
<1>1. UNCHANGED <<kind, isNew, opened, editor, serverProblems, save, meanwhile, mine, left>>
  BY DEF OthersCreate, EditingSame
<1>2. PICK s : /\ taken' = taken \cup {s}
               /\ raced' = (raced \/ (isNew /\ save.phase = "putting" /\ s = save.def.slug))
  BY DEF OthersCreate
<1>3. Shapes' /\ Saving' /\ Clean' /\ FreeSlug'
  BY <1>1, <1>2 DEF IInv, Shapes, Saving, Clean, FreeSlug, def
<1>4. SaveMatchesPage'
  BY <1>1 DEF IInv, SaveMatchesPage, ProblemsOfThis, LeavesKept, def, Refusals
<1> QED
  BY <1>3, <1>4 DEF IInv

LEMMA NextInv == IInv /\ [Next]_pageVars => IInv'
<1> SUFFICES ASSUME IInv, [Next]_pageVars PROVE IInv'
  OBVIOUS
<1>1. CASE EditMeta \/ ListFields \/ InspectField \/ TypeText
  BY <1>1, FormEditsInv
<1>2. CASE Outline \/ InspectState \/ InspectTransition \/ InspectWorkflowField \/ EditActions
  BY <1>2, WorkflowEditsInv
<1>3. CASE SelectEntry \/ SelectProblem
  BY <1>3, SelectInv
<1>4. CASE onSave \/ Asked \/ Put \/ Refused \/ Fails
  BY <1>4, OnSaveInv, AskedInv, PutInv, RefusedInv, FailsInv
<1>5. CASE Saved \/ Leave \/ OthersCreate
  BY <1>5, LeavingInv, OthersCreateInv
<1>6. CASE UNCHANGED pageVars
  <2>1. UNCHANGED <<kind, isNew, opened, editor, serverProblems, save, meanwhile, raced, taken, mine, left>>
    BY <1>6 DEF pageVars
  <2>2. Shapes' /\ Saving' /\ Clean' /\ FreeSlug'
    BY <2>1 DEF IInv, Shapes, Saving, Clean, FreeSlug, def
  <2>3. SaveMatchesPage'
    BY <2>1 DEF IInv, SaveMatchesPage, ProblemsOfThis, LeavesKept, def, Refusals
  <2> QED
    BY <2>2, <2>3 DEF IInv
<1> QED
  BY <1>1, <1>2, <1>3, <1>4, <1>5, <1>6 DEF Next

LEMMA PageInvariance == Spec => []IInv
BY InitInv, NextInv, PTL DEF Spec

(* However edits and saves overlap, the problems shown after a save are    *)
(* those of the definition shown, and a page left without a question loses *)
(* nothing (useDefinitionSave.ts:40, useUnsavedChangesGuard.ts:12).        *)
THEOREM SavesMatchPage == Spec => []SaveMatchesPage
<1>1. IInv => SaveMatchesPage
  BY DEF IInv
<1> QED
  BY <1>1, PageInvariance, PTL

(* Only a lost race lets a new definition replace one that exists: the     *)
(* slug is looked up before the definition is put                          *)
(* (useDefinitionSave.ts:18).                                              *)
THEOREM NewReplacesOnlyByRace == Spec => NewNeverReplaces
<1>1. ASSUME IInv, [Next]_pageVars
      PROVE  [(isNew /\ mine' # mine /\ save.def.slug \in taken) => raced]_pageVars
  <2> SUFFICES ASSUME isNew, mine' # mine, save.def.slug \in taken PROVE raced
    OBVIOUS
  <2>1. CASE Put
    <3>1. save.phase = "putting"
      BY <2>1 DEF Put
    <3>2. FreeSlug
      BY <1>1 DEF IInv
    <3> QED
      BY <3>1, <3>2, Zenon DEF FreeSlug
  <2>2. CASE ~Put
    <3>1. ASSUME NEW e, Edit(e) PROVE FALSE
      BY <3>1 DEF Edit
    <3>2. ASSUME NEW how, Close(how) /\ UNCHANGED <<saves, taken, mine>> PROVE FALSE
      BY <3>2
    <3>3. ~EditMeta /\ ~ListFields /\ ~InspectField /\ ~TypeText
      BY <3>1 DEF EditMeta, ListFields, InspectField, TypeText
    <3>4. /\ ~Outline /\ ~InspectState /\ ~InspectTransition /\ ~InspectWorkflowField
          /\ ~EditActions
      BY <3>1 DEF Outline, InspectState, InspectTransition, InspectWorkflowField, EditActions
    <3>5. ~SelectEntry /\ ~SelectProblem /\ ~onSave
      BY DEF SelectEntry, SelectProblem, onSave
    <3>6. ~Asked /\ ~Refused /\ ~Fails /\ ~OthersCreate
      BY DEF Asked, Refused, Fails, OthersCreate
    <3>7. ~Saved /\ ~Leave
      BY DEF Saved, Leave
    <3>8. pageVars' # pageVars
      BY DEF pageVars
    <3> QED
      BY <1>1, <2>2, <3>3, <3>4, <3>5, <3>6, <3>7, <3>8 DEF Next
  <2> QED
    BY <2>1, <2>2
<1> QED
  BY <1>1, PageInvariance, PTL DEF Spec, NewNeverReplaces

-----------------------------------------------------------------------------
(* The page holds a form or a workflow as the reducers know it, with the   *)
(* place of an entry selected; problems are such places too; what is saved *)
(* is such a definition; and until a text is typed a workflow refers to    *)
(* nothing it does not have.                                               *)

Typed(d)   == IF kind = "form" THEN IsForm(d) ELSE IsWorkflow(d)
HeldBy(r)  == IF kind = "form" THEN FormHeld(r) ELSE FlowHeld(r)
GoesOn(r)  == IF kind = "form" THEN FormGoesOn(editor, r) ELSE FlowGoesOn(editor, r)
InRangeOf(r) == IF kind = "form" THEN FieldThere(r) ELSE FlowThere(r)
ListPlaces == IF kind = "form" THEN FormPlaces ELSE FlowPlaces
IsPlace(p) == p = Settings \/ p \in ListPlaces

Held == kind \in {"form", "workflow"} /\ HeldBy(editor)

Stored ==
    /\ save.phase \in {"idle", "asking", "putting", "refreshing"}
    /\ save.phase # "idle" => Typed(save.def) /\ saves > 0
    /\ saves \in Nat
    /\ save.phase = "asking" => isNew
    /\ taken \subseteq GoodSlugs
    /\ (mine # Nothing) => (saves > 0)
    /\ left \in {"no", "asked", "quiet", "saved", "failed"}

Shown == \A p \in serverProblems : IsPlace(p)
Known == (kind = "workflow" /\ ~pasted) => FlowRefs(def)

WellFormed == Held /\ Stored /\ Shown /\ Known

LEMMA TypedWhenHeld == ASSUME Held PROVE Typed(def)
BY DEF Held, HeldBy, FormHeld, FlowHeld, Typed, def

LEMMA ProblemIsPlace ==
    ASSUME kind \in {"form", "workflow"}, NEW d, Typed(d)
    PROVE  /\ \A p \in Refusals(d) : IsPlace(p)
           /\ d = def => \A p \in Problems : IsPlace(p)
<1>1. CASE kind = "form"
  BY <1>1, FormProblemPlaces DEF Typed, Refusals, Problems, IsPlace, ListPlaces
<1>2. CASE kind = "workflow"
  BY <1>2, FlowProblemPlaces DEF Typed, Refusals, Problems, IsPlace, ListPlaces
<1> QED
  BY <1>1, <1>2

(* The server accepts only known references. *)
LEMMA AcceptedRefs == ASSUME NEW d, IsWorkflow(d), parse_workflow(d) = {} PROVE FlowRefs(d)
<1>1. validate_workflow(d) = {}
  BY AfterTheSchema
<1>2. /\ ~FlowRefused(d)
      /\ \A i \in DOMAIN d.transitions : ~StepRefused(d, i)
  BY <1>1, WorkflowProblemsAre
<1>3. seen(d.states, d.initial) # {} /\ \A i \in DOMAIN d.transitions : validate_transition(d, d.transitions[i])
  BY <1>2 DEF FlowRefused, StepRefused
<1>4. d.states \in Seq(States) /\ d.fields \in Seq(WorkflowFields)
  BY DEF IsWorkflow
<1>5. d.initial \in KeysOf(d.states)
  BY <1>3, SeenIsKey
<1>6. ASSUME NEW i \in DOMAIN d.transitions
      PROVE  LET t == d.transitions[i]
             IN  t.from \cup {t.to} \subseteq KeysOf(d.states) /\ t.needs \subseteq KeysOf(d.fields)
  BY <1>3, SeenIsKey DEF validate_transition
<1> QED
  BY <1>5, <1>6 DEF FlowRefs, Refs

LEMMA NewRefs == FlowRefs(newWorkflowDefinition)
<1>1. PICK d : d = newWorkflowDefinition
  OBVIOUS
<1>2. /\ d.states = <<State(1, FALSE), State(2, TRUE)>> /\ d.initial = 1
      /\ d.transitions = <<Transition(1, {1}, 2)>> /\ d.fields = << >>
  BY <1>1 DEF newWorkflowDefinition
<1>3. KeysOf(d.states) = {1, 2}
  BY <1>2 DEF KeysOf, State
<1>4. \A i \in DOMAIN d.transitions :
        d.transitions[i].from = {1} /\ d.transitions[i].to = 2 /\ d.transitions[i].needs = {}
  BY <1>2 DEF Transition
<1> QED
  BY <1>1, <1>2, <1>3, <1>4 DEF FlowRefs, Refs

LEMMA InitWellFormed == Init => WellFormed
<1> SUFFICES ASSUME Init PROVE WellFormed
  OBVIOUS
<1>1. /\ kind \in {"form", "workflow"} /\ opened \in Openings[kind]
      /\ editor = [def |-> opened, sel |-> Settings, dirty |-> FALSE]
      /\ serverProblems = {} /\ save = [phase |-> "idle", def |-> Nothing] /\ pasted = FALSE
      /\ saves = 0 /\ mine = Nothing /\ left = "no" /\ taken \subseteq GoodSlugs
  BY DEF Init
<1>2. IsEditor(editor) /\ editor.def = opened /\ editor.sel = Settings
  BY <1>1 DEF IsEditor
<1>3. Held
  BY <1>1, <1>2, EditorAssumption DEF Held, HeldBy, FormHeld, FlowHeld
<1>4. Known
  BY <1>1, <1>2, EditorAssumption, AcceptedRefs, NewRefs DEF Known, def
<1>5. Stored /\ Shown
  BY <1>1 DEF Stored, Shown
<1> QED
  BY <1>3, <1>4, <1>5 DEF WellFormed

-----------------------------------------------------------------------------
(* Every edit in a panel is one the reducers go on from. *)

PanelEdit == \E r : Edit(r) /\ GoesOn(r)

LEMMA MetaEdits == ASSUME Held, EditMeta PROVE PanelEdit /\ pasted' = pasted
<1>1. pasted' = pasted /\ NewLabels \subseteq Labels
  BY EditorAssumption DEF EditMeta, Visual
<1>2. CASE kind = "form"
  <2>1. FormHeld(editor) /\ \A r : FormGoesOn(editor, r) => GoesOn(r)
    BY <1>2 DEF Held, HeldBy, GoesOn
  <2>2. \/ \E s : Edit(formSetSlug(editor, s))
        \/ \E title \in NewLabels : Edit(formSetTitle(editor, title))
    BY <1>2 DEF EditMeta
  <2> QED
    BY <1>1, <2>1, <2>2, SetSlugGoesOn, SetTitleGoesOn DEF PanelEdit
<1>3. CASE kind # "form"
  <2>1. FlowHeld(editor) /\ \A r : FlowGoesOn(editor, r) => GoesOn(r)
    BY <1>3 DEF Held, HeldBy, GoesOn
  <2>2. \/ \E s : Edit(setSlug(editor, s))
        \/ \E title \in NewLabels : Edit(setTitle(editor, title))
    BY <1>3 DEF EditMeta
  <2> QED
    BY <1>1, <2>1, <2>2, SlugGoesOn, TitleGoesOn DEF PanelEdit
<1> QED
  BY <1>2, <1>3

LEMMA ListEdits == ASSUME Held, ListFields PROVE PanelEdit /\ pasted' = pasted
<1>1. kind = "form" /\ FormHeld(editor) /\ pasted' = pasted
  BY DEF ListFields, Visual, Held, HeldBy
<1>2. \A r : FormGoesOn(editor, r) => GoesOn(r)
  BY <1>1 DEF GoesOn
<1>3. CASE \E type \in FieldTypes : Edit(formAddField(editor, type))
  BY <1>1, <1>2, <1>3, AddFieldGoesOn DEF PanelEdit
<1>4. CASE \E i \in DOMAIN def.fields : Edit(formRemoveField(editor, i))
  BY <1>1, <1>2, <1>4, RemoveFieldGoesOn DEF PanelEdit, def
<1>5. CASE \E i \in DOMAIN def.fields : Edit(duplicateField(editor, i))
  BY <1>1, <1>2, <1>5, DuplicateFieldGoesOn DEF PanelEdit, def
<1>6. CASE \E i, j \in DOMAIN def.fields : Edit(moveField(editor, i, j))
  BY <1>1, <1>2, <1>6, MoveFieldGoesOn DEF PanelEdit, def
<1> QED
  BY <1>1, <1>3, <1>4, <1>5, <1>6 DEF ListFields

LEMMA InspectorEdits == ASSUME Held, InspectField PROVE PanelEdit /\ pasted' = pasted
<1>1. kind = "form" /\ FormHeld(editor) /\ pasted' = pasted
  BY DEF InspectField, Visual, Held, HeldBy
<1>2. \A r : FormGoesOn(editor, r) => GoesOn(r)
  BY <1>1 DEF GoesOn
<1>3. PICK i : i = sel.i /\ i = editor.sel.i /\ i \in DOMAIN editor.def.fields
  BY DEF InspectField, def, sel
<1>4. CASE \E k \in NewKeys : Edit(formRenameField(editor, i, k))
  <2>1. PICK k \in NewKeys : Edit(formRenameField(editor, i, k))
    BY <1>4
  <2>2. k \in Nat
    BY EditorAssumption
  <2> QED
    BY <1>1, <1>2, <1>3, <2>1, <2>2, RenameFieldGoesOn DEF PanelEdit
<1>5. CASE \E type \in FieldTypes : Edit(setFieldType(editor, i, type))
  BY <1>1, <1>2, <1>3, <1>5, SetTypeGoesOn DEF PanelEdit
<1>6. CASE \E f \in FieldPatches(editor.def.fields, i, NewLabels) : Edit(formUpdateField(editor, i, f))
  <2>1. NewLabels \in SUBSET Labels
    BY EditorAssumption
  <2> QED
    BY <1>1, <1>2, <1>3, <1>6, <2>1, PatchGoesOn DEF PanelEdit
<1> QED
  BY <1>1, <1>3, <1>4, <1>5, <1>6 DEF InspectField, def

LEMMA FlowPanel ==
    ASSUME Held, Visual("workflow")
    PROVE  /\ FlowHeld(editor) /\ pasted' = pasted
           /\ \A r : Edit(r) /\ FlowGoesOn(editor, r) => PanelEdit
BY DEF Held, HeldBy, Visual, PanelEdit, GoesOn

LEMMA OutlineEdits == ASSUME Held, Outline PROVE PanelEdit /\ pasted' = pasted
<1>1. FlowHeld(editor) /\ pasted' = pasted /\ (\A r : Edit(r) /\ FlowGoesOn(editor, r) => PanelEdit)
  BY FlowPanel DEF Outline
<1>2. \/ Edit(addState(editor))
      \/ editor.def.states # << >> /\ Edit(addTransition(editor))
      \/ Edit(addField(editor))
  BY DEF Outline, def
<1> QED
  BY <1>1, <1>2, AddStateGoesOn, AddTransitionGoesOn, AddFlowFieldGoesOn

LEMMA StatePatched ==
    ASSUME NEW s \in States, NEW labels \in SUBSET Labels, NEW new \in StatePatches(s, labels)
    PROVE  new \in States /\ new.key = s.key
BY DEF StatePatches, States

LEMMA FlowFieldPatched ==
    ASSUME NEW f \in WorkflowFields, NEW labels \in SUBSET Labels, NEW new \in WorkflowFieldPatches(f, labels)
    PROVE  new \in WorkflowFields /\ new.key = f.key
BY DEF WorkflowFieldPatches, WorkflowFields, OptionsOffered, OptionLists, Filled

LEMMA StateEdits == ASSUME Held, InspectState PROVE PanelEdit /\ pasted' = pasted
<1>1. FlowHeld(editor) /\ pasted' = pasted /\ (\A r : Edit(r) /\ FlowGoesOn(editor, r) => PanelEdit)
  BY FlowPanel DEF InspectState
<1>2. PICK i : i = sel.i /\ i \in DOMAIN editor.def.states
  BY DEF InspectState, Selected, ListAt, def
<1>3. CASE \E k \in NewKeys : Edit(renameState(editor, i, k))
  BY <1>1, <1>2, <1>3, RenameStateGoesOn, EditorAssumption
<1>4. CASE \E s \in StatePatches(editor.def.states[i], NewLabels) : Edit(updateState(editor, i, s))
  <2>1. NewLabels \in SUBSET Labels
    BY EditorAssumption
  <2>2. PICK s \in StatePatches(editor.def.states[i], NewLabels) : Edit(updateState(editor, i, s))
    BY <1>4
  <2>3. editor.def.states \in Seq(States)
    BY <1>1 DEF FlowHeld, IsWorkflow
  <2>4. editor.def.states[i] \in States
    BY <1>2, <2>3, ElementOfSeq, LenProperties
  <2>5. s \in States /\ s.key = editor.def.states[i].key
    BY <2>1, <2>2, <2>4, StatePatched
  <2> QED
    BY <1>1, <1>2, <2>2, <2>5, UpdateStateGoesOn
<1>5. CASE Edit(setInitial(editor, editor.def.states[i].key))
  <2>1. PICK k : k = editor.def.states[i].key
    OBVIOUS
  <2>2. k \in KeysOf(editor.def.states)
    BY <1>2, <2>1 DEF KeysOf
  <2>3. editor.def.states \in Seq(States)
    BY <1>1 DEF FlowHeld, IsWorkflow
  <2>4. editor.def.states[i] \in States
    BY <1>2, <2>3, ElementOfSeq, LenProperties
  <2>5. k \in Nat
    BY <2>1, <2>4 DEF States
  <2> QED
    BY <1>1, <1>5, <2>1, <2>2, <2>5, InitialGoesOn
<1>6. CASE Edit(removeState(editor, i))
  BY <1>1, <1>2, <1>6, RemoveStateGoesOn
<1> QED
  BY <1>1, <1>2, <1>3, <1>4, <1>5, <1>6 DEF InspectState, def

LEMMA TransitionEdits == ASSUME Held, InspectTransition PROVE PanelEdit /\ pasted' = pasted
<1>1. FlowHeld(editor) /\ pasted' = pasted /\ (\A r : Edit(r) /\ FlowGoesOn(editor, r) => PanelEdit)
  BY FlowPanel DEF InspectTransition
<1>2. PICK i : i = sel.i /\ i \in DOMAIN editor.def.transitions
  BY DEF InspectTransition, Selected, ListAt, def
<1>3. CASE \E t \in TransitionPatches(editor.def, i, NewLabels, NewKeys) : Edit(updateTransition(editor, i, t))
  <2>1. NewKeys \in SUBSET Nat /\ NewLabels \in SUBSET Labels
    BY EditorAssumption
  <2> QED
    BY <1>1, <1>2, <1>3, <2>1, PatchTransitionGoesOn
<1>4. CASE Edit(removeTransition(editor, i))
  BY <1>1, <1>2, <1>4, RemoveTransitionGoesOn
<1> QED
  BY <1>1, <1>2, <1>3, <1>4 DEF InspectTransition, def

LEMMA FlowFieldEdits == ASSUME Held, InspectWorkflowField PROVE PanelEdit /\ pasted' = pasted
<1>1. FlowHeld(editor) /\ pasted' = pasted /\ (\A r : Edit(r) /\ FlowGoesOn(editor, r) => PanelEdit)
  BY FlowPanel DEF InspectWorkflowField
<1>2. PICK i : i = sel.i /\ i \in DOMAIN editor.def.fields
  BY DEF InspectWorkflowField, Selected, ListAt, def
<1>3. CASE \E k \in NewKeys : Edit(renameField(editor, i, k))
  BY <1>1, <1>2, <1>3, RenameFlowFieldGoesOn, EditorAssumption
<1>4. CASE \E f \in WorkflowFieldPatches(editor.def.fields[i], NewLabels) : Edit(updateField(editor, i, f))
  <2>1. NewLabels \in SUBSET Labels
    BY EditorAssumption
  <2>2. PICK f \in WorkflowFieldPatches(editor.def.fields[i], NewLabels) : Edit(updateField(editor, i, f))
    BY <1>4
  <2>3. editor.def.fields \in Seq(WorkflowFields)
    BY <1>1 DEF FlowHeld, IsWorkflow
  <2>4. editor.def.fields[i] \in WorkflowFields
    BY <1>2, <2>3, ElementOfSeq, LenProperties
  <2>5. f \in WorkflowFields /\ f.key = editor.def.fields[i].key
    BY <2>1, <2>2, <2>4, FlowFieldPatched
  <2> QED
    BY <1>1, <1>2, <2>2, <2>5, UpdateFlowFieldGoesOn
<1>5. CASE Edit(removeField(editor, i))
  BY <1>1, <1>2, <1>5, RemoveFlowFieldGoesOn
<1> QED
  BY <1>1, <1>2, <1>3, <1>4, <1>5 DEF InspectWorkflowField, def

LEMMA ActionEdits == ASSUME Held, EditActions PROVE PanelEdit /\ pasted' = pasted
<1>1. FlowHeld(editor) /\ pasted' = pasted /\ (\A r : Edit(r) /\ FlowGoesOn(editor, r) => PanelEdit)
  BY FlowPanel DEF EditActions
<1>2. HasActions(editor)
  BY DEF EditActions, Selected, ListAt, def, sel, HasActions
<1>3. CASE \E type \in ActionTypes : Edit(addAction(editor, type))
  BY <1>1, <1>2, <1>3, AddActionGoesOn
<1>4. CASE \E j \in DOMAIN getActions(editor), sides \in SUBSET Sides : Edit(updateAction(editor, j, sides))
  BY <1>1, <1>2, <1>4, UpdateActionGoesOn
<1>5. CASE \E j \in DOMAIN getActions(editor) : Edit(removeAction(editor, j))
  BY <1>1, <1>2, <1>5, RemoveActionGoesOn
<1> QED
  BY <1>1, <1>3, <1>4, <1>5 DEF EditActions

Panels ==
    \/ EditMeta \/ ListFields \/ InspectField \/ Outline \/ InspectState
    \/ InspectTransition \/ InspectWorkflowField \/ EditActions

LEMMA PanelsGoOn == ASSUME Held, Panels PROVE PanelEdit /\ pasted' = pasted
BY MetaEdits, ListEdits, InspectorEdits, OutlineEdits, StateEdits, TransitionEdits, FlowFieldEdits, ActionEdits
   DEF Panels

(* A text that parses is a definition. *)
LEMMA TextHolds == ASSUME Held, TypeText PROVE (\E r : Edit(r) /\ HeldBy(r) /\ InRangeOf(r)) /\ pasted' = TRUE
<1>1. CASE kind = "form"
  BY <1>1, ReplaceHolds, EditorAssumption DEF TypeText, Held, HeldBy, InRangeOf
<1>2. CASE kind # "form"
  BY <1>2, FlowReplaceHolds, EditorAssumption DEF TypeText, Held, HeldBy, InRangeOf
<1> QED
  BY <1>1, <1>2

-----------------------------------------------------------------------------
(* Every step of the page keeps it well-formed.                            *)

LEMMA SameKind ==
    ASSUME kind' = kind
    PROVE  /\ \A r : HeldBy(r)' <=> HeldBy(r)
           /\ \A d : Typed(d)' <=> Typed(d)
           /\ \A p : IsPlace(p)' <=> IsPlace(p)
BY DEF HeldBy, Typed, IsPlace, ListPlaces

LEMMA EditWellFormed ==
    ASSUME WellFormed, NEW r, Edit(r), HeldBy(r), (kind = "workflow" /\ ~pasted') => FlowRefs(r.def)
    PROVE  WellFormed'
<1>1. /\ editor' = r /\ serverProblems' = {}
      /\ UNCHANGED <<kind, isNew, save, saves, taken, mine, left>>
  BY DEF Edit, Dropped
<1>2. Held'
  BY <1>1 DEF WellFormed, Held, HeldBy
<1>3. Stored'
  BY <1>1 DEF WellFormed, Stored, Typed
<1>4. Shown' /\ Known'
  BY <1>1 DEF Shown, Known, def
<1> QED
  BY <1>2, <1>3, <1>4 DEF WellFormed

LEMMA PanelsWellFormed == ASSUME WellFormed, Panels PROVE WellFormed'
<1>1. Held
  BY DEF WellFormed
<1>2. pasted' = pasted /\ PanelEdit
  BY <1>1, PanelsGoOn
<1>3. PICK r : Edit(r) /\ GoesOn(r)
  BY <1>2 DEF PanelEdit
<1>4. HeldBy(r) /\ ((kind = "workflow" /\ FlowRefs(def)) => FlowRefs(r.def))
  BY <1>3 DEF GoesOn, HeldBy, FormGoesOn, FlowGoesOn, def
<1>5. (kind = "workflow" /\ ~pasted') => FlowRefs(r.def)
  BY <1>2, <1>4 DEF WellFormed, Known
<1> QED
  BY <1>3, <1>4, <1>5, EditWellFormed

LEMMA TextWellFormed == ASSUME WellFormed, TypeText PROVE WellFormed'
<1>1. Held
  BY DEF WellFormed
<1>2. pasted' = TRUE /\ \E r : Edit(r) /\ HeldBy(r) /\ InRangeOf(r)
  BY <1>1, TextHolds
<1>3. PICK r : Edit(r) /\ HeldBy(r)
  BY <1>2
<1> QED
  BY <1>2, <1>3, EditWellFormed

(* Selecting *)
LEMMA PlaceSelects ==
    ASSUME Held, NEW p, IsPlace(p)
    PROVE  /\ HeldBy(Select(p)) /\ Select(p).def = def
           /\ (kind = "form" /\ p # Settings => p.i \in DOMAIN def.fields) => InRangeOf(Select(p))
<1>1. CASE kind = "form"
  <2>1. FormHeld(editor) /\ Select(p) = formSelect(editor, p)
    BY <1>1 DEF Held, HeldBy, Select
  <2>2. (p = Settings \/ p \in FormPlaces) /\ Settings.at = "settings"
    BY <1>1 DEF IsPlace, ListPlaces, Settings, Place
  <2>3. p.at = "fields" => p \in [at : {"fields"}, i : Nat \ {0}]
    BY <2>2 DEF FormPlaces
  <2>4. p \in FormPlaces => p # Settings
    BY <2>2 DEF FormPlaces
  <2>5. /\ FormHeld(formSelect(editor, p)) /\ formSelect(editor, p).def = editor.def
        /\ (p.at = "fields" => p.i \in DOMAIN editor.def.fields) => FieldThere(formSelect(editor, p))
    BY <2>1, <2>3, SelectHolds
  <2> QED
    BY <1>1, <2>1, <2>2, <2>4, <2>5 DEF HeldBy, InRangeOf, def
<1>2. CASE kind # "form"
  <2>1. FlowHeld(editor) /\ Select(p) = workflowSelect(editor, p) /\ (p = Settings \/ p \in FlowPlaces)
    BY <1>2 DEF Held, HeldBy, Select, IsPlace, ListPlaces
  <2> QED
    BY <1>2, <2>1, FlowSelectHolds DEF HeldBy, InRangeOf, def
<1> QED
  BY <1>1, <1>2

LEMMA EntriesArePlaces ==
    ASSUME Held, NEW p \in Entries
    PROVE  IsPlace(p) /\ (kind = "form" /\ p # Settings => p.i \in DOMAIN def.fields)
<1>1. p = Settings \/ \E where \in Lists : p \in {Place(where, i) : i \in DOMAIN ListAt(def, where)}
  BY DEF Entries
<1>2. CASE kind = "form"
  <2>1. def.fields \in Seq(FormFields)
    BY <1>2 DEF Held, HeldBy, FormHeld, IsForm, def
  <2>2. CASE p # Settings
    <3>1. p \in {Place("fields", i) : i \in DOMAIN def.fields}
      BY <1>1, <1>2, <2>2 DEF Lists, ListAt
    <3>2. PICK i \in DOMAIN def.fields : p = Place("fields", i)
      BY <3>1
    <3>3. i \in Nat \ {0}
      BY <2>1, LenProperties
    <3>4. p.i = i /\ p \in FormPlaces
      BY <3>2, <3>3 DEF Place, FormPlaces
    <3> QED
      BY <1>2, <3>4 DEF IsPlace, ListPlaces
  <2> QED
    BY <2>2 DEF IsPlace
<1>3. CASE kind # "form"
  <2>1. def.states \in Seq(States) /\ def.transitions \in Seq(Transitions) /\ def.fields \in Seq(WorkflowFields)
    BY <1>3 DEF Held, HeldBy, FlowHeld, IsWorkflow, def
  <2>2. CASE p # Settings
    <3>1. PICK where \in {"states", "transitions", "fields"} :
                p \in {Place(where, i) : i \in DOMAIN ListAt(def, where)}
      BY <1>1, <1>3, <2>2 DEF Lists
    <3>2. PICK i \in DOMAIN ListAt(def, where) : p = Place(where, i)
      BY <3>1
    <3>3. i \in Nat \ {0}
      <4>1. ListAt(def, where) \in {def.states, def.transitions, def.fields}
        BY DEF ListAt
      <4>2. \A T, list : list \in Seq(T) => DOMAIN list \subseteq Nat \ {0}
        BY LenProperties
      <4> QED
        BY <2>1, <3>2, <4>1, <4>2
    <3>4. p \in FlowPlaces
      BY <3>2, <3>3 DEF Place, FlowPlaces
    <3> QED
      BY <1>3, <3>4 DEF IsPlace, ListPlaces
  <2> QED
    BY <1>3, <2>2 DEF IsPlace
<1> QED
  BY <1>2, <1>3

LEMMA SelectWellFormed == ASSUME WellFormed, SelectEntry \/ SelectProblem PROVE WellFormed'
<1>1. UNCHANGED <<kind, isNew, serverProblems, save, saves, pasted, taken, mine, left>>
  BY DEF SelectEntry, SelectProblem
<1>2. Held /\ kind \in {"form", "workflow"}
  BY DEF WellFormed, Held
<1>3. PICK p : editor' = Select(p) /\ IsPlace(p)
  <2>1. CASE SelectEntry
    BY <1>2, <2>1, EntriesArePlaces DEF SelectEntry
  <2>2. CASE SelectProblem
    <3>1. \A q \in Problems \cup serverProblems : IsPlace(q)
      BY <1>2, TypedWhenHeld, ProblemIsPlace DEF WellFormed, Shown
    <3> QED
      BY <2>2, <3>1 DEF SelectProblem
  <2> QED
    BY <2>1, <2>2
<1>4. HeldBy(editor') /\ editor'.def = def
  BY <1>2, <1>3, PlaceSelects
<1>5. Held'
  BY <1>1, <1>2, <1>4 DEF Held, HeldBy
<1>6. Stored' /\ Shown' /\ Known'
  BY <1>1, <1>4 DEF WellFormed, Stored, Typed, Shown, Known, IsPlace, ListPlaces, def
<1> QED
  BY <1>5, <1>6 DEF WellFormed

(* Saving *)
LEMMA RestWellFormed ==
    ASSUME WellFormed, UNCHANGED <<kind, editor, pasted>>, Stored', Shown'
    PROVE  WellFormed'
BY DEF WellFormed, Held, HeldBy, Known, def

LEMMA OnSaveWellFormed == ASSUME WellFormed, onSave PROVE WellFormed'
<1>1. /\ save' = [phase |-> FirstPhase, def |-> def] /\ saves' = saves + 1 /\ serverProblems' = {}
      /\ UNCHANGED <<kind, isNew, editor, pasted, taken, mine, left>>
  BY DEF onSave, EditingSame
<1>2. save'.phase = FirstPhase /\ save'.def = def /\ FirstPhase \in {"asking", "putting"}
      /\ (FirstPhase = "asking" => isNew)
  BY <1>1 DEF FirstPhase
<1>3. Typed(def)
  BY TypedWhenHeld DEF WellFormed
<1>4. Stored'
  BY <1>1, <1>2, <1>3 DEF WellFormed, Stored, Typed
<1>5. Shown'
  BY <1>1 DEF Shown
<1> QED
  BY <1>1, <1>4, <1>5, RestWellFormed

LEMMA SettingsShown == ASSUME serverProblems' = {Settings} PROVE Shown'
BY DEF Shown, IsPlace

LEMMA AskedWellFormed == ASSUME WellFormed, IInv, Asked PROVE WellFormed'
<1>1. UNCHANGED <<kind, isNew, editor, pasted, saves, taken, mine, left>> /\ save.phase = "asking"
  BY DEF Asked, EditingSame
<1>2. \/ save' = [save EXCEPT !.phase = "idle"] /\ serverProblems' = {Settings}
      \/ save' = [save EXCEPT !.phase = "putting"] /\ serverProblems' = serverProblems
  BY DEF Asked, Ended
<1>3. save'.phase \in {"idle", "putting"} /\ save'.def = save.def
  BY <1>2 DEF IInv, Shapes, Fields
<1>4. Stored'
  BY <1>1, <1>3 DEF WellFormed, Stored, Typed
<1>5. Shown'
  BY <1>1, <1>2, SettingsShown DEF WellFormed, Shown, IsPlace, ListPlaces
<1> QED
  BY <1>1, <1>4, <1>5, RestWellFormed

(* What the server accepts has a good slug. *)
LEMMA AcceptedSlug == ASSUME NEW d, Refusals(d) = {} PROVE d.slug \in GoodSlugs
<1>1. CASE kind = "form"
  <2>1. validate_form(d) = {}
    BY <1>1, AfterTheSchema DEF Refusals
  <2> QED
    BY <2>1, FormProblemsAre DEF FormRefused
<1>2. CASE kind # "form"
  <2>1. validate_workflow(d) = {}
    BY <1>2, AfterTheSchema DEF Refusals
  <2> QED
    BY <2>1, WorkflowProblemsAre DEF FlowRefused
<1> QED
  BY <1>1, <1>2

LEMMA PutWellFormed == ASSUME WellFormed, IInv, Put PROVE WellFormed'
<1>1. /\ UNCHANGED <<kind, isNew, editor, pasted, serverProblems, saves, left>> /\ save.phase = "putting"
      /\ taken' = taken \cup {save.def.slug} /\ mine' = save.def /\ Refusals(save.def) = {}
  BY DEF Put, EditingSame
<1>2. save'.phase \in {"idle", "refreshing"} /\ save'.def = save.def
  BY DEF Put, Ended, IInv, Shapes, Fields
<1>3. save.def.slug \in GoodSlugs
  BY <1>1, AcceptedSlug
<1>4. Stored'
  BY <1>1, <1>2, <1>3 DEF WellFormed, Stored, Typed
<1>5. Shown'
  BY <1>1 DEF WellFormed, Shown, IsPlace, ListPlaces
<1> QED
  BY <1>1, <1>4, <1>5, RestWellFormed

LEMMA EndedWellFormed ==
    ASSUME WellFormed, IInv, save' = Ended, UNCHANGED <<kind, isNew, editor, pasted, saves, taken, mine, left>>, Shown'
    PROVE  WellFormed'
<1>1. save'.phase = "idle"
  BY DEF Ended, IInv, Shapes, Fields
<1>2. Stored'
  BY <1>1 DEF WellFormed, Stored
<1> QED
  BY <1>2, RestWellFormed

LEMMA RefusedWellFormed == ASSUME WellFormed, IInv, Refused \/ Fails PROVE WellFormed'
<1>1. /\ save' = Ended /\ UNCHANGED <<kind, isNew, editor, pasted, saves, taken, mine, left>>
      /\ save.phase # "idle"
  BY DEF Refused, Fails, EditingSame
<1>2. Shown'
  <2>1. CASE Refused
    <3>1. serverProblems' = Refusals(save.def) /\ Typed(save.def) /\ kind \in {"form", "workflow"}
      BY <1>1, <2>1 DEF Refused, WellFormed, Stored, Held
    <3>2. \A p \in Refusals(save.def) : IsPlace(p)
      BY <3>1, ProblemIsPlace
    <3> QED
      BY <1>1, <3>1, <3>2 DEF Shown, IsPlace, ListPlaces
  <2>2. CASE Fails
    BY <1>1, <2>2 DEF Fails, WellFormed, Shown, IsPlace, ListPlaces
  <2> QED
    BY <2>1, <2>2
<1> QED
  BY <1>1, <1>2, EndedWellFormed

LEMMA CloseWellFormed ==
    ASSUME WellFormed, IInv, NEW how \in {"asked", "quiet", "saved", "failed"}, Close(how),
           UNCHANGED <<saves, taken, mine>>
    PROVE  WellFormed'
<1>1. /\ editor' = [def |-> def, sel |-> Settings, dirty |-> FALSE] /\ left' = how
      /\ serverProblems' = {} /\ save' = Ended
      /\ UNCHANGED <<kind, isNew, pasted, saves, taken, mine>>
  BY DEF Close, EditingSame
<1>2. IsEditor(editor') /\ editor'.def = editor.def /\ editor'.sel = Settings
  BY <1>1 DEF IsEditor, def
<1>3. save'.phase = "idle"
  BY <1>1 DEF Ended, IInv, Shapes, Fields
<1>4. Held'
  BY <1>1, <1>2 DEF WellFormed, Held, HeldBy, FormHeld, FlowHeld
<1>5. Stored'
  BY <1>1, <1>3 DEF WellFormed, Stored
<1>6. Shown' /\ Known'
  BY <1>1, <1>2 DEF WellFormed, Shown, Known, def
<1> QED
  BY <1>4, <1>5, <1>6 DEF WellFormed

LEMMA LeavingWellFormed == ASSUME WellFormed, IInv, Saved \/ Leave PROVE WellFormed'
<1>1. PICK how \in {"asked", "quiet", "saved", "failed"} : Close(how) /\ UNCHANGED <<saves, taken, mine>>
  BY DEF Saved, Leave
<1> QED
  BY <1>1, CloseWellFormed

LEMMA OthersWellFormed == ASSUME WellFormed, OthersCreate PROVE WellFormed'
<1>1. /\ UNCHANGED <<kind, isNew, editor, pasted, serverProblems, save, saves, mine, left>>
      /\ \E s \in GoodSlugs : taken' = taken \cup {s}
  BY DEF OthersCreate, EditingSame
<1>2. Stored'
  BY <1>1 DEF WellFormed, Stored, Typed
<1>3. Shown'
  BY <1>1 DEF WellFormed, Shown, IsPlace, ListPlaces
<1> QED
  BY <1>1, <1>2, <1>3, RestWellFormed

LEMMA IdleWellFormed == ASSUME WellFormed, UNCHANGED pageVars PROVE WellFormed'
<1>1. UNCHANGED <<kind, isNew, editor, pasted, serverProblems, save, saves, taken, mine, left>>
  BY DEF pageVars
<1>2. Stored' /\ Shown'
  BY <1>1 DEF WellFormed, Stored, Typed, Shown, IsPlace, ListPlaces
<1> QED
  BY <1>1, <1>2, RestWellFormed

LEMMA StepsAre ==
    ASSUME [Next]_pageVars
    PROVE  \/ Panels \/ TypeText \/ SelectEntry \/ SelectProblem
           \/ onSave \/ Asked \/ Put \/ Refused \/ Fails \/ Saved \/ Leave \/ OthersCreate \/ UNCHANGED pageVars
BY DEF Next, Panels

LEMMA NextWellFormed == IInv /\ WellFormed /\ [Next]_pageVars => WellFormed'
<1> SUFFICES ASSUME IInv, WellFormed, [Next]_pageVars PROVE WellFormed'
  OBVIOUS
<1> QED
  BY StepsAre, PanelsWellFormed, TextWellFormed, SelectWellFormed, OnSaveWellFormed, AskedWellFormed,
     PutWellFormed, RefusedWellFormed, LeavingWellFormed, OthersWellFormed, IdleWellFormed

LEMMA PageStaysWellFormed == Spec => []WellFormed
BY PageInvariance, InitWellFormed, NextWellFormed, PTL DEF Spec

-----------------------------------------------------------------------------
(* The editor and the server agree on every definition the page can show:  *)
(* what validation.ts lets through the server refuses only for one of its  *)
(* own rules, which ServerOnly lists, and what validation.ts blocks the    *)
(* server refuses too, but for the rules that EditorOnly lists and as long *)
(* as the schema is satisfied (parse.py, validate_form.py,                 *)
(* validate_workflow.py).                                                  *)
THEOREM EditorsAgreeWithServer == Spec => []RulesAgree
<1>1. WellFormed => RulesAgree
  <2> SUFFICES ASSUME WellFormed PROVE RulesAgree
    OBVIOUS
  <2>1. Typed(def)
    BY TypedWhenHeld DEF WellFormed
  <2>2. CASE kind = "form"
    BY <2>1, <2>2, FormRulesAgree DEF Typed, RulesAgree, ServerOnly, EditorOnly, SchemaProblems, Problems, Refusals
  <2>3. CASE kind # "form"
    <3>1. IsWorkflow(def) /\ Refusals(def) = parse_workflow(def) /\ Problems = validateWorkflow(def)
          /\ SchemaProblems = workflowSchemaProblems(def)
      BY <2>1, <2>3 DEF Typed, Problems, Refusals, SchemaProblems
    <3>2. \A p : (FlowServerOnly(def, p) => ServerOnly(p)) /\ (FlowEditorOnly(def, p) => EditorOnly(p))
      BY <2>3 DEF FlowServerOnly, ServerOnly, FlowEditorOnly, EditorOnly
    <3> QED
      BY <3>1, <3>2, WorkflowRulesAgree DEF RulesAgree
  <2> QED
    BY <2>2, <2>3
<1> QED
  BY <1>1, PageStaysWellFormed, PTL

LEMMA ShapeKept == ASSUME IInv, WellFormed PROVE PageTypeOK
<1>1. editor.dirty \in BOOLEAN
  BY DEF IInv, Shapes
<1>2. IF kind = "form" THEN IsForm(def) ELSE IsWorkflow(def)
  BY TypedWhenHeld DEF WellFormed, Typed
<1>3. sel = Settings \/ sel \in [at : Lists, i : Nat \ {0}]
  BY DEF WellFormed, Held, HeldBy, FormHeld, FlowHeld, FlowPlaces, Lists, sel
<1> QED
  BY <1>1, <1>2, <1>3 DEF PageTypeOK, WellFormed, Stored

LEMMA RefsAre ==
    ASSUME kind \in {"form", "workflow"}
    PROVE  NoneDangling <=> IF kind = "form" THEN FormRefs(def.fields) ELSE FlowRefs(def)
<1>1. CASE kind = "form"
  BY <1>1 DEF NoneDangling, FormRefs
<1>2. CASE kind # "form"
  BY <1>2 DEF NoneDangling, FlowRefs, Refs
<1> QED
  BY <1>1, <1>2

LEMMA RenamesMean == ASSUME WellFormed PROVE RenameKeepsMeaning
<1> SUFFICES ASSUME NoneDangling, NEW k \in NewKeys, Free(k)
             PROVE  IF kind = "form"
                    THEN \A i \in DOMAIN def.fields :
                            Controllers(formRenameField(editor, i, k).def.fields)
                            = {c \in Controllers(def.fields) :
                                    c[2] = i => c[1] # i /\ Count(def.fields, def.fields[i].key) = 1}
                    ELSE /\ \A i \in DOMAIN def.states :
                            LET new == renameState(editor, i, k).def
                                Left(S) == IF Count(def.states, def.states[i].key) = 1 THEN S ELSE Without(S, i)
                            IN  /\ Edges(new) = {[e EXCEPT !.from = Left(@), !.to = Left(@)] : e \in Edges(def)}
                                /\ Positions(new.states, new.initial) = Left(Positions(def.states, def.initial))
                         /\ \A i \in DOMAIN def.fields :
                            LET Left(S) == IF Count(def.fields, def.fields[i].key) = 1 THEN S ELSE Without(S, i)
                            IN  Edges(renameField(editor, i, k).def) = {[e EXCEPT !.needs = Left(@)] : e \in Edges(def)}
  BY DEF RenameKeepsMeaning
<1>1. k \in Nat
  BY EditorAssumption
<1>2. CASE kind = "form"
  <2>1. FormHeld(editor)
    BY <1>2 DEF WellFormed, Held, HeldBy
  <2>2. k \notin KeysOf(def.fields) /\ \A j \in DOMAIN def.fields : def.fields[j].showIf.field # k
    BY <1>2 DEF Free, Mentioned
  <2> QED
    BY <1>1, <1>2, <2>1, <2>2, FormRenameMeans DEF def
<1>3. CASE kind # "form"
  <2>1. FlowHeld(editor) /\ FlowRefs(def)
    BY <1>3, RefsAre DEF WellFormed, Held, HeldBy
  <2>2. k \notin KeysOf(def.fields) /\ k \notin KeysOf(def.states)
    BY <1>3 DEF Free, Mentioned
  <2>3. ASSUME NEW i \in DOMAIN def.states, NEW new, new = renameState(editor, i, k).def
        PROVE  /\ Edges(new) = {Ends(x, Stay(def.states, i, x.from), Stay(def.states, i, x.to)) : x \in Edges(def)}
               /\ Positions(new.states, new.initial) = Stay(def.states, i, Positions(def.states, def.initial))
    BY <1>1, <2>1, <2>2, <2>3, RenameStateMeans DEF def
  <2>4. ASSUME NEW i \in DOMAIN def.fields
        PROVE  Edges(renameField(editor, i, k).def)
               = {Needing(x, Stay(def.fields, i, x.needs)) : x \in Edges(def)}
    BY <1>1, <2>1, <2>2, RenameFlowFieldMeans DEF def
  <2> QED
    BY <1>3, <2>3, <2>4 DEF Ends, Needing, Stay
<1> QED
  BY <1>2, <1>3

LEMMA RemovalsKeep == ASSUME WellFormed PROVE RemovalKeepsRest
<1> SUFFICES ASSUME NoneDangling
             PROVE  IF kind = "form"
                    THEN \A i \in DOMAIN def.fields :
                            LET Moved(j) == IF j > i THEN j - 1 ELSE j
                            IN  Controllers(formRemoveField(editor, i).def.fields)
                                = {<<Moved(c[1]), Moved(c[2])>> : c \in {d \in Controllers(def.fields) : i \notin {d[1], d[2]}}}
                    ELSE /\ \A i \in DOMAIN def.states :
                            LET Stays(e) == \/ Count(def.states, def.states[i].key) > 1
                                            \/ Without(e.from, i) # {} /\ Without(e.to, i) # {}
                            IN  Edges(removeState(editor, i).def)
                                = {[e EXCEPT !.from = Shift(@, i), !.to = Shift(@, i)] : e \in {d \in Edges(def) : Stays(d)}}
                         /\ \A i \in DOMAIN def.fields :
                            Edges(removeField(editor, i).def) = {[e EXCEPT !.needs = Shift(@, i)] : e \in Edges(def)}
  BY DEF RemovalKeepsRest
<1>1. CASE kind = "form"
  <2>1. FormHeld(editor)
    BY <1>1 DEF WellFormed, Held, HeldBy
  <2> QED
    BY <1>1, <2>1, FormRemovalMeans DEF def, Down
<1>2. CASE kind # "form"
  <2>1. FlowHeld(editor) /\ FlowRefs(def)
    BY <1>2, RefsAre DEF WellFormed, Held, HeldBy
  <2>2. ASSUME NEW i \in DOMAIN def.states
        PROVE  Edges(removeState(editor, i).def)
               = {Ends(x, Shift(x.from, i), Shift(x.to, i)) :
                    x \in {d \in Edges(def) : \/ Count(def.states, def.states[i].key) > 1
                                              \/ Without(d.from, i) # {} /\ Without(d.to, i) # {}}}
    BY <2>1, RemoveStateMeans DEF def
  <2>3. ASSUME NEW i \in DOMAIN def.fields
        PROVE  Edges(removeField(editor, i).def) = {Needing(x, Shift(x.needs, i)) : x \in Edges(def)}
    BY <2>1, RemoveFlowFieldMeans DEF def
  <2> QED
    BY <1>2, <2>2, <2>3 DEF Ends, Needing
<1> QED
  BY <1>1, <1>2

LEMMA ReordersMean == ASSUME WellFormed PROVE ReorderKeepsMeaning
<1> SUFFICES ASSUME kind = "form", NoneDangling, NEW i \in DOMAIN def.fields
             PROVE  LET now == Controllers(def.fields)
                        Moved(j) == IF j > i THEN j + 1 ELSE j
                    IN  /\ Controllers(duplicateField(editor, i).def.fields)
                           = {<<Moved(c[1]), Moved(c[2])>> : c \in now}
                             \cup {<<i + 1, Moved(c[2])>> : c \in {d \in now : d[1] = i}}
                        /\ \A j \in DOMAIN def.fields :
                            Controllers(moveField(editor, i, j).def.fields)
                            = {<<Trade(c[1], i, j), Trade(c[2], i, j)>> : c \in now}
  BY DEF ReorderKeepsMeaning, Trade
<1>1. FormHeld(editor) /\ FormRefs(def.fields)
  BY RefsAre DEF WellFormed, Held, HeldBy
<1>2. \A j \in DOMAIN def.fields :
        Controllers(moveField(editor, i, j).def.fields)
        = {<<Trade(c[1], i, j), Trade(c[2], i, j)>> : c \in Controllers(def.fields)}
  BY <1>1, MoveMeans DEF def
<1>3. Controllers(duplicateField(editor, i).def.fields)
      = {<<Lift(c[1], i), Lift(c[2], i)>> : c \in Controllers(def.fields)}
        \cup {<<i + 1, Lift(c[2], i)>> : c \in {d \in Controllers(def.fields) : d[1] = i}}
  BY <1>1, DuplicateMeans DEF def
<1> QED
  BY <1>2, <1>3 DEF Lift

LEMMA SelectionKept == ASSUME WellFormed PROVE SelectionFollows
<1> SUFFICES ASSUME kind = "form", sel # Settings, InRange
             PROVE  \A i \in DOMAIN def.fields :
                        /\ i # sel.i => KeyOfSel(formRemoveField(editor, i)) = KeyOfSel(editor)
                        /\ \A j \in DOMAIN def.fields : KeyOfSel(moveField(editor, i, j)) = KeyOfSel(editor)
  BY DEF SelectionFollows, KeyOfSel
<1>1. FormHeld(editor)
  BY DEF WellFormed, Held, HeldBy
<1>2. sel.at = "fields" /\ sel.i \in DOMAIN def.fields
  BY <1>1 DEF FormHeld, InRange, ListAt, sel
<1> QED
  BY <1>1, <1>2, RemovalKeepsSelected, MoveKeepsSelected DEF sel, def

(* In any definition whose references are known, pasted ones included:     *)
(* renaming, deleting, moving or copying one field or state leaves every   *)
(* other condition and transition with the fields and states it had, the   *)
(* transitions without a source excepted, which removing any state with a  *)
(* key of its own deletes; and moving or deleting other fields keeps the   *)
(* selected one selected (formReducer.ts:128-171,                          *)
(* workflowReducer.ts:186-215, 264-291).                                   *)
THEOREM EditsMeanTheSame == Spec => []EditsKeepMeaning
<1>1. IInv /\ WellFormed => EditsKeepMeaning
  BY ShapeKept, RenamesMean, RemovalsKeep, ReordersMean, SelectionKept DEF EditsKeepMeaning
<1> QED
  BY <1>1, PageInvariance, PageStaysWellFormed, PTL

-----------------------------------------------------------------------------

(* A step selects nothing that is not there, and refers to nothing. *)

Chosen(r) == r.sel = Settings \/ r.sel.i \in DOMAIN ListAt(r.def, r.sel.at)

LEMMA RangeIs == ASSUME NEW r, HeldBy(r) PROVE Chosen(r) <=> InRangeOf(r)
<1>1. CASE kind = "form"
  <2>1. r.sel = Settings \/ r.sel.at = "fields"
    BY <1>1 DEF HeldBy, FormHeld
  <2> QED
    BY <1>1, <2>1 DEF Chosen, InRangeOf, FieldThere, ListAt
<1>2. CASE kind # "form"
  <2>1. r.sel = Settings \/ r.sel \in FlowPlaces
    BY <1>2 DEF HeldBy, FlowHeld
  <2>2. CASE r.sel = Settings
    BY <1>2, <2>2 DEF Chosen, InRangeOf, FlowThere, There
  <2>3. CASE r.sel # Settings
    <3>1. r.sel.at \in {"states", "transitions", "fields"}
      BY <2>1, <2>3 DEF FlowPlaces
    <3> QED
      BY <1>2, <2>3, <3>1 DEF Chosen, InRangeOf, FlowThere, There, ListAt
  <2> QED
    BY <2>2, <2>3
<1> QED
  BY <1>1, <1>2

LEMMA RefsStay ==
    ASSUME IInv, WellFormed, WellFormed', [Next]_pageVars, ~pasted', NoneDangling, ~RenamedOnItself
    PROVE  NoneDangling'
<1>1. Held /\ Held' /\ kind \in {"form", "workflow"}
  BY DEF WellFormed, Held
<1>2. kind' = kind
  BY DEF Next, pageVars, EditMeta, ListFields, InspectField, Outline, InspectState, InspectTransition,
         InspectWorkflowField, EditActions, TypeText, Edit, SelectEntry, SelectProblem, onSave, Asked, Put,
         Refused, Fails, Saved, Leave, Close, OthersCreate, EditingSame
<1>3. CASE kind # "form"
  <2>1. FlowRefs(def')
    BY <1>1, <1>2, <1>3 DEF WellFormed, Known
  <2> QED
    BY <1>1, <1>2, <1>3, <2>1 DEF NoneDangling, FlowRefs, Refs
<1>4. CASE kind = "form"
  <2>1. FormRefs(def.fields)
    BY <1>1, <1>4, RefsAre
  <2>2. CASE Panels
    <3>1. PICK r : Edit(r) /\ GoesOn(r)
      BY <1>1, <2>2, PanelsGoOn DEF PanelEdit
    <3>2. editor' = r /\ ~SelfRenamed(editor, r)
      BY <1>4, <3>1 DEF Edit, SelfRenamed, RenamedOnItself, sel, def
    <3>3. FormRefs(r.def.fields)
      BY <1>4, <2>1, <3>1, <3>2 DEF GoesOn, FormGoesOn, def
    <3> QED
      BY <1>2, <1>4, <3>2, <3>3 DEF NoneDangling, FormRefs, def
  <2>3. CASE def' = def
    BY <1>2, <1>4, <2>1, <2>3 DEF NoneDangling, FormRefs
  <2>4. ~TypeText
    BY DEF TypeText
  <2>5. ASSUME SelectEntry \/ SelectProblem PROVE def' = def
    <3>1. PICK p : editor' = formSelect(editor, p)
      BY <1>4, <2>5 DEF SelectEntry, SelectProblem, Select
    <3>2. DOMAIN editor = {"def", "sel", "dirty"}
      BY <1>1, <1>4 DEF Held, HeldBy, FormHeld, IsEditor
    <3> QED
      BY <3>1, <3>2 DEF formSelect, def
  <2>6. ASSUME onSave \/ Asked \/ Put \/ Refused \/ Fails \/ OthersCreate \/ UNCHANGED pageVars PROVE def' = def
    BY <2>6 DEF onSave, Asked, Put, Refused, Fails, OthersCreate, pageVars, def
  <2>7. ASSUME Saved \/ Leave PROVE def' = def
    BY <2>7 DEF Saved, Leave, Close, def
  <2> QED
    BY <2>2, <2>3, <2>4, <2>5, <2>6, <2>7, StepsAre
<1> QED
  BY <1>3, <1>4

LEMMA SelectionStaysThere ==
    ASSUME IInv, WellFormed, WellFormed', [Next]_pageVars, InRange, ~(meanwhile /\ serverProblems # {})
    PROVE  InRange'
<1>1. Held /\ Held' /\ kind \in {"form", "workflow"}
  BY DEF WellFormed, Held
<1>2. InRangeOf(editor)
  BY <1>1, RangeIs DEF Held, InRange, Chosen, sel, def
<1>3. ASSUME NEW r, editor' = r, InRangeOf(r), kind' = kind PROVE InRange'
  <2>1. HeldBy(r)
    BY <1>1, <1>3 DEF Held, HeldBy
  <2>2. Chosen(r)
    BY <1>3, <2>1, RangeIs
  <2> QED
    BY <1>3, <2>2 DEF InRange, Chosen, sel, def
<1>4. CASE Panels
  <2>1. PICK r : Edit(r) /\ GoesOn(r)
    BY <1>1, <1>4, PanelsGoOn DEF PanelEdit
  <2>2. editor' = r /\ kind' = kind /\ InRangeOf(r)
    BY <1>2, <2>1 DEF Edit, GoesOn, FormGoesOn, FlowGoesOn, InRangeOf
  <2> QED
    BY <1>3, <2>2
<1>5. CASE TypeText
  <2>1. PICK r : Edit(r) /\ InRangeOf(r)
    BY <1>1, <1>5, TextHolds
  <2>2. editor' = r /\ kind' = kind
    BY <2>1 DEF Edit
  <2> QED
    BY <1>3, <2>1, <2>2
<1>6. CASE SelectEntry
  <2>1. PICK p \in Entries : editor' = Select(p) /\ kind' = kind
    BY <1>6 DEF SelectEntry
  <2>2. InRangeOf(Select(p))
    BY <1>1, <2>1, EntriesArePlaces, PlaceSelects
  <2> QED
    BY <1>3, <2>1, <2>2
<1>7. CASE SelectProblem
  <2>1. PICK p \in Problems \cup serverProblems : editor' = Select(p) /\ kind' = kind
    BY <1>7 DEF SelectProblem
  <2>2. serverProblems \subseteq Refusals(def) \cup {Settings}
    BY DEF IInv, SaveMatchesPage, ProblemsOfThis
  <2>3. p \in Problems \cup Refusals(def) \cup {Settings}
    BY <2>1, <2>2
  <2>4. Typed(def)
    BY <1>1, TypedWhenHeld
  <2>5. IsPlace(p)
    BY <1>1, <2>3, <2>4, ProblemIsPlace DEF IsPlace
  <2>6. (kind = "form" /\ p # Settings) => p.i \in DOMAIN def.fields
    BY <2>3, <2>4, FormProblemPlaces DEF Typed, Problems, Refusals
  <2>7. InRangeOf(Select(p))
    BY <1>1, <2>5, <2>6, PlaceSelects
  <2> QED
    BY <1>3, <2>1, <2>7
<1>8. ASSUME onSave \/ Asked \/ Put \/ Refused \/ Fails \/ OthersCreate \/ UNCHANGED pageVars
      PROVE  editor' = editor /\ kind' = kind
  BY <1>8 DEF onSave, Asked, Put, Refused, Fails, OthersCreate, EditingSame, pageVars
<1>9. ASSUME Saved \/ Leave PROVE InRange'
  <2>1. editor' = [def |-> def, sel |-> Settings, dirty |-> FALSE]
    BY <1>9 DEF Saved, Leave, Close
  <2>2. sel' = Settings
    BY <2>1 DEF sel
  <2> QED
    BY <2>2 DEF InRange
<1> QED
  BY <1>2, <1>3, <1>4, <1>5, <1>6, <1>7, <1>8, <1>9, StepsAre

(* No edit in the panels leaves a reference to nothing, but for renaming a *)
(* field with a condition on itself, and no step but following a problem   *)
(* of an older definition selects what is not there                        *)
(* (formReducer.ts:139-152, workflowReducer.ts:100-105, 201-215).          *)
THEOREM NothingComesToDangle == Spec => NothingDangles
<1>1. IInv /\ WellFormed /\ WellFormed' /\ [Next]_pageVars
      => [(~pasted' /\ NoneDangling /\ ~RenamedOnItself) => NoneDangling']_pageVars
  BY RefsStay
<1>2. IInv /\ WellFormed /\ WellFormed' /\ [Next]_pageVars
      => [(InRange /\ ~(meanwhile /\ serverProblems # {})) => InRange']_pageVars
  BY SelectionStaysThere
<1> QED
  BY <1>1, <1>2, PageInvariance, PageStaysWellFormed, PTL DEF Spec, NothingDangles, KnownRefs, SelectionStays
=============================================================================
