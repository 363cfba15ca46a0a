------------------------------ MODULE FormProofs -----------------------------
(***************************************************************************)
(* Proofs about forms: the rules of browser and server (FormRules,         *)
(* ServerRules), answering a form (FormAnswers), one mounted form          *)
(* (FormHook) and the page it is embedded in (EmbedPage); for any forms    *)
(* that validate_form lets through, any slugs and inputs and any number of *)
(* changes and submissions.                                                *)
(*                                                                         *)
(* The rules: a walk over the fields finds of every field what its own     *)
(* answer and the fields before it make of it (Finds), and the server's    *)
(* walk finds the same (Alike), because both judge one value alike.        *)
(*                                                                         *)
(* The page: an iframe is there only after the one listener (Order), and   *)
(* for a container that was not taken away the events it got, followed by  *)
(* the submissions still under way, are those its form confirmed (Heard).  *)
(***************************************************************************)
EXTENDS EmbedPage, FormAnswers, DataInduction, FiniteSetTheorems, TLAPS

(* ------------------------- The walk over the fields ------------------- *)

(* walk[i] is what Evaluate has found after i fields. *)
Walks(walk, f, d) ==
    /\ walk[0] = NothingYet
    /\ \A i \in 1..Len(f.fields) : walk[i] = Walked(f.fields, i, walk[i - 1], d)
    /\ Evaluate(f, d) = walk[Len(f.fields)]

(* The recursion that defines Evaluate has a solution. *)
LEMMA EvaluateWalks ==
    ASSUME NEW f, NEW d, Len(f.fields) \in Nat
    PROVE  \E walk : Walks(walk, f, d)
<1>1. PICK N \in Nat : N = Len(f.fields)
  OBVIOUS
<1>2. PICK fields : fields = f.fields
  OBVIOUS
<1> DEFINE Upto(n, g) == g[0] = NothingYet /\ \A i \in 1..n : g[i] = Walked(fields, i, g[i - 1], d)
<1>a. PICK A : A = {n \in 0..N : \E g : Upto(n, g)}
  OBVIOUS
<1>3. 0 \in A
  <2> DEFINE g == [i \in 0..N |-> NothingYet]
  <2>1. g[0] = NothingYet /\ 1..0 = {}
    OBVIOUS
  <2> HIDE DEF g
  <2> QED
    BY <2>1, <1>a
<1>4. ASSUME NEW n \in 0..N, n \in A, n < N PROVE n + 1 \in A
  <2>1. PICK g : Upto(n, g)
    BY <1>4, <1>a
  <2>2. PICK v : v = Walked(fields, n + 1, g[n], d)
    OBVIOUS
  <2> DEFINE h == [i \in 0..N |-> IF i = n + 1 THEN v ELSE g[i]]
  <2>3. h[n + 1] = v /\ (\A i \in 0..n : h[i] = g[i]) /\ n + 1 \in 0..N
    BY <1>4
  <2> HIDE DEF h
  <2>4. \A i \in 1..(n + 1) : h[i] = Walked(fields, i, h[i - 1], d)
    <3> SUFFICES ASSUME NEW i \in 1..(n + 1) PROVE h[i] = Walked(fields, i, h[i - 1], d)
      OBVIOUS
    <3>1. h[i - 1] = g[i - 1]
      BY <2>3
    <3>2. CASE i = n + 1
      BY <2>2, <2>3, <3>1, <3>2
    <3>3. CASE i # n + 1
      BY <2>1, <2>3, <3>1, <3>3
    <3> QED
      BY <3>2, <3>3
  <2> QED
    BY <2>1, <2>3, <2>4, <1>a
<1>5. N \in A
  <2> HIDE DEF Upto
  <2>1. \A i \in 0..N : i \in A /\ i < N => i + 1 \in A
    BY <1>4
  <2>2. \A i \in 0..N : i \in A
    BY <2>1, <1>1, <1>3, IntervalInduction
  <2> QED
    BY <2>2, <1>1
<1>6. PICK g : Upto(N, g)
  BY <1>5, <1>a
<1>7. \E walk : walk = [i \in 0..N |-> IF i = 0 THEN NothingYet ELSE Walked(fields, i, walk[i - 1], d)]
  <2> DEFINE h == [i \in 0..N |-> g[i]]
  <2>1. \A i \in 0..N : h[i] = g[i]
    OBVIOUS
  <2>2. h = [i \in 0..N |-> h[i]]
    OBVIOUS
  <2> HIDE DEF h
  <2>3. ASSUME NEW i \in 0..N
        PROVE  h[i] = IF i = 0 THEN NothingYet ELSE Walked(fields, i, h[i - 1], d)
    <3>1. CASE i = 0
      BY <1>6, <2>1, <3>1
    <3>2. CASE i # 0
      <4>1. i \in 1..N /\ i - 1 \in 0..N
        BY <3>2
      <4> QED
        BY <1>6, <2>1, <3>2, <4>1
    <3> QED
      BY <3>1, <3>2
  <2>4. h = [i \in 0..N |-> IF i = 0 THEN NothingYet ELSE Walked(fields, i, h[i - 1], d)]
    BY <2>2, <2>3, Zenon
  <2> QED
    BY <2>4, Zenon
<1>8. \E walk : /\ walk = [i \in 0..N |-> IF i = 0 THEN NothingYet ELSE Walked(fields, i, walk[i - 1], d)]
                /\ Evaluate(f, d) = walk[N]
  BY <1>1, <1>2, <1>7 DEF Evaluate
<1>9. PICK walk : /\ walk = [i \in 0..N |-> IF i = 0 THEN NothingYet ELSE Walked(fields, i, walk[i - 1], d)]
                  /\ Evaluate(f, d) = walk[N]
  BY <1>8
<1>10. walk[0] = NothingYet
  BY <1>9
<1>11. ASSUME NEW i \in 1..N PROVE walk[i] = Walked(fields, i, walk[i - 1], d)
  <2>1. i \in 0..N /\ i # 0
    OBVIOUS
  <2>2. walk[i] = IF i = 0 THEN NothingYet ELSE Walked(fields, i, walk[i - 1], d)
    BY <1>9, <2>1, Zenon
  <2> QED
    BY <2>1, <2>2
<1> QED
  BY <1>1, <1>2, <1>9, <1>10, <1>11 DEF Walks

(* What the walk finds of field j. *)
Res(f, d, j) == checkValue(f.fields[j], Answer(d, f.fields[j].key))
Err(f, d, j) == ErrorOf(f.fields[j], Res(f, d, j))
Vis(f, d, walk, j) == Shown(f.fields, j, walk[j - 1], d)
Sent(f, d, walk, j) == Vis(f, d, walk, j) /\ Err(f, d, j) = NoError /\ Res(f, d, j).provided
Bad(f, d, walk, j) == Vis(f, d, walk, j) /\ Err(f, d, j) # NoError
Said(f, d, j) == Problem(f.fields[j].key, Err(f, d, j))

(* w has what was found of the first i fields, and nothing else. *)
Finds(w, f, d, walk, i) ==
    /\ DOMAIN w.shown = {f.fields[j].key : j \in 1..i}
    /\ \A j \in 1..i : w.shown[f.fields[j].key] = Vis(f, d, walk, j)
    /\ \A k : k \in DOMAIN w.clean <=> \E j \in 1..i : k = f.fields[j].key /\ Sent(f, d, walk, j)
    /\ \A j \in 1..i : Sent(f, d, walk, j) => w.clean[f.fields[j].key] = Res(f, d, j).value
    /\ w.problems \in Seq({Said(f, d, j) : j \in 1..Len(f.fields)})
    /\ \A n \in 1..Len(w.problems) : \E j \in 1..i : Bad(f, d, walk, j) /\ w.problems[n] = Said(f, d, j)
    /\ \A j \in 1..i : Bad(f, d, walk, j) => \E n \in 1..Len(w.problems) : w.problems[n] = Said(f, d, j)

(* A form whose fields have different keys. *)
Keyed(f) ==
    /\ Len(f.fields) \in Nat
    /\ \A i, j \in 1..Len(f.fields) : f.fields[i].key = f.fields[j].key => i = j

LEMMA WalkStep ==
    ASSUME NEW f, NEW d, NEW walk, Keyed(f), NEW n \in Nat, n + 1 <= Len(f.fields),
           NEW w, Finds(w, f, d, walk, n), w = walk[n]
    PROVE  Finds(Walked(f.fields, n + 1, w, d), f, d, walk, n + 1)
<1>1. PICK m : m = n + 1
  OBVIOUS
<1>2. PICK k : k = f.fields[m].key
  OBVIOUS
<1>3. PICK vis : vis = Vis(f, d, walk, m)
  OBVIOUS
<1>4. PICK res : res = Res(f, d, m)
  OBVIOUS
<1>5. PICK err : err = Err(f, d, m)
  OBVIOUS
<1>6. PICK x : x = Walked(f.fields, m, w, d)
  OBVIOUS
<1>7. /\ x.shown = With(w.shown, k, vis)
      /\ x.clean = IF vis /\ err = NoError /\ res.provided THEN With(w.clean, k, res.value) ELSE w.clean
      /\ x.problems = IF vis /\ err # NoError THEN Append(w.problems, Problem(k, err)) ELSE w.problems
  <2>1. m - 1 = n
    BY <1>1
  <2> QED
    BY <2>1, <1>2, <1>3, <1>4, <1>5, <1>6 DEF Walked, Vis, Res, Err
<1>8. m \in 1..Len(f.fields) /\ 1..m = (1..n) \cup {m} /\ m \notin 1..n
  BY <1>1 DEF Keyed
<1>9. \A j \in 1..n : f.fields[j].key # k
  <2>1. \A j \in 1..n : j \in 1..Len(f.fields)
    BY <1>1 DEF Keyed
  <2> QED
    BY <2>1, <1>2, <1>8 DEF Keyed
<1>10. /\ DOMAIN x.shown = {f.fields[j].key : j \in 1..m}
       /\ \A j \in 1..m : x.shown[f.fields[j].key] = Vis(f, d, walk, j)
  <2>1. DOMAIN w.shown = {f.fields[j].key : j \in 1..n}
    BY DEF Finds
  <2>2. \A j \in 1..n : w.shown[f.fields[j].key] = Vis(f, d, walk, j)
    BY DEF Finds
  <2>3. /\ DOMAIN x.shown = DOMAIN w.shown \cup {k} /\ x.shown[k] = vis
        /\ \A y \in DOMAIN w.shown : y # k => x.shown[y] = w.shown[y]
    <3>1. PICK g : g = w.shown
      OBVIOUS
    <3>2. PICK h : h = x.shown
      OBVIOUS
    <3>3. h = With(g, k, vis)
      BY <1>7, <3>1, <3>2
    <3>4. DOMAIN h = DOMAIN g \cup {k} /\ h[k] = vis /\ \A y \in DOMAIN g : y # k => h[y] = g[y]
      BY <3>3 DEF With
    <3> QED
      BY <3>1, <3>2, <3>4
  <2>4. DOMAIN x.shown = {f.fields[j].key : j \in 1..m}
    BY <2>1, <2>3, <1>2, <1>8
  <2>5. ASSUME NEW j \in 1..m PROVE x.shown[f.fields[j].key] = Vis(f, d, walk, j)
    <3>1. CASE j = m
      BY <3>1, <2>3, <1>2, <1>3
    <3>2. CASE j # m
      BY <3>2, <2>1, <2>2, <2>3, <1>8, <1>9
    <3> QED
      BY <3>1, <3>2
  <2> QED
    BY <2>4, <2>5
<1>11. Sent(f, d, walk, m) <=> vis /\ err = NoError /\ res.provided
  BY <1>3, <1>4, <1>5 DEF Sent
<1>12. /\ \A y : y \in DOMAIN x.clean <=> \E j \in 1..m : y = f.fields[j].key /\ Sent(f, d, walk, j)
       /\ \A j \in 1..m : Sent(f, d, walk, j) => x.clean[f.fields[j].key] = Res(f, d, j).value
  <2>1. /\ \A y : y \in DOMAIN w.clean <=> \E j \in 1..n : y = f.fields[j].key /\ Sent(f, d, walk, j)
        /\ \A j \in 1..n : Sent(f, d, walk, j) => w.clean[f.fields[j].key] = Res(f, d, j).value
    BY DEF Finds
  <2>2. CASE Sent(f, d, walk, m)
    <3>1. /\ DOMAIN x.clean = DOMAIN w.clean \cup {k} /\ x.clean[k] = res.value
          /\ \A y \in DOMAIN w.clean : y # k => x.clean[y] = w.clean[y]
      <4>1. PICK g : g = w.clean
        OBVIOUS
      <4>2. PICK h : h = x.clean
        OBVIOUS
      <4>3. PICK v : v = res.value
        OBVIOUS
      <4>4. h = With(g, k, v)
        BY <1>7, <1>11, <2>2, <4>1, <4>2, <4>3
      <4>5. DOMAIN h = DOMAIN g \cup {k} /\ h[k] = v /\ \A y \in DOMAIN g : y # k => h[y] = g[y]
        BY <4>4 DEF With
      <4> QED
        BY <4>1, <4>2, <4>3, <4>5
    <3>2. \A y : y \in DOMAIN x.clean <=> \E j \in 1..m : y = f.fields[j].key /\ Sent(f, d, walk, j)
      BY <3>1, <2>1, <2>2, <1>2, <1>8
    <3>3. ASSUME NEW j \in 1..m, Sent(f, d, walk, j) PROVE x.clean[f.fields[j].key] = Res(f, d, j).value
      <4>1. CASE j = m
        BY <4>1, <3>1, <1>2, <1>4
      <4>2. CASE j # m
        <5>1. j \in 1..n /\ f.fields[j].key \in DOMAIN w.clean
          BY <4>2, <1>8, <2>1, <3>3
        <5> QED
          BY <5>1, <3>1, <3>3, <2>1, <1>9
      <4> QED
        BY <4>1, <4>2
    <3> QED
      BY <3>2, <3>3
  <2>3. CASE ~Sent(f, d, walk, m)
    <3>1. x.clean = w.clean
      BY <1>7, <1>11, <2>3
    <3>2. \A j \in 1..m : Sent(f, d, walk, j) => j \in 1..n
      BY <1>8, <2>3
    <3> QED
      BY <3>1, <3>2, <2>1, <1>8
  <2> QED
    BY <2>2, <2>3
<1>13. Bad(f, d, walk, m) <=> vis /\ err # NoError
  BY <1>3, <1>5 DEF Bad
<1>14. PICK S : S = {Said(f, d, j) : j \in 1..Len(f.fields)}
  OBVIOUS
<1>15. /\ x.problems \in Seq(S)
       /\ \A p \in 1..Len(x.problems) : \E j \in 1..m : Bad(f, d, walk, j) /\ x.problems[p] = Said(f, d, j)
       /\ \A j \in 1..m : Bad(f, d, walk, j) => \E p \in 1..Len(x.problems) : x.problems[p] = Said(f, d, j)
  <2>1. /\ w.problems \in Seq(S)
        /\ \A p \in 1..Len(w.problems) : \E j \in 1..n : Bad(f, d, walk, j) /\ w.problems[p] = Said(f, d, j)
        /\ \A j \in 1..n : Bad(f, d, walk, j) => \E p \in 1..Len(w.problems) : w.problems[p] = Said(f, d, j)
    BY <1>14 DEF Finds
  <2>2. CASE Bad(f, d, walk, m)
    <3>1. PICK e : e = Said(f, d, m)
      OBVIOUS
    <3>2. e \in S /\ e = Problem(k, err)
      BY <3>1, <1>2, <1>5, <1>8, <1>14 DEF Said
    <3>3. PICK q : q = w.problems
      OBVIOUS
    <3>4. x.problems = Append(q, e)
      BY <1>7, <1>13, <2>2, <3>2, <3>3
    <3>5. PICK t : t = Append(q, e)
      OBVIOUS
    <3>6. /\ t \in Seq(S) /\ Len(t) = Len(q) + 1 /\ t[Len(q) + 1] = e /\ Len(q) \in Nat
          /\ \A p \in 1..Len(q) : t[p] = q[p]
      BY <2>1, <3>2, <3>3, <3>5, AppendProperties
    <3>a. \A j \in 1..n : j \in 1..m
      BY <1>8
    <3>7. ASSUME NEW p \in 1..Len(t) PROVE \E j \in 1..m : Bad(f, d, walk, j) /\ t[p] = Said(f, d, j)
      <4>1. CASE p = Len(q) + 1
        <5>1. t[p] = e /\ m \in 1..m
          BY <4>1, <3>6, <1>8
        <5> QED
          BY <5>1, <3>1, <2>2
      <4>2. CASE p # Len(q) + 1
        <5>1. p \in 1..Len(q)
          BY <4>2, <3>6
        <5>2. t[p] = q[p] /\ p \in 1..Len(w.problems)
          BY <5>1, <3>6, <3>3
        <5>3. PICK j \in 1..n : Bad(f, d, walk, j) /\ w.problems[p] = Said(f, d, j)
          BY <5>2, <2>1
        <5>4. j \in 1..m /\ t[p] = Said(f, d, j)
          BY <5>2, <5>3, <3>3, <3>a
        <5> QED
          BY <5>3, <5>4
      <4> QED
        BY <4>1, <4>2
    <3>8. ASSUME NEW j \in 1..m, Bad(f, d, walk, j) PROVE \E p \in 1..Len(t) : t[p] = Said(f, d, j)
      <4>1. CASE j = m
        BY <4>1, <3>1, <3>6
      <4>2. CASE j # m
        <5>1. PICK p \in 1..Len(q) : q[p] = Said(f, d, j)
          BY <4>2, <1>8, <2>1, <3>3, <3>8
        <5> QED
          BY <5>1, <3>6
      <4> QED
        BY <4>1, <4>2
    <3>9. x.problems = t
      BY <3>4, <3>5
    <3> QED
      BY <3>9, <3>6, <3>7, <3>8, Zenon
  <2>3. CASE ~Bad(f, d, walk, m)
    <3>1. x.problems = w.problems
      BY <1>7, <1>13, <2>3
    <3>2. \A j \in 1..m : Bad(f, d, walk, j) => j \in 1..n
      BY <1>8, <2>3
    <3>3. PICK q : q = w.problems
      OBVIOUS
    <3>4. \A j \in 1..n : j \in 1..m
      BY <1>8
    <3> QED
      BY <3>1, <3>2, <3>3, <3>4, <2>1
  <2> QED
    BY <2>2, <2>3
<1>16. Finds(x, f, d, walk, m)
  BY <1>10, <1>12, <1>14, <1>15 DEF Finds
<1> QED
  BY <1>1, <1>6, <1>16

LEMMA WalkFinds ==
    ASSUME NEW f, NEW d, NEW walk, Keyed(f), Walks(walk, f, d)
    PROVE  \A i \in 0..Len(f.fields) : Finds(walk[i], f, d, walk, i)
<1>1. PICK N \in Nat : N = Len(f.fields)
  BY DEF Keyed
<1>2. PICK A : A = {i \in 0..N : Finds(walk[i], f, d, walk, i)}
  OBVIOUS
<1>3. 0 \in A
  <2>1. /\ walk[0].shown = << >> /\ walk[0].clean = << >> /\ walk[0].problems = << >>
        /\ 1..0 = {} /\ DOMAIN << >> = {}
    BY DEF Walks, NothingYet
  <2>2. \A S : << >> \in Seq(S) /\ Len(<< >>) = 0
    OBVIOUS
  <2>3. Finds(walk[0], f, d, walk, 0)
    BY <2>1, <2>2 DEF Finds
  <2> QED
    BY <1>1, <1>2, <2>3
<1>4. \A i \in 0..N : i \in A /\ i < N => i + 1 \in A
  <2> SUFFICES ASSUME NEW n \in 0..N, n \in A, n < N PROVE n + 1 \in A
    OBVIOUS
  <2>1. n \in Nat /\ n + 1 <= Len(f.fields) /\ n + 1 \in 1..N /\ (n + 1) - 1 = n /\ n + 1 \in 0..N
    BY <1>1
  <2>2. Finds(walk[n], f, d, walk, n)
    BY <1>2
  <2>3. Finds(Walked(f.fields, n + 1, walk[n], d), f, d, walk, n + 1)
    BY <2>1, <2>2, WalkStep
  <2>4. walk[n + 1] = Walked(f.fields, n + 1, walk[n], d)
    BY <1>1, <2>1 DEF Walks
  <2> QED
    BY <1>2, <2>1, <2>3, <2>4
<1>5. \A i \in 0..N : i \in A
  BY <1>1, <1>3, <1>4, IntervalInduction
<1> QED
  BY <1>1, <1>2, <1>5

LEMMA FormIsKeyed ==
    ASSUME NEW f, IsForm(f)
    PROVE  Keyed(f) /\ DOMAIN f.fields = 1..Len(f.fields)
<1>1. PICK S : S = ToSet(f.fields)
  OBVIOUS
<1>2. f.fields \in Seq(S) /\ \A i, j \in DOMAIN f.fields : f.fields[i].key = f.fields[j].key => i = j
  BY <1>1 DEF IsForm
<1>3. DOMAIN f.fields = 1..Len(f.fields) /\ Len(f.fields) \in Nat
  BY <1>2
<1> QED
  BY <1>2, <1>3 DEF Keyed

-----------------------------------------------------------------------------
(* What is hidden counts nowhere *)

LEMMA HiddenStays ==
    ASSUME NEW f, NEW d, NEW e, Keyed(f), NEW m \in 1..Len(f.fields),
           ~Evaluate(f, d).shown[f.fields[m].key],
           \A j \in 1..Len(f.fields) : j # m => Answer(e, f.fields[j].key) = Answer(d, f.fields[j].key)
    PROVE  Evaluate(f, e) = Evaluate(f, d)
<1>1. PICK N \in Nat : N = Len(f.fields)
  BY DEF Keyed
<1>2. PICK v : Walks(v, f, d)
  BY EvaluateWalks DEF Keyed
<1>3. PICK w : Walks(w, f, e)
  BY EvaluateWalks DEF Keyed
<1>4. ~Vis(f, d, v, m)
  <2>1. Finds(v[N], f, d, v, N)
    BY <1>1, <1>2, WalkFinds
  <2>2. Evaluate(f, d) = v[N]
    BY <1>1, <1>2 DEF Walks
  <2> QED
    BY <1>1, <2>1, <2>2 DEF Finds
<1>5. PICK A : A = {i \in 0..N : w[i] = v[i]}
  OBVIOUS
<1>6. 0 \in A
  BY <1>1, <1>2, <1>3, <1>5 DEF Walks
<1>7. \A i \in 0..N : i \in A /\ i < N => i + 1 \in A
  <2> SUFFICES ASSUME NEW n \in 0..N, n \in A, n < N PROVE n + 1 \in A
    OBVIOUS
  <2>1. PICK i : i = n + 1
    OBVIOUS
  <2>2. i \in 1..N /\ i - 1 = n /\ i \in 0..N
    BY <1>1, <2>1
  <2>3. PICK b : b = v[n] /\ b = w[n]
    BY <1>5
  <2>4. v[i] = Walked(f.fields, i, b, d) /\ w[i] = Walked(f.fields, i, b, e)
    BY <1>1, <1>2, <1>3, <2>2, <2>3 DEF Walks
  <2>5. Shown(f.fields, i, b, e) = Shown(f.fields, i, b, d)
    BY DEF Shown
  <2>6. Walked(f.fields, i, b, e) = Walked(f.fields, i, b, d)
    <3>1. CASE i # m
      <4>1. Answer(e, f.fields[i].key) = Answer(d, f.fields[i].key)
        BY <1>1, <2>2, <3>1
      <4> QED
        BY <2>5, <4>1 DEF Walked
    <3>2. CASE i = m
      <4>1. ~Shown(f.fields, i, b, d)
        BY <1>4, <2>2, <2>3, <3>2 DEF Vis
      <4> QED
        BY <2>5, <4>1 DEF Walked
    <3> QED
      BY <3>1, <3>2
  <2> QED
    BY <1>5, <2>1, <2>2, <2>4, <2>6
<1>8. \A i \in 0..N : i \in A
  BY <1>1, <1>6, <1>7, IntervalInduction
<1>9. w[N] = v[N]
  BY <1>1, <1>5, <1>8
<1> QED
  BY <1>1, <1>2, <1>3, <1>9 DEF Walks

-----------------------------------------------------------------------------
(* Values *)

(* What FirstFailing makes of checks whose errors are all errors. *)
LEMMA FirstFails ==
    ASSUME NEW n \in Nat, NEW checks, DOMAIN checks = 1..n, NEW v,
           \A i \in 1..n : checks[i][2] # NoError
    PROVE  \/ (\A i \in 1..n : ~checks[i][1]) /\ FirstFailing(checks, v) = Good(v)
           \/ \E i \in 1..n : checks[i][1] /\ FirstFailing(checks, v) = Wrong(checks[i][2])
<1>1. PICK T : T = {i \in DOMAIN checks : checks[i][1]}
  OBVIOUS
<1>2. CASE T = {}
  <2>1. FirstFailing(checks, v) = Good(v)
    BY <1>1, <1>2 DEF FirstFailing
  <2>2. \A i \in 1..n : ~checks[i][1]
    BY <1>1, <1>2
  <2> QED
    BY <2>1, <2>2
<1>3. CASE T # {}
  <2>1. T \in SUBSET Nat
    BY <1>1
  <2>2. \E m \in T : \A k \in T : m <= k
    BY <1>3, <2>1, LeastNumber
  <2>3. PICK i : i = CHOOSE m \in T : \A k \in T : m <= k
    OBVIOUS
  <2>4. i \in T
    BY <2>2, <2>3
  <2>5. FirstFailing(checks, v) = Wrong(checks[i][2])
    BY <1>1, <1>3, <2>3 DEF FirstFailing
  <2>6. i \in 1..n /\ checks[i][1]
    BY <1>1, <2>4
  <2> QED
    BY <2>5, <2>6
<1> QED
  BY <1>2, <1>3

InRange(v, n) ==
    (Has(v, "min") => n >= v["min"]) /\ (Has(v, "max") => n <= v["max"])

LEMMA NumberChecked ==
    ASSUME NEW v, NEW raw, raw[1] = "number", raw[2] \in Int,
           \A m \in DOMAIN v : m # "pattern" => v[m] \in Int
    PROVE  \/ InRange(v, raw[2]) /\ CheckNumber(v, raw) = Good(raw)
           \/ ~InRange(v, raw[2]) /\ \E e \in {"min", "max"} : CheckNumber(v, raw) = Wrong(e)
<1>1. PICK low \in BOOLEAN : low <=> (Has(v, "min") /\ raw[2] < v["min"])
  OBVIOUS
<1>2. PICK high \in BOOLEAN : high <=> (Has(v, "max") /\ raw[2] > v["max"])
  OBVIOUS
<1>3. PICK checks : checks = << <<Has(v, "min") /\ raw[2] < v["min"], "min">>,
                               <<Has(v, "max") /\ raw[2] > v["max"], "max">> >>
  OBVIOUS
<1>4. CheckNumber(v, raw) = FirstFailing(checks, raw)
  BY <1>3 DEF CheckNumber
<1>5. /\ DOMAIN checks = 1..2 /\ checks[1][2] = "min" /\ checks[2][2] = "max"
      /\ checks[1][1] <=> low
      /\ checks[2][1] <=> high
  BY <1>1, <1>2, <1>3
<1>6. InRange(v, raw[2]) <=> ~low /\ ~high
  <2>1. Has(v, "min") => v["min"] \in Int
    BY DEF Has
  <2>2. Has(v, "max") => v["max"] \in Int
    BY DEF Has
  <2> QED
    BY <1>1, <1>2, <2>1, <2>2 DEF InRange
<1>7. \A i \in 1..2 : checks[i][2] # NoError
  BY <1>5 DEF NoError
<1>8. \/ (\A i \in 1..2 : ~checks[i][1]) /\ FirstFailing(checks, raw) = Good(raw)
      \/ \E i \in 1..2 : checks[i][1] /\ FirstFailing(checks, raw) = Wrong(checks[i][2])
  BY <1>5, <1>7, FirstFails
<1>9. CASE (\A i \in 1..2 : ~checks[i][1]) /\ FirstFailing(checks, raw) = Good(raw)
  BY <1>4, <1>5, <1>6, <1>9
<1>10. CASE \E i \in 1..2 : checks[i][1] /\ FirstFailing(checks, raw) = Wrong(checks[i][2])
  <2>1. PICK i \in 1..2 : checks[i][1] /\ FirstFailing(checks, raw) = Wrong(checks[i][2])
    BY <1>10
  <2>2. checks[i][2] \in {"min", "max"} /\ (low \/ high)
    BY <1>5, <2>1
  <2> QED
    BY <1>4, <1>6, <2>1, <2>2
<1> QED
  BY <1>8, <1>9, <1>10

Distinct(options, raw) == ToSet(raw[2]) \subseteq options /\ IsInjective(raw[2])

LEMMA ChoicesChecked ==
    ASSUME NEW options, NEW raw, raw[1] = "array", raw[2] # << >>
    PROVE  \/ Distinct(options, raw) /\ CheckChoices(options, raw) = Good(raw)
           \/ ~Distinct(options, raw) /\ \E e \in {"choice", "duplicate"} : CheckChoices(options, raw) = Wrong(e)
<1>0. PICK dup : dup = IsInjective(raw[2])
  OBVIOUS
<1>1. PICK checks : checks = << <<~(ToSet(raw[2]) \subseteq options), "choice">>, <<~dup, "duplicate">> >>
  OBVIOUS
<1>2. CheckChoices(options, raw) = FirstFailing(checks, raw)
  BY <1>0, <1>1 DEF CheckChoices
<1>3. /\ DOMAIN checks = 1..2 /\ checks[1][2] = "choice" /\ checks[2][2] = "duplicate"
      /\ checks[1][1] <=> ~(ToSet(raw[2]) \subseteq options)
      /\ checks[2][1] <=> ~IsInjective(raw[2])
  <2>1. /\ DOMAIN checks = 1..2 /\ checks[1][2] = "choice" /\ checks[2][2] = "duplicate"
        /\ checks[1][1] <=> ~(ToSet(raw[2]) \subseteq options)
        /\ checks[2][1] <=> ~dup
    <3>1. DOMAIN checks = 1..2 /\ checks[1][2] = "choice" /\ checks[2][2] = "duplicate"
      BY <1>1
    <3>2. checks[1] = <<~(ToSet(raw[2]) \subseteq options), "choice">> /\ checks[2] = <<~dup, "duplicate">>
      BY <1>1
    <3>3. checks[1][1] = ~(ToSet(raw[2]) \subseteq options)
      BY <3>2
    <3>4. checks[2][1] = ~dup
      BY <3>2
    <3> QED
      BY <3>1, <3>3, <3>4
  <2> QED
    BY <1>0, <2>1
<1>4. \A i \in 1..2 : checks[i][2] # NoError
  BY <1>3 DEF NoError
<1>5. \/ (\A i \in 1..2 : ~checks[i][1]) /\ FirstFailing(checks, raw) = Good(raw)
      \/ \E i \in 1..2 : checks[i][1] /\ FirstFailing(checks, raw) = Wrong(checks[i][2])
  BY <1>3, <1>4, FirstFails
<1>6. CASE (\A i \in 1..2 : ~checks[i][1]) /\ FirstFailing(checks, raw) = Good(raw)
  BY <1>2, <1>3, <1>6 DEF Distinct
<1>7. CASE \E i \in 1..2 : checks[i][1] /\ FirstFailing(checks, raw) = Wrong(checks[i][2])
  <2>1. PICK i \in 1..2 : checks[i][1] /\ FirstFailing(checks, raw) = Wrong(checks[i][2])
    BY <1>7
  <2>2. checks[i][2] \in {"choice", "duplicate"} /\ ~Distinct(options, raw)
    BY <1>3, <2>1 DEF Distinct
  <2> QED
    BY <1>2, <2>1, <2>2
<1> QED
  BY <1>5, <1>6, <1>7

LEMMA TextChecked ==
    ASSUME NEW field, field.type \in FieldTypes, NEW raw, raw[1] = "string", raw[2] # Blank, Text[raw[2]].length \in Nat,
           \A m \in DOMAIN Limits(field) : m # "pattern" => Limits(field)[m] \in Int
    PROVE  LET r == CheckText(field, Limits(field), OptionsOf(field), raw)
           IN  \/ check_string(field, Limits(field), raw[2]) /\ r = Good(Str(raw[2]))
               \/ /\ ~check_string(field, Limits(field), raw[2])
                  /\ \E e \in {"email", "url", "date", "choice", "minLength", "maxLength", "pattern"} :
                        r = Wrong(e) /\ (e = "choice" => field.type = "select" /\ raw[2] \notin OptionsOf(field))
<1>1. PICK v : v = Limits(field)
  OBVIOUS
<1>2. PICK text : text = Text[raw[2]]
  OBVIOUS
<1>3. PICK options : options = OptionsOf(field)
  OBVIOUS
<1>4. PICK type : type = field.type
  OBVIOUS
<1>5. PICK checks : checks =
                << <<field.type \in {"email", "url", "date"} /\ ~HasFormat(field.type, text), field.type>>,
                   <<field.type = "select" /\ raw[2] \notin options, "choice">>,
                   <<Has(v, "minLength") /\ text.length < v["minLength"], "minLength">>,
                   <<Has(v, "maxLength") /\ text.length > v["maxLength"], "maxLength">>,
                   <<Has(v, "pattern") /\ ~matchesPattern(v["pattern"], text), "pattern">> >>
  OBVIOUS
<1>6. CheckText(field, v, options, raw) = FirstFailing(checks, Str(raw[2]))
  BY <1>2, <1>5 DEF CheckText
<1>7. /\ DOMAIN checks = 1..5 /\ checks[1][2] = type /\ checks[2][2] = "choice" /\ checks[3][2] = "minLength"
      /\ checks[4][2] = "maxLength" /\ checks[5][2] = "pattern"
  BY <1>4, <1>5
<1>8. /\ checks[1][1] <=> (type \in {"email", "url", "date"} /\ ~HasFormat(type, text))
      /\ checks[2][1] <=> (type = "select" /\ raw[2] \notin options)
      /\ checks[3][1] <=> (Has(v, "minLength") /\ text.length < v["minLength"])
      /\ checks[4][1] <=> (Has(v, "maxLength") /\ text.length > v["maxLength"])
      /\ checks[5][1] <=> (Has(v, "pattern") /\ ~matchesPattern(v["pattern"], text))
  BY <1>4, <1>5
<1>9. check_string(field, v, raw[2]) <=> \A i \in 1..5 : ~checks[i][1]
  <2>1. Has(v, "minLength") => v["minLength"] \in Int
    BY <1>1 DEF Has
  <2>2. Has(v, "maxLength") => v["maxLength"] \in Int
    BY <1>1 DEF Has
  <2>3. /\ (type \in {"email", "url", "date"} => type \in text.formats) <=> ~checks[1][1]
        /\ (type = "select" => raw[2] \in options) <=> ~checks[2][1]
        /\ (Has(v, "pattern") => v["pattern"] \in text.patterns) <=> ~checks[5][1]
    BY <1>8 DEF HasFormat, matchesPattern
  <2>4. text.length \in Nat
    BY <1>2
  <2>5. /\ (Has(v, "minLength") => text.length >= v["minLength"]) <=> ~checks[3][1]
        /\ (Has(v, "maxLength") => text.length <= v["maxLength"]) <=> ~checks[4][1]
    BY <1>8, <2>1, <2>2, <2>4
  <2>6. 1..5 = {1, 2, 3, 4, 5}
    OBVIOUS
  <2> QED
    BY <1>2, <1>3, <1>4, <2>3, <2>5, <2>6 DEF check_string
<1>10. \A i \in 1..5 : checks[i][2] # NoError
  <2>1. type # NoError
    BY <1>4 DEF NoError, FieldTypes
  <2> QED
    BY <1>7, <2>1 DEF NoError
<1>11. PICK r : r = CheckText(field, v, options, raw)
  OBVIOUS
<1>12. \/ (\A i \in 1..5 : ~checks[i][1]) /\ r = Good(Str(raw[2]))
       \/ \E i \in 1..5 : checks[i][1] /\ r = Wrong(checks[i][2])
  <2>1. PICK val : val = Str(raw[2])
    OBVIOUS
  <2>2. PICK n \in Nat : n = 5
    OBVIOUS
  <2>3. DOMAIN checks = 1..n /\ \A i \in 1..n : checks[i][2] # NoError
    BY <1>7, <1>10, <2>2
  <2>4. \/ (\A i \in 1..n : ~checks[i][1]) /\ FirstFailing(checks, val) = Good(val)
        \/ \E i \in 1..n : checks[i][1] /\ FirstFailing(checks, val) = Wrong(checks[i][2])
    BY <2>2, <2>3, FirstFails
  <2> QED
    BY <1>6, <1>11, <2>1, <2>2, <2>4
<1>13. CASE (\A i \in 1..5 : ~checks[i][1]) /\ r = Good(Str(raw[2]))
  BY <1>1, <1>3, <1>9, <1>11, <1>13
<1>14. CASE \E i \in 1..5 : checks[i][1] /\ r = Wrong(checks[i][2])
  <2>1. PICK i \in 1..5 : checks[i][1] /\ r = Wrong(checks[i][2])
    BY <1>14
  <2>2. PICK e : e = checks[i][2]
    OBVIOUS
  <2>3. e \in {"email", "url", "date", "choice", "minLength", "maxLength", "pattern"}
    BY <1>7, <1>8, <2>1, <2>2
  <2>4. e = "choice" => type = "select" /\ raw[2] \notin options
    <3>1. CASE i = 1
      BY <1>7, <1>8, <2>1, <2>2, <3>1
    <3>2. CASE i = 2
      BY <1>8, <2>1, <3>2
    <3>3. CASE i \in 3..5
      <4>1. i = 3 \/ i = 4 \/ i = 5
        BY <3>3
      <4>2. e \in {"minLength", "maxLength", "pattern"}
        BY <1>7, <2>2, <4>1
      <4> QED
        BY <4>2
    <3> QED
      BY <3>1, <3>2, <3>3
  <2> QED
    BY <1>1, <1>3, <1>4, <1>9, <1>11, <2>1, <2>2, <2>3, <2>4
<1> QED
  BY <1>12, <1>13, <1>14

(* The kinds of values, told apart by their first component. *)
LEMMA ValueKinds ==
    ASSUME NEW raw, IsValue(raw), raw # None
    PROVE  \/ raw[1] = "string" /\ raw[2] \in DOMAIN Text /\ IsValue(Str(raw[2])) /\ Str(raw[2]) # None
           \/ raw[1] = "boolean" /\ raw \in {Bool(TRUE), Bool(FALSE)}
           \/ raw[1] = "number" /\ raw[2] \in Int
           \/ raw[1] = "array" /\ raw = List(raw[2]) /\ raw[2] \in Seq(DOMAIN Text)
<1>1. CASE \E s \in DOMAIN Text : raw \in {Str(s), Padded(s)}
  <2>1. PICK s \in DOMAIN Text : raw \in {Str(s), Padded(s)}
    BY <1>1
  <2>2. raw[1] = "string" /\ raw[2] = s
    <3>1. CASE raw = Str(s)
      BY <3>1 DEF Str
    <3>2. CASE raw = Padded(s)
      BY <3>2 DEF Padded
    <3> QED
      BY <2>1, <3>1, <3>2
  <2>3. IsValue(Str(s))
    BY DEF IsValue
  <2>4. Str(s) # None
    BY DEF Str, None
  <2> QED
    BY <2>2, <2>3, <2>4
<1>2. CASE raw \in {Bool(TRUE), Bool(FALSE)}
  <2>1. raw[1] = "boolean"
    <3>1. CASE raw = Bool(TRUE)
      BY <3>1 DEF Bool
    <3>2. CASE raw = Bool(FALSE)
      BY <3>2 DEF Bool
    <3> QED
      BY <1>2, <3>1, <3>2
  <2> QED
    BY <1>2, <2>1
<1>3. CASE raw[1] = "number" /\ raw = Num(raw[2]) /\ raw[2] \in Int
  BY <1>3
<1>4. CASE raw[1] = "array" /\ raw = List(raw[2]) /\ raw[2] \in Seq(DOMAIN Text)
  BY <1>4
<1> QED
  BY <1>1, <1>2, <1>3, <1>4 DEF IsValue

(* What no input that is shown can put right. *)
Unfit == {"text", "number", "boolean", "choice", "duplicate"}

Fits(field, raw) ==
    \/ raw = None
    \/ field.type = "number" /\ raw[1] = "number"
    \/ field.type = "checkbox" /\ raw[1] = "boolean"
    \/ field.type = "multiselect" /\ raw[1] = "array" /\ Distinct(OptionsOf(field), raw)
    \/ /\ field.type \in StringTypes /\ raw[1] = "string"
       /\ field.type = "select" => raw[2] = Blank \/ raw[2] \in OptionsOf(field)

(* r and s are what the browser and the server find of a value. *)
Agree(field, raw, r, s) ==
    \/ r = Absent /\ s[1] = "absent"
    \/ s[1] = "wrong" /\ \E e : e # NoError /\ r = Wrong(e) /\ (e \in Unfit => ~Fits(field, raw))
    \/ \E v : /\ r = Good(v) /\ s = <<"given", v>> /\ IsValue(v) /\ v # None
              /\ checkValue(field, v) = r
              /\ field.type = "checkbox" => v \in {Bool(TRUE), Bool(FALSE)}
              /\ field.type = "multiselect" => v[1] = "array"

LEMMA NumberAgrees ==
    ASSUME NEW field, IsField(field), field.type = "number", NEW raw, IsValue(raw), raw # None
    PROVE  Agree(field, raw, checkValue(field, raw), check_value(field, raw))
<1>1. PICK v : v = Limits(field)
  OBVIOUS
<1>2. PICK s : s = check_value(field, raw)
  OBVIOUS
<1>3. checkValue(field, raw) = CheckNumber(v, raw)
  BY <1>1 DEF checkValue
<1>4. /\ s[1] = IF raw[1] = "number" /\ InRange(v, raw[2]) THEN "given" ELSE "wrong"
      /\ s = <<s[1], raw>>
  BY <1>1, <1>2 DEF check_value, InRange, StringTypes
<1>5. CASE raw[1] # "number"
  <2>1. checkValue(field, raw) = Wrong("number") /\ "number" # NoError /\ ~Fits(field, raw)
    BY <1>3, <1>5 DEF CheckNumber, NoError, Fits, StringTypes
  <2> QED
    BY <1>2, <1>4, <1>5, <2>1 DEF Agree
<1>6. CASE raw[1] = "number"
  <2>1. raw[2] \in Int
    BY <1>6, ValueKinds DEF Bool
  <2>2. \A m \in DOMAIN v : m # "pattern" => v[m] \in Int
    BY <1>1 DEF IsField
  <2>3. CASE InRange(v, raw[2]) /\ CheckNumber(v, raw) = Good(raw)
    <3>1. s = <<"given", raw>>
      BY <1>4, <1>6, <2>3
    <3> QED
      BY <1>2, <1>3, <2>3, <3>1 DEF Agree
  <2>4. CASE ~InRange(v, raw[2]) /\ \E e \in {"min", "max"} : CheckNumber(v, raw) = Wrong(e)
    <3>1. PICK e \in {"min", "max"} : CheckNumber(v, raw) = Wrong(e)
      BY <2>4
    <3>2. e # NoError /\ e \notin Unfit
      BY DEF NoError, Unfit
    <3>3. s[1] = "wrong"
      BY <1>4, <2>4
    <3> QED
      BY <1>2, <1>3, <3>1, <3>2, <3>3 DEF Agree
  <2> QED
    BY <1>6, <2>1, <2>2, <2>3, <2>4, NumberChecked
<1> QED
  BY <1>5, <1>6

LEMMA TickAgrees ==
    ASSUME NEW field, field.type = "checkbox", NEW raw, IsValue(raw), raw # None
    PROVE  Agree(field, raw, checkValue(field, raw), check_value(field, raw))
<1>1. PICK s : s = check_value(field, raw)
  OBVIOUS
<1>2. checkValue(field, raw) = IF raw[1] = "boolean" THEN Good(raw) ELSE Wrong("boolean")
  BY DEF checkValue
<1>3. s = <<IF raw[1] = "boolean" THEN "given" ELSE "wrong", raw>>
  BY <1>1 DEF check_value, StringTypes
<1>4. CASE raw[1] = "boolean"
  <2>1. raw \in {Bool(TRUE), Bool(FALSE)}
    BY <1>4, ValueKinds
  <2>2. s = <<"given", raw>> /\ checkValue(field, raw) = Good(raw)
    BY <1>2, <1>3, <1>4
  <2> QED
    BY <1>1, <2>1, <2>2 DEF Agree
<1>5. CASE raw[1] # "boolean"
  <2>1. s[1] = "wrong" /\ checkValue(field, raw) = Wrong("boolean") /\ "boolean" # NoError
    BY <1>2, <1>3, <1>5 DEF NoError
  <2>2. ~Fits(field, raw)
    BY <1>5 DEF Fits, StringTypes
  <2> QED
    BY <1>1, <2>1, <2>2 DEF Agree
<1> QED
  BY <1>4, <1>5

LEMMA ChoicesAgree ==
    ASSUME NEW field, field.type = "multiselect", NEW raw, IsValue(raw), raw # None
    PROVE  Agree(field, raw, checkValue(field, raw), check_value(field, raw))
<1>1. PICK s : s = check_value(field, raw)
  OBVIOUS
<1>2. PICK options : options = OptionsOf(field)
  OBVIOUS
<1>3. checkValue(field, raw) = CheckChoices(options, raw)
  BY <1>2 DEF checkValue
<1>4. s = IF raw = List(<< >>) THEN <<"absent", None>>
          ELSE <<IF raw[1] = "array" /\ Distinct(options, raw) THEN "given" ELSE "wrong", raw>>
  BY <1>1, <1>2 DEF check_value, StringTypes, Distinct
<1>5. CASE raw[1] # "array"
  <2>1. checkValue(field, raw) = Wrong("choice") /\ "choice" # NoError
    BY <1>3, <1>5 DEF CheckChoices, NoError
  <2>2. ~Fits(field, raw)
    BY <1>5 DEF Fits, StringTypes
  <2>3. s[1] = "wrong"
    BY <1>4, <1>5 DEF List
  <2> QED
    BY <1>1, <2>1, <2>2, <2>3 DEF Agree
<1>6. CASE raw[1] = "array" /\ raw[2] = << >>
  <2>1. raw = List(<< >>)
    BY <1>6, ValueKinds DEF Bool
  <2>2. checkValue(field, raw) = Absent
    BY <1>3, <1>6 DEF CheckChoices
  <2>3. s[1] = "absent"
    BY <1>4, <2>1
  <2> QED
    BY <1>1, <2>2, <2>3 DEF Agree
<1>7. CASE raw[1] = "array" /\ raw[2] # << >>
  <2>1. raw # List(<< >>)
    BY <1>7 DEF List
  <2>2. CASE Distinct(options, raw) /\ CheckChoices(options, raw) = Good(raw)
    <3>1. s = <<"given", raw>>
      BY <1>4, <1>7, <2>1, <2>2
    <3> QED
      BY <1>1, <1>3, <1>7, <2>2, <3>1 DEF Agree
  <2>3. CASE ~Distinct(options, raw) /\ \E e \in {"choice", "duplicate"} : CheckChoices(options, raw) = Wrong(e)
    <3>1. PICK e \in {"choice", "duplicate"} : CheckChoices(options, raw) = Wrong(e)
      BY <2>3
    <3>2. e # NoError
      BY DEF NoError
    <3>3. s[1] = "wrong"
      BY <1>4, <2>1, <2>3
    <3>4. ~Fits(field, raw)
      BY <1>2, <2>3 DEF Fits, StringTypes
    <3> QED
      BY <1>1, <1>3, <3>1, <3>2, <3>3, <3>4 DEF Agree
  <2> QED
    BY <1>7, <2>2, <2>3, ChoicesChecked
<1> QED
  BY <1>5, <1>6, <1>7

LEMMA TextAgrees ==
    ASSUME NEW field, IsField(field), field.type \in StringTypes, NEW raw, IsValue(raw), raw # None
    PROVE  Agree(field, raw, checkValue(field, raw), check_value(field, raw))
<1>1. PICK s : s = check_value(field, raw)
  OBVIOUS
<1>2. PICK r : r = checkValue(field, raw)
  OBVIOUS
<1>3. ASSUME NEW x, x # None
      PROVE  checkValue(field, x) = CheckText(field, Limits(field), OptionsOf(field), x)
  BY <1>3 DEF checkValue, StringTypes
<1>4. s = IF raw[1] # "string" THEN <<"wrong", None>>
          ELSE IF raw[2] = Blank THEN <<"absent", None>>
          ELSE <<IF check_string(field, Limits(field), raw[2]) THEN "given" ELSE "wrong", Str(raw[2])>>
  BY <1>1 DEF check_value, StringTypes
<1>5. r = CheckText(field, Limits(field), OptionsOf(field), raw)
  BY <1>2, <1>3
<1>6. CASE raw[1] # "string"
  <2>1. r = Wrong("text") /\ "text" # NoError
    BY <1>5, <1>6 DEF CheckText, NoError
  <2>2. ~Fits(field, raw)
    BY <1>6 DEF Fits, StringTypes
  <2>3. s[1] = "wrong"
    BY <1>4, <1>6
  <2> QED
    BY <1>1, <1>2, <2>1, <2>2, <2>3 DEF Agree
<1>7. CASE raw[1] = "string" /\ raw[2] = Blank
  <2>1. r = Absent
    BY <1>5, <1>7 DEF CheckText
  <2>2. s[1] = "absent"
    BY <1>4, <1>7
  <2> QED
    BY <1>1, <1>2, <2>1, <2>2 DEF Agree
<1>8. CASE raw[1] = "string" /\ raw[2] # Blank
  <2>1. PICK t : t = Str(raw[2])
    OBVIOUS
  <2>2. raw[2] \in DOMAIN Text /\ IsValue(t) /\ t # None
    BY <1>8, <2>1, ValueKinds DEF Bool
  <2>3. Text[raw[2]].length \in Nat
    BY <2>2, TextAssumption
  <2>4. t[1] = "string" /\ t[2] = raw[2]
    BY <2>1 DEF Str
  <2>5. checkValue(field, t) = r
    BY <1>3, <1>5, <1>8, <2>2, <2>4 DEF CheckText
  <2>6. field.type \in FieldTypes /\ \A m \in DOMAIN Limits(field) : m # "pattern" => Limits(field)[m] \in Int
    BY DEF IsField
  <2>7. \/ check_string(field, Limits(field), raw[2]) /\ r = Good(t)
        \/ /\ ~check_string(field, Limits(field), raw[2])
           /\ \E e \in {"email", "url", "date", "choice", "minLength", "maxLength", "pattern"} :
                r = Wrong(e) /\ (e = "choice" => field.type = "select" /\ raw[2] \notin OptionsOf(field))
    BY <1>5, <1>8, <2>1, <2>3, <2>6, TextChecked
  <2>8. CASE check_string(field, Limits(field), raw[2]) /\ r = Good(t)
    <3>1. s = <<"given", t>>
      BY <1>4, <1>8, <2>1, <2>8
    <3>2. field.type # "checkbox" /\ field.type # "multiselect"
      BY DEF StringTypes
    <3> QED
      BY <1>1, <1>2, <2>2, <2>5, <2>8, <3>1, <3>2 DEF Agree
  <2>9. CASE /\ ~check_string(field, Limits(field), raw[2])
             /\ \E e \in {"email", "url", "date", "choice", "minLength", "maxLength", "pattern"} :
                  r = Wrong(e) /\ (e = "choice" => field.type = "select" /\ raw[2] \notin OptionsOf(field))
    <3>1. PICK e \in {"email", "url", "date", "choice", "minLength", "maxLength", "pattern"} :
                  r = Wrong(e) /\ (e = "choice" => field.type = "select" /\ raw[2] \notin OptionsOf(field))
      BY <2>9
    <3>2. e # NoError
      BY DEF NoError
    <3>3. s[1] = "wrong"
      BY <1>4, <1>8, <2>9
    <3>4. e \in Unfit => ~Fits(field, raw)
      <4>1. e \in Unfit => e = "choice"
        BY DEF Unfit
      <4>2. field.type = "select" /\ raw[2] \notin OptionsOf(field) => ~Fits(field, raw)
        BY <1>8 DEF Fits
      <4> QED
        BY <3>1, <4>1, <4>2
    <3> QED
      BY <1>1, <1>2, <3>1, <3>2, <3>3, <3>4 DEF Agree
  <2> QED
    BY <2>7, <2>8, <2>9
<1> QED
  BY <1>6, <1>7, <1>8

(* Browser and server judge one value of one field alike. *)
LEMMA ValuesAgree ==
    ASSUME NEW field, IsField(field), NEW raw, IsValue(raw)
    PROVE  Agree(field, raw, checkValue(field, raw), check_value(field, raw))
<1>1. CASE raw = None
  <2>1. checkValue(field, raw) = Absent
    BY <1>1 DEF checkValue
  <2>2. check_value(field, raw) = <<"absent", None>>
    BY <1>1 DEF check_value
  <2> QED
    BY <2>1, <2>2 DEF Agree
<1>2. CASE raw # None
  <2>1. field.type \in StringTypes \cup {"number", "checkbox", "multiselect"}
    BY DEF IsField, FieldTypes, StringTypes
  <2> QED
    BY <1>2, <2>1, NumberAgrees, TickAgrees, ChoicesAgree, TextAgrees
<1> QED
  BY <1>1, <1>2

(* A checked value that is sent is judged in the same way again. *)
LEMMA ConditionsAgree ==
    ASSUME NEW cond, NEW controller, NEW value, NEW provided \in BOOLEAN,
           provided /\ controller.type = "multiselect" => value[1] = "array"
    PROVE  holds(cond, controller.type, value, provided) <=> conditionHolds(cond, controller, value, provided)
<1>1. CASE ~provided
  BY <1>1 DEF holds, conditionHolds
<1>2. CASE provided /\ controller.type # "multiselect"
  BY <1>2 DEF holds, conditionHolds, Matches
<1>3. CASE provided /\ controller.type = "multiselect"
  <2>1. \A t : Matches(controller, value, t) <=> contains(value[2], t)
    BY <1>3 DEF Matches, contains
  <2>2. \A S : (\E i \in DOMAIN value[2] : Str(value[2][i]) \in S) <=> \E t \in S : contains(value[2], t)
    BY DEF contains
  <2> QED
    BY <1>3, <2>1, <2>2 DEF holds, conditionHolds
<1> QED
  BY <1>1, <1>2, <1>3

-----------------------------------------------------------------------------
(* Browser and server *)

Judges(acc, f, d) ==
    /\ acc[0] = NothingJudged
    /\ \A i \in 1..Len(f.fields) : acc[i] = Judged(acc[i - 1], f.fields[i], d)
    /\ ServerEvaluate(f, d) = acc[Len(f.fields)]

LEMMA ServerJudges ==
    ASSUME NEW f, NEW d, Len(f.fields) \in Nat
    PROVE  \E acc : Judges(acc, f, d)
<1>1. PICK N \in Nat : N = Len(f.fields)
  OBVIOUS
<1>2. PICK fields : fields = f.fields
  OBVIOUS
<1> DEFINE Upto(n, g) == g[0] = NothingJudged /\ \A i \in 1..n : g[i] = Judged(g[i - 1], fields[i], d)
<1>a. PICK A : A = {n \in 0..N : \E g : Upto(n, g)}
  OBVIOUS
<1>3. 0 \in A
  <2> DEFINE g == [i \in 0..N |-> NothingJudged]
  <2>1. g[0] = NothingJudged /\ 1..0 = {}
    OBVIOUS
  <2> HIDE DEF g
  <2> QED
    BY <2>1, <1>a
<1>4. ASSUME NEW n \in 0..N, n \in A, n < N PROVE n + 1 \in A
  <2>1. PICK g : Upto(n, g)
    BY <1>4, <1>a
  <2>2. PICK v : v = Judged(g[n], fields[n + 1], d)
    OBVIOUS
  <2> DEFINE h == [i \in 0..N |-> IF i = n + 1 THEN v ELSE g[i]]
  <2>3. h[n + 1] = v /\ (\A i \in 0..n : h[i] = g[i]) /\ n + 1 \in 0..N
    BY <1>4
  <2> HIDE DEF h
  <2>4. \A i \in 1..(n + 1) : h[i] = Judged(h[i - 1], fields[i], d)
    <3> SUFFICES ASSUME NEW i \in 1..(n + 1) PROVE h[i] = Judged(h[i - 1], fields[i], d)
      OBVIOUS
    <3>1. h[i - 1] = g[i - 1]
      BY <2>3
    <3>2. CASE i = n + 1
      BY <2>2, <2>3, <3>1, <3>2
    <3>3. CASE i # n + 1
      BY <2>1, <2>3, <3>1, <3>3
    <3> QED
      BY <3>2, <3>3
  <2> QED
    BY <2>1, <2>3, <2>4, <1>a
<1>5. N \in A
  <2> HIDE DEF Upto
  <2>1. \A i \in 0..N : i \in A /\ i < N => i + 1 \in A
    BY <1>4
  <2>2. \A i \in 0..N : i \in A
    BY <2>1, <1>1, <1>3, IntervalInduction
  <2> QED
    BY <2>2, <1>1
<1>6. PICK g : Upto(N, g)
  BY <1>5, <1>a
<1>7. \E acc : acc = [i \in 0..N |-> IF i = 0 THEN NothingJudged ELSE Judged(acc[i - 1], fields[i], d)]
  <2> DEFINE h == [i \in 0..N |-> g[i]]
  <2>1. \A i \in 0..N : h[i] = g[i]
    OBVIOUS
  <2>2. h = [i \in 0..N |-> h[i]]
    OBVIOUS
  <2> HIDE DEF h
  <2>3. ASSUME NEW i \in 0..N
        PROVE  h[i] = IF i = 0 THEN NothingJudged ELSE Judged(h[i - 1], fields[i], d)
    <3>1. CASE i = 0
      BY <1>6, <2>1, <3>1
    <3>2. CASE i # 0
      <4>1. i \in 1..N /\ i - 1 \in 0..N
        BY <3>2
      <4> QED
        BY <1>6, <2>1, <3>2, <4>1
    <3> QED
      BY <3>1, <3>2
  <2>4. h = [i \in 0..N |-> IF i = 0 THEN NothingJudged ELSE Judged(h[i - 1], fields[i], d)]
    BY <2>2, <2>3, Zenon
  <2> QED
    BY <2>4, Zenon
<1>8. \E acc : /\ acc = [i \in 0..N |-> IF i = 0 THEN NothingJudged ELSE Judged(acc[i - 1], fields[i], d)]
                /\ ServerEvaluate(f, d) = acc[N]
  BY <1>1, <1>2, <1>7 DEF ServerEvaluate
<1>9. PICK acc : /\ acc = [i \in 0..N |-> IF i = 0 THEN NothingJudged ELSE Judged(acc[i - 1], fields[i], d)]
                  /\ ServerEvaluate(f, d) = acc[N]
  BY <1>8
<1>10. acc[0] = NothingJudged
  BY <1>9
<1>11. ASSUME NEW i \in 1..N PROVE acc[i] = Judged(acc[i - 1], fields[i], d)
  <2>1. i \in 0..N /\ i # 0
    OBVIOUS
  <2>2. acc[i] = IF i = 0 THEN NothingJudged ELSE Judged(acc[i - 1], fields[i], d)
    BY <1>9, <2>1, Zenon
  <2> QED
    BY <2>1, <2>2
<1> QED
  BY <1>1, <1>2, <1>9, <1>10, <1>11 DEF Judges


IsBad(field, s) ==
    \/ s[1] = "wrong"
    \/ s[1] = "absent" /\ IsRequired(field)
    \/ s = <<"given", Bool(FALSE)>> /\ field.type = "checkbox" /\ IsRequired(field)

LEMMA ErrorsAgree ==
    ASSUME NEW field, NEW raw, NEW r, NEW s, Agree(field, raw, r, s)
    PROVE  /\ IsBad(field, s) <=> ErrorOf(field, r) # NoError
           /\ s[1] = "given" <=> r.provided
           /\ r.provided => /\ s[2] = r.value /\ IsValue(r.value) /\ r.value # None
                            /\ checkValue(field, r.value) = r
                            /\ field.type = "multiselect" => r.value[1] = "array"
           /\ ErrorOf(field, r) \in Unfit => ~Fits(field, raw)
<1>1. CASE r = Absent /\ s[1] = "absent"
  <2>1. r.error = NoError /\ r.provided = FALSE
    BY <1>1 DEF Absent
  <2>2. ErrorOf(field, r) = IF IsRequired(field) THEN "required" ELSE NoError
    BY <2>1 DEF ErrorOf
  <2>3. "required" # NoError /\ ErrorOf(field, r) \notin Unfit
    BY <2>2 DEF NoError, Unfit
  <2>4. IsBad(field, s) <=> IsRequired(field)
    BY <1>1 DEF IsBad
  <2> QED
    BY <1>1, <2>1, <2>2, <2>3, <2>4
<1>2. CASE s[1] = "wrong" /\ \E e : e # NoError /\ r = Wrong(e) /\ (e \in Unfit => ~Fits(field, raw))
  <2>1. PICK e : e # NoError /\ r = Wrong(e) /\ (e \in Unfit => ~Fits(field, raw))
    BY <1>2
  <2>2. r.error = e /\ r.provided = FALSE
    BY <2>1 DEF Wrong
  <2>3. ErrorOf(field, r) = e
    BY <2>1, <2>2 DEF ErrorOf
  <2>4. IsBad(field, s)
    BY <1>2 DEF IsBad
  <2> QED
    BY <1>2, <2>1, <2>2, <2>3, <2>4
<1>3. CASE \E v : /\ r = Good(v) /\ s = <<"given", v>> /\ IsValue(v) /\ v # None
                  /\ checkValue(field, v) = r
                  /\ field.type = "checkbox" => v \in {Bool(TRUE), Bool(FALSE)}
                  /\ field.type = "multiselect" => v[1] = "array"
  <2>1. PICK v : /\ r = Good(v) /\ s = <<"given", v>> /\ IsValue(v) /\ v # None
                 /\ checkValue(field, v) = r
                 /\ field.type = "checkbox" => v \in {Bool(TRUE), Bool(FALSE)}
                 /\ field.type = "multiselect" => v[1] = "array"
    BY <1>3
  <2>2. r.error = NoError /\ r.provided = TRUE /\ r.value = v
    BY <2>1 DEF Good
  <2>3. s[1] = "given" /\ s[2] = v
    BY <2>1
  <2>4. Bool(TRUE) # Bool(FALSE)
    BY DEF Bool
  <2>5. ErrorOf(field, r) = IF field.type = "checkbox" /\ IsRequired(field) /\ v # Bool(TRUE)
                            THEN "mustTick" ELSE NoError
    BY <2>2 DEF ErrorOf
  <2>6. "mustTick" # NoError /\ "mustTick" \notin Unfit /\ NoError \notin Unfit
    BY DEF NoError, Unfit
  <2>7. IsBad(field, s) <=> field.type = "checkbox" /\ IsRequired(field) /\ v = Bool(FALSE)
    <3>1. s[1] # "wrong" /\ s[1] # "absent"
      BY <2>3
    <3>2. s = <<"given", Bool(FALSE)>> <=> v = Bool(FALSE)
      BY <2>1, <2>3
    <3> QED
      BY <3>1, <3>2 DEF IsBad
  <2> QED
    BY <2>1, <2>2, <2>3, <2>4, <2>5, <2>6, <2>7
<1> QED
  BY <1>1, <1>2, <1>3 DEF Agree

(* Answers whose values are values. *)
Answered(f, d) == \A j \in 1..Len(f.fields) : IsValue(Answer(d, f.fields[j].key))

LEMMA FieldAgrees ==
    ASSUME NEW f, NEW d, IsForm(f), Answered(f, d), NEW j \in 1..Len(f.fields), NEW s,
           s = check_value(f.fields[j], Answer(d, f.fields[j].key))
    PROVE  /\ IsBad(f.fields[j], s) <=> Err(f, d, j) # NoError
           /\ s[1] = "given" <=> Res(f, d, j).provided
           /\ Res(f, d, j).provided =>
                  /\ s[2] = Res(f, d, j).value /\ IsValue(Res(f, d, j).value) /\ Res(f, d, j).value # None
                  /\ checkValue(f.fields[j], Res(f, d, j).value) = Res(f, d, j)
                  /\ f.fields[j].type = "multiselect" => Res(f, d, j).value[1] = "array"
           /\ Err(f, d, j) \in Unfit => ~Fits(f.fields[j], Answer(d, f.fields[j].key))
<1>1. PICK field : field = f.fields[j]
  OBVIOUS
<1>2. PICK raw : raw = Answer(d, f.fields[j].key)
  OBVIOUS
<1>3. PICK r : r = Res(f, d, j)
  OBVIOUS
<1>4. IsField(field) /\ IsValue(raw)
  <2>1. j \in DOMAIN f.fields
    BY FormIsKeyed
  <2> QED
    BY <1>1, <1>2, <2>1 DEF IsForm, Answered
<1>5. r = checkValue(field, raw) /\ s = check_value(field, raw) /\ Err(f, d, j) = ErrorOf(field, r)
  BY <1>1, <1>2, <1>3 DEF Res, Err
<1>6. Agree(field, raw, r, s)
  BY <1>4, <1>5, ValuesAgree
<1> QED
  BY <1>1, <1>2, <1>3, <1>5, <1>6, ErrorsAgree

(* The server has found a of the first i fields where the browser found w. *)
Alike(a, w, f, d, walk, i) ==
    /\ DOMAIN a.types = {f.fields[j].key : j \in 1..i}
    /\ \A j \in 1..i : a.types[f.fields[j].key] = f.fields[j].type
    /\ \A k : k \in a.vis <=> \E j \in 1..i : k = f.fields[j].key /\ Vis(f, d, walk, j)
    /\ a.clean = w.clean
    /\ \A k : k \in a.bad <=> \E j \in 1..i : k = f.fields[j].key /\ Bad(f, d, walk, j)

(* The condition that Judged looks at. *)
ShownToServer(a, field) ==
    Has(field, "showIf") =>
        /\ field.showIf.field \in a.vis
        /\ holds(field.showIf, a.types[field.showIf.field], Answer(a.clean, field.showIf.field),
                 field.showIf.field \in DOMAIN a.clean)

LEMMA ShownAlike ==
    ASSUME NEW f, NEW d, NEW walk, IsForm(f), Answered(f, d), NEW n \in Nat, n + 1 <= Len(f.fields),
           NEW w, w = walk[n], Finds(w, f, d, walk, n), NEW a, Alike(a, w, f, d, walk, n)
    PROVE  ShownToServer(a, f.fields[n + 1]) <=> Vis(f, d, walk, n + 1)
<1>1. PICK m : m = n + 1 /\ m - 1 = n
  OBVIOUS
<1>2. PICK field : field = f.fields[m]
  OBVIOUS
<1>3. Vis(f, d, walk, m) <=> Shown(f.fields, m, w, d)
  BY <1>1 DEF Vis
<1>4. CASE ~Has(field, "showIf")
  BY <1>1, <1>2, <1>3, <1>4 DEF Shown, ShownToServer
<1>5. CASE Has(field, "showIf")
  <2>1. PICK cond : cond = field.showIf
    OBVIOUS
  <2>2. PICK c : c = cond.field
    OBVIOUS
  <2>3. PICK named : named = {j \in 1..n : f.fields[j].key = c}
    OBVIOUS
  <2>4. Shown(f.fields, m, w, d) <=>
          /\ named # {}
          /\ w.shown[c]
          /\ conditionHolds(cond, f.fields[CHOOSE j \in named : \A k \in named : k <= j],
                            Answer(w.clean, c), c \in DOMAIN w.clean)
    BY <1>1, <1>2, <1>5, <2>1, <2>2, <2>3 DEF Shown
  <2>5. ShownToServer(a, field) <=>
          c \in a.vis /\ holds(cond, a.types[c], Answer(w.clean, c), c \in DOMAIN w.clean)
    BY <1>5, <2>1, <2>2 DEF ShownToServer, Alike
  <2>6. CASE named = {}
    <3>1. c \notin a.vis
      BY <2>3, <2>6 DEF Alike
    <3> QED
      BY <1>1, <1>2, <1>3, <2>4, <2>5, <2>6, <3>1
  <2>7. CASE named # {}
    <3>1. PICK j \in named : TRUE
      BY <2>7
    <3>2. j \in 1..n /\ f.fields[j].key = c /\ j \in 1..Len(f.fields)
      <4>1. Len(f.fields) \in Nat
        BY FormIsKeyed DEF Keyed
      <4> QED
        BY <2>3, <3>1, <4>1
    <3>3. \A k \in 1..n : f.fields[k].key = c => k = j
      <4>1. \A k \in 1..n : k \in 1..Len(f.fields)
        BY FormIsKeyed DEF Keyed
      <4> QED
        BY <3>2, <4>1, FormIsKeyed DEF Keyed
    <3>4. named = {j}
      BY <2>3, <3>1, <3>3
    <3>5. (CHOOSE x \in named : \A k \in named : k <= x) = j
      BY <3>2, <3>4
    <3>6. w.shown[c] = Vis(f, d, walk, j)
      BY <3>2 DEF Finds
    <3>7. c \in a.vis <=> Vis(f, d, walk, j)
      BY <3>2, <3>3 DEF Alike
    <3>8. a.types[c] = f.fields[j].type
      BY <3>2 DEF Alike
    <3>9. c \in DOMAIN w.clean => (f.fields[j].type = "multiselect" => Answer(w.clean, c)[1] = "array")
      <4> SUFFICES ASSUME c \in DOMAIN w.clean, f.fields[j].type = "multiselect"
                   PROVE  Answer(w.clean, c)[1] = "array"
        OBVIOUS
      <4>1. Sent(f, d, walk, j)
        <5>1. PICK k \in 1..n : c = f.fields[k].key /\ Sent(f, d, walk, k)
          BY DEF Finds
        <5> QED
          BY <3>3, <5>1
      <4>2. Answer(w.clean, c) = Res(f, d, j).value
        BY <3>2, <4>1 DEF Finds, Answer
      <4>3. PICK s : s = check_value(f.fields[j], Answer(d, f.fields[j].key))
        OBVIOUS
      <4> QED
        BY <3>2, <4>1, <4>2, <4>3, FieldAgrees DEF Sent
    <3>10. PICK value : value = Answer(w.clean, c)
      OBVIOUS
    <3>11. PICK given \in BOOLEAN : given <=> c \in DOMAIN w.clean
      OBVIOUS
    <3>12. PICK controller : controller = f.fields[j]
      OBVIOUS
    <3>13. holds(cond, controller.type, value, given) <=> conditionHolds(cond, controller, value, given)
      BY <3>9, <3>10, <3>11, <3>12, ConditionsAgree
    <3>14. given = (c \in DOMAIN w.clean)
      BY <3>11
    <3> QED
      BY <1>1, <1>2, <1>3, <2>4, <2>5, <2>7, <3>5, <3>6, <3>7, <3>8, <3>10, <3>12, <3>13, <3>14
  <2> QED
    BY <2>6, <2>7
<1> QED
  BY <1>4, <1>5

LEMMA AlikeStep ==
    ASSUME NEW f, NEW d, NEW walk, IsForm(f), Answered(f, d), NEW n \in Nat, n + 1 <= Len(f.fields),
           NEW w, w = walk[n], Finds(w, f, d, walk, n), NEW a, Alike(a, w, f, d, walk, n)
    PROVE  Alike(Judged(a, f.fields[n + 1], d), Walked(f.fields, n + 1, w, d), f, d, walk, n + 1)
<1>1. PICK m : m = n + 1 /\ m - 1 = n
  OBVIOUS
<1>2. PICK field : field = f.fields[m]
  OBVIOUS
<1>3. PICK k : k = field.key
  OBVIOUS
<1>4. PICK s : s = check_value(field, Answer(d, k))
  OBVIOUS
<1>5. PICK r : r = Res(f, d, m)
  OBVIOUS
<1>6. PICK err : err = Err(f, d, m)
  OBVIOUS
<1>7. PICK shown \in BOOLEAN : shown <=> Vis(f, d, walk, m)
  OBVIOUS
<1>8. ShownToServer(a, field) <=> shown
  BY <1>1, <1>2, <1>7, ShownAlike
<1>9. /\ m \in 1..Len(f.fields) /\ 1..m = (1..n) \cup {m} /\ m \notin 1..n
      /\ \A j \in 1..n : j \in 1..Len(f.fields)
  BY <1>1, FormIsKeyed DEF Keyed
<1>10. \A j \in 1..n : f.fields[j].key # k
  BY <1>2, <1>3, <1>9, FormIsKeyed DEF Keyed
<1>11. /\ IsBad(field, s) <=> err # NoError
       /\ s[1] = "given" <=> r.provided
       /\ r.provided => s[2] = r.value
  BY <1>2, <1>3, <1>4, <1>5, <1>6, <1>9, FieldAgrees
<1>12. PICK y : y = Judged(a, field, d)
  OBVIOUS
<1>13. PICK x : x = Walked(f.fields, m, w, d)
  OBVIOUS
<1>14. PICK bad \in BOOLEAN : bad <=> IsBad(field, s)
  OBVIOUS
<1>15. /\ y.types = With(a.types, k, field.type)
       /\ y.vis = IF shown THEN a.vis \cup {k} ELSE a.vis \ {k}
       /\ y.clean = IF shown /\ ~bad /\ s[1] = "given" THEN With(a.clean, k, s[2]) ELSE a.clean
       /\ y.bad = IF shown /\ bad THEN a.bad \cup {k} ELSE a.bad
  BY <1>3, <1>4, <1>8, <1>12, <1>14 DEF Judged, ShownToServer, IsBad
<1>16. x.clean = IF shown /\ err = NoError /\ r.provided THEN With(w.clean, k, r.value) ELSE w.clean
  BY <1>1, <1>2, <1>3, <1>5, <1>6, <1>7, <1>13 DEF Walked, Vis, Res, Err
<1>17. \A j \in 1..m : y.types[f.fields[j].key] = f.fields[j].type
  <2> SUFFICES ASSUME NEW j \in 1..m PROVE y.types[f.fields[j].key] = f.fields[j].type
    OBVIOUS
  <2>1. CASE j = m
    BY <1>2, <1>3, <1>15, <2>1 DEF With
  <2>2. CASE j # m
    <3>1. j \in 1..n /\ f.fields[j].key # k
      BY <1>9, <1>10, <2>2
    <3>2. a.types[f.fields[j].key] = f.fields[j].type
      BY <3>1 DEF Alike
    <3>3. f.fields[j].key \in DOMAIN a.types
      BY <3>1 DEF Alike
    <3> QED
      BY <1>15, <3>1, <3>2, <3>3 DEF With
  <2> QED
    BY <2>1, <2>2
<1>a. DOMAIN y.types = {f.fields[j].key : j \in 1..m}
  <2>1. DOMAIN a.types = {f.fields[j].key : j \in 1..n}
    BY DEF Alike
  <2>2. DOMAIN y.types = DOMAIN a.types \cup {k}
    BY <1>15 DEF With
  <2> QED
    BY <1>2, <1>3, <1>9, <2>1, <2>2
<1>18. y.clean = x.clean
  <2>1. a.clean = w.clean
    BY DEF Alike
  <2> QED
    BY <1>11, <1>14, <1>15, <1>16, <2>1
<1>19. \A z : z \in y.vis <=> \E j \in 1..m : z = f.fields[j].key /\ Vis(f, d, walk, j)
  <2>1. \A z : z \in a.vis <=> \E j \in 1..n : z = f.fields[j].key /\ Vis(f, d, walk, j)
    BY DEF Alike
  <2>2. k \notin a.vis
    BY <1>10, <2>1
  <2> QED
    BY <1>2, <1>3, <1>7, <1>9, <1>15, <2>1, <2>2
<1>20. \A z : z \in y.bad <=> \E j \in 1..m : z = f.fields[j].key /\ Bad(f, d, walk, j)
  <2>1. \A z : z \in a.bad <=> \E j \in 1..n : z = f.fields[j].key /\ Bad(f, d, walk, j)
    BY DEF Alike
  <2>2. Bad(f, d, walk, m) <=> shown /\ bad
    BY <1>6, <1>7, <1>11, <1>14 DEF Bad
  <2> QED
    BY <1>2, <1>3, <1>9, <1>15, <2>1, <2>2
<1> QED
  BY <1>1, <1>2, <1>12, <1>13, <1>17, <1>a, <1>18, <1>19, <1>20 DEF Alike

(* The fields that are shown, and those that are refused. *)
ShownOf(f, d) == {k \in {f.fields[i].key : i \in DOMAIN f.fields} : visible(f, d)[k]}
RefusedOf(f, d) == DOMAIN problemsToErrors(Evaluate(f, d).problems)

LEMMA ServerSees ==
    ASSUME NEW f, NEW d, IsForm(f), Answered(f, d)
    PROVE  LET server == ServerEvaluate(f, d)
           IN  ShownOf(f, d) = server.vis /\ RefusedOf(f, d) = server.bad /\ clean(f, d) = server.clean
<1>1. PICK N \in Nat : N = Len(f.fields)
  BY FormIsKeyed DEF Keyed
<1>2. PICK walk : Walks(walk, f, d)
  BY <1>1, EvaluateWalks
<1>3. PICK acc : Judges(acc, f, d)
  BY <1>1, ServerJudges
<1>4. \A i \in 0..N : Finds(walk[i], f, d, walk, i)
  BY <1>1, <1>2, FormIsKeyed, WalkFinds
<1>5. PICK A : A = {i \in 0..N : Alike(acc[i], walk[i], f, d, walk, i)}
  OBVIOUS
<1>6. 0 \in A
  <2>1. /\ walk[0].clean = << >> /\ acc[0].clean = << >> /\ acc[0].vis = {} /\ acc[0].bad = {}
        /\ 1..0 = {} /\ DOMAIN acc[0].types = {}
    BY <1>2, <1>3 DEF Walks, Judges, NothingYet, NothingJudged
  <2>2. Alike(acc[0], walk[0], f, d, walk, 0)
    BY <2>1 DEF Alike
  <2> QED
    BY <1>1, <1>5, <2>2
<1>7. \A i \in 0..N : i \in A /\ i < N => i + 1 \in A
  <2> SUFFICES ASSUME NEW n \in 0..N, n \in A, n < N PROVE n + 1 \in A
    OBVIOUS
  <2>1. n \in Nat /\ n + 1 <= Len(f.fields) /\ n + 1 \in 1..N /\ (n + 1) - 1 = n /\ n + 1 \in 0..N
    BY <1>1
  <2>2. Alike(acc[n], walk[n], f, d, walk, n) /\ Finds(walk[n], f, d, walk, n)
    BY <1>4, <1>5
  <2>3. Alike(Judged(acc[n], f.fields[n + 1], d), Walked(f.fields, n + 1, walk[n], d), f, d, walk, n + 1)
    BY <2>1, <2>2, AlikeStep
  <2>4. /\ walk[n + 1] = Walked(f.fields, n + 1, walk[n], d)
        /\ acc[n + 1] = Judged(acc[n], f.fields[n + 1], d)
    BY <1>1, <1>2, <1>3, <2>1 DEF Walks, Judges
  <2> QED
    BY <1>5, <2>1, <2>3, <2>4
<1>8. \A i \in 0..N : i \in A
  BY <1>1, <1>6, <1>7, IntervalInduction
<1>9. PICK a : a = ServerEvaluate(f, d)
  OBVIOUS
<1>10. PICK w : w = Evaluate(f, d)
  OBVIOUS
<1>11. Alike(a, w, f, d, walk, N) /\ Finds(w, f, d, walk, N)
  BY <1>1, <1>2, <1>3, <1>4, <1>5, <1>8, <1>9, <1>10 DEF Walks, Judges
<1>12. ShownOf(f, d) = a.vis
  <2>1. DOMAIN f.fields = 1..N
    BY <1>1, FormIsKeyed
  <2>2. \A j \in 1..N : w.shown[f.fields[j].key] = Vis(f, d, walk, j)
    BY <1>11 DEF Finds
  <2>3. \A k : k \in ShownOf(f, d) <=> \E j \in 1..N : k = f.fields[j].key /\ Vis(f, d, walk, j)
    BY <1>10, <2>1, <2>2 DEF ShownOf, visible
  <2>4. \A k : k \in a.vis <=> \E j \in 1..N : k = f.fields[j].key /\ Vis(f, d, walk, j)
    BY <1>11 DEF Alike
  <2> QED
    BY <2>3, <2>4
<1>13. RefusedOf(f, d) = a.bad
  <2>1. PICK ps : ps = w.problems
    OBVIOUS
  <2>2. RefusedOf(f, d) = {ps[n].key : n \in DOMAIN ps}
    BY <1>10, <2>1 DEF RefusedOf, problemsToErrors
  <2>3. DOMAIN ps = 1..Len(ps)
    BY <1>11, <2>1 DEF Finds
  <2>4. \A k : k \in RefusedOf(f, d) <=> \E j \in 1..N : k = f.fields[j].key /\ Bad(f, d, walk, j)
    <3>1. \A j \in 1..N : Said(f, d, j).key = f.fields[j].key
      BY DEF Said, Problem
    <3>2. \A n \in 1..Len(ps) : \E j \in 1..N : Bad(f, d, walk, j) /\ ps[n] = Said(f, d, j)
      BY <1>11, <2>1 DEF Finds
    <3>3. \A j \in 1..N : Bad(f, d, walk, j) => \E n \in 1..Len(ps) : ps[n] = Said(f, d, j)
      BY <1>11, <2>1 DEF Finds
    <3>4. ASSUME NEW k, k \in RefusedOf(f, d)
          PROVE  \E j \in 1..N : k = f.fields[j].key /\ Bad(f, d, walk, j)
      <4>1. PICK n \in 1..Len(ps) : k = ps[n].key
        BY <2>2, <2>3, <3>4
      <4>2. PICK j \in 1..N : Bad(f, d, walk, j) /\ ps[n] = Said(f, d, j)
        BY <3>2, <4>1
      <4> QED
        BY <3>1, <4>1, <4>2
    <3>5. ASSUME NEW j \in 1..N, Bad(f, d, walk, j) PROVE f.fields[j].key \in RefusedOf(f, d)
      <4>1. PICK n \in 1..Len(ps) : ps[n] = Said(f, d, j)
        BY <3>3, <3>5
      <4>2. ps[n].key = f.fields[j].key /\ n \in DOMAIN ps
        BY <2>3, <3>1, <4>1
      <4> QED
        BY <2>2, <4>2
    <3> QED
      BY <3>4, <3>5
  <2>5. \A k : k \in a.bad <=> \E j \in 1..N : k = f.fields[j].key /\ Bad(f, d, walk, j)
    BY <1>11 DEF Alike
  <2> QED
    BY <2>4, <2>5
<1>14. clean(f, d) = a.clean
  BY <1>10, <1>11 DEF Alike, clean
<1> QED
  BY <1>9, <1>12, <1>13, <1>14

-----------------------------------------------------------------------------
(* What is sent is valid by itself *)

LEMMA SentAgain ==
    ASSUME NEW f, NEW d, IsForm(f), Answered(f, d), Valid(f, d)
    PROVE  Evaluate(f, clean(f, d)) = Evaluate(f, d) /\ Answered(f, clean(f, d))
<1>1. PICK N \in Nat : N = Len(f.fields)
  BY FormIsKeyed DEF Keyed
<1>2. PICK e : e = clean(f, d)
  OBVIOUS
<1>3. PICK v : Walks(v, f, d)
  BY <1>1, EvaluateWalks
<1>4. PICK w : Walks(w, f, e)
  BY <1>1, EvaluateWalks
<1>5. PICK x : x = Evaluate(f, d)
  OBVIOUS
<1>6. x = v[N] /\ Finds(x, f, d, v, N) /\ e = x.clean
  <2>1. x = v[N]
    BY <1>1, <1>3, <1>5 DEF Walks
  <2>2. Finds(v[N], f, d, v, N)
    BY <1>1, <1>3, FormIsKeyed, WalkFinds
  <2> QED
    BY <1>2, <1>5, <2>1, <2>2 DEF clean
<1>7. \A j \in 1..N : ~Bad(f, d, v, j)
  <2>1. x.problems = << >>
    BY <1>5 DEF Valid
  <2>2. \A j \in 1..N : Bad(f, d, v, j) => \E n \in 1..Len(x.problems) : x.problems[n] = Said(f, d, j)
    BY <1>6 DEF Finds
  <2>3. 1..Len(x.problems) = {}
    BY <2>1
  <2> QED
    BY <2>2, <2>3
<1>8. ASSUME NEW j \in 1..N
      PROVE  Answer(e, f.fields[j].key) = IF Sent(f, d, v, j) THEN Res(f, d, j).value ELSE None
  <2>1. f.fields[j].key \in DOMAIN e <=> Sent(f, d, v, j)
    <3>1. f.fields[j].key \in DOMAIN e <=> \E i \in 1..N : f.fields[j].key = f.fields[i].key /\ Sent(f, d, v, i)
      BY <1>6 DEF Finds
    <3>2. \A i \in 1..N : f.fields[j].key = f.fields[i].key => i = j
      BY <1>1, FormIsKeyed DEF Keyed
    <3> QED
      BY <3>1, <3>2
  <2>2. Sent(f, d, v, j) => e[f.fields[j].key] = Res(f, d, j).value
    BY <1>6 DEF Finds
  <2> QED
    BY <2>1, <2>2 DEF Answer
<1>9. ASSUME NEW j \in 1..N
      PROVE  /\ ~Sent(f, d, v, j) => Res(f, e, j) = Absent
             /\ Sent(f, d, v, j) => Res(f, e, j) = Res(f, d, j)
             /\ IsValue(Answer(e, f.fields[j].key))
  <2>1. PICK s : s = check_value(f.fields[j], Answer(d, f.fields[j].key))
    OBVIOUS
  <2>2. Res(f, d, j).provided => /\ IsValue(Res(f, d, j).value)
                                 /\ checkValue(f.fields[j], Res(f, d, j).value) = Res(f, d, j)
    BY <1>1, <2>1, FieldAgrees
  <2>3. IsValue(None) /\ checkValue(f.fields[j], None) = Absent
    BY DEF IsValue, checkValue
  <2> QED
    BY <1>8, <2>2, <2>3 DEF Res, Sent
<1>10. PICK A : A = {i \in 0..N : w[i] = v[i]}
  OBVIOUS
<1>11. 0 \in A
  BY <1>1, <1>3, <1>4, <1>10 DEF Walks
<1>12. \A i \in 0..N : i \in A /\ i < N => i + 1 \in A
  <2> SUFFICES ASSUME NEW n \in 0..N, n \in A, n < N PROVE n + 1 \in A
    OBVIOUS
  <2>1. PICK i : i = n + 1
    OBVIOUS
  <2>2. i \in 1..N /\ i - 1 = n /\ i \in 0..N
    BY <1>1, <2>1
  <2>3. PICK b : b = v[n] /\ b = w[n]
    BY <1>10
  <2>4. v[i] = Walked(f.fields, i, b, d) /\ w[i] = Walked(f.fields, i, b, e)
    BY <1>1, <1>3, <1>4, <2>2, <2>3 DEF Walks
  <2>5. Shown(f.fields, i, b, e) = Shown(f.fields, i, b, d)
    BY DEF Shown
  <2>6. Vis(f, d, v, i) <=> Shown(f.fields, i, b, d)
    BY <2>2, <2>3 DEF Vis
  <2>7. Walked(f.fields, i, b, e) = Walked(f.fields, i, b, d)
    <3>1. CASE ~Vis(f, d, v, i)
      BY <2>5, <2>6, <3>1 DEF Walked
    <3>2. CASE Sent(f, d, v, i)
      <4>1. Res(f, e, i) = Res(f, d, i)
        BY <1>9, <2>2, <3>2
      <4> QED
        BY <2>5, <4>1 DEF Walked, Res
    <3>3. CASE Vis(f, d, v, i) /\ ~Sent(f, d, v, i)
      <4>1. Err(f, d, i) = NoError
        BY <1>7, <2>2, <3>3 DEF Bad
      <4>2. ~Res(f, d, i).provided
        BY <3>3, <4>1 DEF Sent
      <4>3. Res(f, e, i) = Absent
        BY <1>9, <2>2, <3>3
      <4>4. Absent.error = NoError /\ ~Absent.provided
        BY DEF Absent
      <4>5. ErrorOf(f.fields[i], Res(f, e, i)) = NoError
        <5>1. ~IsRequired(f.fields[i]) \/ Res(f, d, i).error # NoError
          BY <4>1, <4>2 DEF Err, ErrorOf, NoError
        <5>2. Res(f, d, i).error = NoError
          BY <4>1 DEF Err, ErrorOf
        <5> QED
          BY <4>3, <4>4, <5>1, <5>2 DEF ErrorOf
      <4>6. ErrorOf(f.fields[i], Res(f, d, i)) = NoError
        BY <4>1 DEF Err
      <4>7. ~Res(f, e, i).provided
        BY <4>3, <4>4
      <4> QED
        BY <2>5, <4>2, <4>5, <4>6, <4>7 DEF Walked, Res
    <3> QED
      BY <3>1, <3>2, <3>3
  <2> QED
    BY <1>10, <2>1, <2>2, <2>4, <2>7
<1>13. w[N] = v[N]
  <2>1. \A i \in 0..N : i \in A
    BY <1>1, <1>11, <1>12, IntervalInduction
  <2> QED
    BY <1>1, <1>10, <2>1
<1>14. Evaluate(f, e) = x
  BY <1>1, <1>4, <1>6, <1>13 DEF Walks
<1>15. Answered(f, e)
  BY <1>1, <1>9 DEF Answered
<1> QED
  BY <1>2, <1>5, <1>14, <1>15

-----------------------------------------------------------------------------
(* The inputs *)

LEMMA OptionsAre ==
    ASSUME NEW field, IsField(field), field.type \in {"select", "multiselect"}
    PROVE  /\ field.options \in Seq(DOMAIN Text \ {Blank}) /\ IsInjective(field.options)
           /\ OptionsOf(field) = ToSet(field.options) /\ OptionsOf(field) \subseteq DOMAIN Text
<1>1. Has(field, "options") /\ field.options \in Seq(DOMAIN Text \ {Blank}) /\ IsInjective(field.options)
  BY DEF IsField
<1>2. OptionsOf(field) = ToSet(field.options)
  BY <1>1 DEF OptionsOf
<1>3. ToSet(field.options) \subseteq DOMAIN Text
  BY <1>1 DEF ToSet
<1> QED
  BY <1>1, <1>2, <1>3

LEMMA ToggleFits ==
    ASSUME NEW field, IsField(field), field.type = "multiselect", NEW raw, NEW choice, NEW on
    PROVE  IsValue(toggle(field, raw, choice, on)) /\ Fits(field, toggle(field, raw, choice, on))
<1>1. PICK S : S = IF on THEN (IF raw[1] = "array" THEN ToSet(raw[2]) ELSE {}) \cup {choice}
                   ELSE (IF raw[1] = "array" THEN ToSet(raw[2]) ELSE {}) \ {choice}
  OBVIOUS
<1>2. PICK T : T = DOMAIN Text \ {Blank}
  OBVIOUS
<1>3. PICK options : options = field.options
  OBVIOUS
<1>4. PICK next : next = Kept(options, S)
  OBVIOUS
<1>5. toggle(field, raw, choice, on) = IF next = << >> THEN None ELSE List(next)
  BY <1>1, <1>3, <1>4 DEF toggle
<1>6. options \in Seq(T) /\ IsInjective(options) /\ OptionsOf(field) = ToSet(options)
  BY <1>2, <1>3, OptionsAre
<1>7. Sifts(next, options, S, Len(options), T)
  BY <1>4, <1>6, KeptElements
<1>8. CASE next = << >>
  BY <1>5, <1>8 DEF IsValue, Fits
<1>9. CASE next # << >>
  <2>1. PICK v : v = List(next)
    OBVIOUS
  <2>2. v[1] = "array" /\ v[2] = next
    BY <2>1 DEF List
  <2>3. next \in Seq(T) /\ DOMAIN next = 1..Len(next)
    BY <1>7 DEF Sifts
  <2>4. next \in Seq(DOMAIN Text)
    BY <1>2, <2>3
  <2>5. IsValue(v)
    BY <2>1, <2>2, <2>4 DEF IsValue
  <2>6. ToSet(next) \subseteq ToSet(options)
    <3>1. DOMAIN options = 1..Len(options)
      BY <1>6
    <3>2. \A i \in 1..Len(next) : \E j \in 1..Len(options) : next[i] = options[j]
      BY <1>7 DEF Sifts
    <3> QED
      BY <2>3, <3>1, <3>2 DEF ToSet
  <2>7. IsInjective(next)
    <3>1. \A i, j \in 1..Len(next) : next[i] = next[j] => i = j
      BY <1>7 DEF Sifts
    <3> QED
      BY <2>3, <3>1 DEF IsInjective
  <2>8. Distinct(OptionsOf(field), v)
    BY <1>6, <2>2, <2>6, <2>7 DEF Distinct
  <2> QED
    BY <1>5, <1>9, <2>1, <2>2, <2>5, <2>8 DEF Fits
<1> QED
  BY <1>8, <1>9

LEMMA ChangedFits ==
    ASSUME NEW field, IsField(field), NEW raw, NEW v \in Changed(field, raw, TypedTexts, TypedNumbers)
    PROVE  IsValue(v) /\ Fits(field, v)
<1>1. CASE field.type = "number"
  <2>1. v \in {Num(n) : n \in TypedNumbers} \cup {None}
    BY <1>1 DEF Changed, NumberChanges
  <2>2. CASE v = None
    BY <2>2 DEF IsValue, Fits
  <2>3. CASE v # None
    <3>1. PICK n \in TypedNumbers : v = Num(n)
      BY <2>1, <2>3
    <3>2. n \in Int /\ v[1] = "number" /\ v[2] = n
      BY <3>1, AnswersAssumption DEF Num
    <3> QED
      BY <1>1, <3>1, <3>2 DEF IsValue, Fits
  <2> QED
    BY <2>2, <2>3
<1>2. CASE field.type = "checkbox"
  <2>1. v = Bool(raw # Bool(TRUE))
    BY <1>2 DEF Changed
  <2>2. v \in {Bool(TRUE), Bool(FALSE)}
    <3>1. CASE raw = Bool(TRUE)
      <4>1. (raw # Bool(TRUE)) = FALSE
        BY <3>1
      <4> QED
        BY <2>1, <4>1
    <3>2. CASE raw # Bool(TRUE)
      <4>1. (raw # Bool(TRUE)) = TRUE
        BY <3>2
      <4> QED
        BY <2>1, <4>1
    <3> QED
      BY <3>1, <3>2
  <2>3. v[1] = "boolean"
    BY <2>1 DEF Bool
  <2> QED
    BY <1>2, <2>2, <2>3 DEF IsValue, Fits
<1>3. CASE field.type = "select"
  <2>1. v \in {Str(o) : o \in OptionsOf(field)} \cup {None}
    BY <1>3 DEF Changed
  <2>2. CASE v = None
    BY <2>2 DEF IsValue, Fits
  <2>3. CASE v # None
    <3>1. PICK o \in OptionsOf(field) : v = Str(o)
      BY <2>1, <2>3
    <3>2. o \in DOMAIN Text /\ v[1] = "string" /\ v[2] = o
      BY <1>3, <3>1, OptionsAre DEF Str
    <3> QED
      BY <1>3, <3>1, <3>2 DEF IsValue, Fits, StringTypes
  <2> QED
    BY <2>2, <2>3
<1>4. CASE field.type = "multiselect"
  <2>1. PICK o, on : v = toggle(field, raw, o, on)
    BY <1>4 DEF Changed
  <2> QED
    BY <1>4, <2>1, ToggleFits
<1>5. CASE field.type \notin {"number", "checkbox", "select", "multiselect"}
  <2>1. v \in {Str(s) : s \in TypedTexts} \cup {Padded(s) : s \in TypedTexts}
    BY <1>5 DEF Changed
  <2>2. PICK s \in TypedTexts : v = Str(s) \/ v = Padded(s)
    BY <2>1
  <2>3. s \in DOMAIN Text
    BY AnswersAssumption
  <2>4. v[1] = "string"
    <3>1. CASE v = Str(s)
      BY <3>1 DEF Str
    <3>2. CASE v = Padded(s)
      BY <3>2 DEF Padded
    <3> QED
      BY <2>2, <3>1, <3>2
  <2>5. field.type \in StringTypes
    BY <1>5 DEF IsField, FieldTypes, StringTypes
  <2> QED
    BY <1>5, <2>2, <2>3, <2>4, <2>5 DEF IsValue, Fits
<1> QED
  BY <1>1, <1>2, <1>3, <1>4, <1>5

-----------------------------------------------------------------------------
(* The inductive invariant *)

AnswersWell ==
    /\ form \in FormSet
    /\ DOMAIN data = FormKeys
    /\ \A k \in FormKeys : IsValue(data[k])

WidgetsFit ==
    by = "widgets" => \A i \in DOMAIN form.fields : Fits(form.fields[i], data[form.fields[i].key])

ErrorNow(i) == ErrorOf(form.fields[i], checkValue(form.fields[i], data[form.fields[i].key]))

(* Every error is that of the present answer; that of the form is alone. *)
ErrorsNow ==
    /\ FORM_ERROR_KEY \in DOMAIN errors => DOMAIN errors = {FORM_ERROR_KEY}
    /\ \A i \in DOMAIN form.fields :
            form.fields[i].key \in DOMAIN errors => errors[form.fields[i].key] = ErrorNow(i)

AnswersInv == AnswersWell /\ WidgetsFit /\ ErrorsNow

LEMMA FormsAreForms ==
    ASSUME AnswersWell
    PROVE  /\ IsForm(form) /\ Keyed(form) /\ DOMAIN form.fields = 1..Len(form.fields)
           /\ \A i \in DOMAIN form.fields : form.fields[i].key \in FormKeys /\ IsField(form.fields[i])
           /\ \A i, j \in DOMAIN form.fields : form.fields[i].key = form.fields[j].key => i = j
<1>1. IsForm(form)
  BY AnswersAssumption DEF AnswersWell
<1> QED
  BY <1>1, FormIsKeyed DEF IsForm, FormKeys

LEMMA AnswersInitInv == AnswersInit => AnswersInv
<1> SUFFICES ASSUME AnswersInit PROVE AnswersInv
  OBVIOUS
<1>1. AnswersWell
  BY DEF AnswersInit, AnswersWell, IsValue
<1>2. \A i \in DOMAIN form.fields : data[form.fields[i].key] = None
  BY DEF AnswersInit, FormKeys
<1>3. WidgetsFit
  BY <1>2 DEF WidgetsFit, Fits
<1>4. DOMAIN errors = {}
  BY DEF AnswersInit
<1>5. ErrorsNow
  BY <1>4 DEF ErrorsNow
<1> QED
  BY <1>1, <1>3, <1>5 DEF AnswersInv

(* What every change of one answer keeps. *)
LEMMA OneAnswer ==
    ASSUME AnswersInv, NEW m \in DOMAIN form.fields, NEW v, IsValue(v),
           by = "widgets" => Fits(form.fields[m], v),
           data' = [data EXCEPT ![form.fields[m].key] = v],
           errors' = Cleared(form.fields[m].key), form' = form, by' = by
    PROVE  AnswersInv'
<1>1. PICK k : k = form.fields[m].key
  OBVIOUS
<1>2. k \in FormKeys /\ FormKeys' = FormKeys
  BY <1>1 DEF FormKeys
<1>3. DOMAIN data' = FormKeys /\ data'[k] = v /\ \A j \in FormKeys \ {k} : data'[j] = data[j]
  BY <1>1, <1>2 DEF AnswersInv, AnswersWell
<1>4. AnswersWell'
  BY <1>2, <1>3 DEF AnswersInv, AnswersWell
<1>5. \A i \in DOMAIN form.fields : i # m => form.fields[i].key \in FormKeys \ {k}
  BY <1>1, FormsAreForms DEF AnswersInv
<1>6. WidgetsFit'
  BY <1>1, <1>3, <1>5 DEF AnswersInv, WidgetsFit
<1>7. /\ DOMAIN errors' = DOMAIN errors \ {k, FORM_ERROR_KEY}
      /\ \A j \in DOMAIN errors' : errors'[j] = errors[j]
  BY <1>1 DEF Cleared
<1>8. ErrorsNow'
  <2>1. ASSUME NEW i \in DOMAIN form.fields, form.fields[i].key \in DOMAIN errors'
        PROVE  errors'[form.fields[i].key] = ErrorNow(i)'
    <3>1. i # m
      BY <1>1, <1>7, <2>1
    <3>2. data'[form.fields[i].key] = data[form.fields[i].key]
      BY <1>3, <1>5, <3>1
    <3>3. errors[form.fields[i].key] = ErrorNow(i)
      BY <1>7, <2>1 DEF AnswersInv, ErrorsNow
    <3> QED
      BY <1>7, <2>1, <3>2, <3>3 DEF ErrorNow
  <2>2. FORM_ERROR_KEY \notin DOMAIN errors'
    BY <1>7
  <2> QED
    BY <2>1, <2>2 DEF ErrorsNow
<1> QED
  BY <1>4, <1>6, <1>8 DEF AnswersInv

(* The errors of a refused submission are those of the fields' answers. *)
LEMMA ProblemsAreErrors ==
    ASSUME NEW f, NEW d, IsForm(f), NEW e, e = problemsToErrors(Evaluate(f, d).problems)
    PROVE  /\ \A k \in DOMAIN e : \E j \in 1..Len(f.fields) : k = f.fields[j].key
           /\ \A j \in 1..Len(f.fields) : f.fields[j].key \in DOMAIN e => e[f.fields[j].key] = Err(f, d, j)
<1>1. PICK N \in Nat : N = Len(f.fields)
  BY FormIsKeyed DEF Keyed
<1>2. PICK walk : Walks(walk, f, d)
  BY <1>1, EvaluateWalks
<1>3. PICK ps : ps = Evaluate(f, d).problems
  OBVIOUS
<1>4. /\ DOMAIN ps = 1..Len(ps)
      /\ \A n \in 1..Len(ps) : \E j \in 1..N : ps[n] = Said(f, d, j)
  <2>1. Finds(walk[N], f, d, walk, N)
    BY <1>1, <1>2, FormIsKeyed, WalkFinds
  <2>2. ps = walk[N].problems
    BY <1>1, <1>2, <1>3 DEF Walks
  <2> QED
    BY <1>1, <2>1, <2>2 DEF Finds
<1>5. \A j \in 1..N : Said(f, d, j).key = f.fields[j].key /\ Said(f, d, j).error = Err(f, d, j)
  BY DEF Said, Problem
<1>6. DOMAIN e = {ps[n].key : n \in DOMAIN ps}
  BY <1>3 DEF problemsToErrors
<1>7. ASSUME NEW k \in DOMAIN e PROVE \E j \in 1..N : k = f.fields[j].key
  <2>1. PICK n \in DOMAIN ps : k = ps[n].key
    BY <1>6
  <2>2. PICK j \in 1..N : ps[n] = Said(f, d, j)
    BY <1>4, <2>1
  <2> QED
    BY <1>5, <2>1, <2>2
<1>8. ASSUME NEW j \in 1..N, f.fields[j].key \in DOMAIN e PROVE e[f.fields[j].key] = Err(f, d, j)
  <2>1. PICK k : k = f.fields[j].key
    OBVIOUS
  <2>2. PICK named : named = {n \in DOMAIN ps : ps[n].key = k}
    OBVIOUS
  <2>3. PICK n : n = CHOOSE x \in named : \A y \in named : x <= y
    OBVIOUS
  <2>4. e[k] = ps[n].error
    BY <1>3, <1>6, <1>8, <2>1, <2>2, <2>3 DEF problemsToErrors
  <2>5. n \in named
    <3>1. named # {}
      BY <1>6, <1>8, <2>1, <2>2
    <3>2. named \in SUBSET Nat
      BY <1>4, <2>2
    <3>3. \E x \in named : \A y \in named : x <= y
      BY <3>1, <3>2, LeastNumber
    <3> QED
      BY <2>3, <3>3
  <2>6. PICK i \in 1..N : ps[n] = Said(f, d, i)
    BY <1>4, <2>2, <2>5
  <2>7. f.fields[i].key = f.fields[j].key
    BY <1>5, <2>1, <2>2, <2>5, <2>6
  <2>8. i = j
    BY <1>1, <2>7, FormIsKeyed DEF Keyed
  <2> QED
    BY <1>5, <2>1, <2>4, <2>6, <2>8
<1> QED
  BY <1>1, <1>7, <1>8

LEMMA AnswersStep == AnswersInv /\ [AnswersNext]_answerVars => AnswersInv'
<1> SUFFICES ASSUME AnswersInv, [AnswersNext]_answerVars PROVE AnswersInv'
  OBVIOUS
<1>1. CASE submit
  <2>1. form' = form /\ data' = data /\ by' = by /\ FormKeys' = FormKeys
    BY <1>1 DEF submit, FormKeys
  <2>2. AnswersWell' /\ WidgetsFit'
    BY <2>1 DEF AnswersInv, AnswersWell, WidgetsFit
  <2>3. CASE Valid(form, data)
    <3>1. DOMAIN errors' = {FORM_ERROR_KEY}
      BY <1>1, <2>3 DEF submit
    <3>2. \A i \in DOMAIN form.fields : form.fields[i].key # FORM_ERROR_KEY
      BY FormsAreForms DEF AnswersInv, IsField
    <3> QED
      BY <2>1, <2>2, <3>1, <3>2 DEF AnswersInv, ErrorsNow
  <2>4. CASE ~Valid(form, data)
    <3>1. errors' = problemsToErrors(Evaluate(form, data).problems)
      BY <1>1, <2>4 DEF submit
    <3>2. IsForm(form) /\ DOMAIN form.fields = 1..Len(form.fields)
      BY FormsAreForms DEF AnswersInv
    <3>3. /\ \A k \in DOMAIN errors' : \E j \in 1..Len(form.fields) : k = form.fields[j].key
          /\ \A j \in 1..Len(form.fields) :
                form.fields[j].key \in DOMAIN errors' => errors'[form.fields[j].key] = Err(form, data, j)
      BY <3>1, <3>2, ProblemsAreErrors
    <3>4. FORM_ERROR_KEY \notin DOMAIN errors'
      <4>1. \A i \in DOMAIN form.fields : form.fields[i].key # FORM_ERROR_KEY
        BY FormsAreForms DEF AnswersInv, IsField
      <4> QED
        BY <3>2, <3>3, <4>1
    <3>5. \A j \in DOMAIN form.fields : Err(form, data, j) = ErrorNow(j)
      <4>1. \A j \in DOMAIN form.fields : Answer(data, form.fields[j].key) = data[form.fields[j].key]
        BY FormsAreForms DEF AnswersInv, AnswersWell, Answer
      <4> QED
        BY <4>1 DEF Err, Res, ErrorNow
    <3>6. \A j \in DOMAIN form.fields : ErrorNow(j)' = ErrorNow(j)
      BY <2>1 DEF ErrorNow
    <3>7. ErrorsNow'
      BY <2>1, <3>2, <3>3, <3>4, <3>5, <3>6 DEF ErrorsNow
    <3> QED
      BY <2>2, <3>7 DEF AnswersInv
  <2> QED
    BY <2>3, <2>4
<1>2. ASSUME NEW i \in DOMAIN form.fields, Type(form.fields[i]) PROVE AnswersInv'
  <2>1. PICK v \in Changed(form.fields[i], data[form.fields[i].key], TypedTexts, TypedNumbers) :
            data' = [data EXCEPT ![form.fields[i].key] = v]
    BY <1>2 DEF Type
  <2>2. IsField(form.fields[i])
    BY FormsAreForms DEF AnswersInv
  <2>3. IsValue(v) /\ Fits(form.fields[i], v)
    BY <2>1, <2>2, ChangedFits
  <2>4. errors' = Cleared(form.fields[i].key) /\ form' = form /\ by' = by
    BY <1>2 DEF Type
  <2> QED
    BY <2>1, <2>3, <2>4, OneAnswer
<1>3. ASSUME NEW k \in FormKeys, setAny(k) PROVE AnswersInv'
  <2>1. PICK i \in DOMAIN form.fields : k = form.fields[i].key
    BY DEF FormKeys
  <2>2. PICK v \in RawValues : data' = [data EXCEPT ![k] = v]
    BY <1>3 DEF setAny
  <2>3. IsValue(v)
    BY AnswersAssumption
  <2>4. errors' = Cleared(k) /\ form' = form /\ by' = by /\ by # "widgets"
    BY <1>3 DEF setAny
  <2> QED
    BY <2>1, <2>2, <2>3, <2>4, OneAnswer
<1>4. CASE UNCHANGED answerVars
  <2>1. form' = form /\ data' = data /\ errors' = errors /\ by' = by
    BY <1>4 DEF answerVars
  <2> QED
    BY <2>1 DEF AnswersInv, AnswersWell, WidgetsFit, ErrorsNow, ErrorNow, FormKeys
<1> QED
  BY <1>1, <1>2, <1>3, <1>4 DEF AnswersNext

(* Answers are values that fit the inputs they were given in, and errors   *)
(* are those of the present answers.                                       *)
THEOREM AnswersAreFit == AnswersSpec => []AnswersInv
<1>1. AnswersInit => AnswersInv
  BY AnswersInitInv
<1>2. AnswersInv /\ [AnswersNext]_answerVars => AnswersInv'
  BY AnswersStep
<1> QED
  BY <1>1, <1>2, PTL DEF AnswersSpec

LEMMA AnsweredNow == AnswersWell => Answered(form, data)
<1> SUFFICES ASSUME AnswersWell, NEW j \in 1..Len(form.fields) PROVE IsValue(Answer(data, form.fields[j].key))
  BY DEF Answered
<1>1. form.fields[j].key \in FormKeys
  BY FormsAreForms
<1> QED
  BY <1>1 DEF AnswersWell, Answer

LEMMA ServerAgreesNow == AnswersInv => ServerAgrees
<1> SUFFICES ASSUME AnswersInv PROVE ServerAgrees
  OBVIOUS
<1>1. IsForm(form) /\ Answered(form, data)
  BY FormsAreForms, AnsweredNow DEF AnswersInv
<1>2. ShownKeys = ShownOf(form, data) /\ ErrorKeys = RefusedOf(form, data)
  BY DEF ShownKeys, ErrorKeys, ShownOf, RefusedOf, FormKeys
<1>3. ClientAgrees
  BY <1>1, <1>2, ServerSees DEF ClientAgrees
<1>4. SentIsAccepted
  <2> SUFFICES ASSUME Valid(form, data)
               PROVE  LET again == ServerEvaluate(form, clean(form, data))
                      IN  again.vis = ShownKeys /\ again.bad = {} /\ again.clean = clean(form, data)
    BY DEF SentIsAccepted
  <2>1. PICK mine : mine = clean(form, data)
    OBVIOUS
  <2>2. Evaluate(form, mine) = Evaluate(form, data) /\ Answered(form, mine)
    BY <1>1, <2>1, SentAgain
  <2>3. PICK again : again = ServerEvaluate(form, mine)
    OBVIOUS
  <2>4. ShownOf(form, mine) = again.vis /\ RefusedOf(form, mine) = again.bad /\ clean(form, mine) = again.clean
    BY <1>1, <2>2, <2>3, ServerSees
  <2>5. ShownOf(form, mine) = ShownOf(form, data)
    BY <2>2 DEF ShownOf, visible
  <2>6. RefusedOf(form, mine) = {}
    <3>1. PICK ps : ps = Evaluate(form, mine).problems
      OBVIOUS
    <3>2. DOMAIN ps = {}
      BY <2>2, <3>1 DEF Valid
    <3> QED
      BY <3>1, <3>2 DEF RefusedOf, problemsToErrors
  <2>7. clean(form, mine) = mine
    BY <2>1, <2>2 DEF clean
  <2> QED
    BY <1>2, <2>1, <2>3, <2>4, <2>5, <2>6, <2>7
<1> QED
  BY <1>3, <1>4 DEF ServerAgrees

(* The server shows, refuses and keeps what the browser does, and accepts  *)
(* whatever the browser sends: for every form that validate_form lets      *)
(* through, with any number of fields, and all answers to it.              *)
THEOREM ServerAgreesAlways == AnswersSpec => []ServerAgrees
BY AnswersAreFit, ServerAgreesNow, PTL

LEMMA InputsFitNow == AnswersInv => InputsFit
<1> SUFFICES ASSUME AnswersInv, by = "widgets",
                    NEW n \in DOMAIN Evaluate(form, data).problems
             PROVE  Evaluate(form, data).problems[n].error \notin {"text", "number", "boolean", "choice", "duplicate"}
  BY DEF InputsFit
<1>1. IsForm(form) /\ Answered(form, data) /\ DOMAIN form.fields = 1..Len(form.fields)
  BY FormsAreForms, AnsweredNow DEF AnswersInv
<1>2. PICK N \in Nat : N = Len(form.fields)
  BY FormsAreForms DEF AnswersInv, Keyed
<1>3. PICK walk : Walks(walk, form, data)
  BY <1>2, EvaluateWalks
<1>4. PICK ps : ps = Evaluate(form, data).problems
  OBVIOUS
<1>5. PICK j \in 1..N : ps[n] = Said(form, data, j)
  <2>1. Finds(walk[N], form, data, walk, N)
    BY <1>1, <1>2, <1>3, FormIsKeyed, WalkFinds
  <2>2. ps = walk[N].problems
    BY <1>2, <1>3, <1>4 DEF Walks
  <2>3. /\ DOMAIN ps = 1..Len(ps)
        /\ \A x \in 1..Len(ps) : \E j \in 1..N : ps[x] = Said(form, data, j)
    BY <1>2, <2>1, <2>2 DEF Finds
  <2> QED
    BY <1>4, <2>3
<1>6. ps[n].error = Err(form, data, j)
  BY <1>5 DEF Said, Problem
<1>7. Fits(form.fields[j], Answer(data, form.fields[j].key))
  <2>1. form.fields[j].key \in DOMAIN data /\ j \in DOMAIN form.fields
    BY <1>1, <1>2, FormsAreForms DEF AnswersInv, AnswersWell
  <2> QED
    BY <2>1 DEF AnswersInv, WidgetsFit, Answer
<1>8. PICK s : s = check_value(form.fields[j], Answer(data, form.fields[j].key))
  OBVIOUS
<1>9. Err(form, data, j) \notin Unfit
  BY <1>1, <1>2, <1>7, <1>8, FieldAgrees
<1> QED
  BY <1>4, <1>6, <1>9 DEF Unfit

LEMMA ErrorsAreTrueNow == AnswersInv => ErrorsAreTrue
<1> SUFFICES ASSUME AnswersInv PROVE ErrorsAreTrue
  OBVIOUS
<1> DEFINE field(key) == form.fields[CHOOSE i \in DOMAIN form.fields : form.fields[i].key = key]
<1>1. PICK T : T = ToSet(form.fields)
  OBVIOUS
<1>2. PICK S : S = {f \in ToSet(form.fields) : visible(form, data)[f.key]}
  OBVIOUS
<1>3. rendered = Kept(form.fields, S)
  BY <1>2 DEF rendered
<1>4. form.fields \in Seq(T) /\ IsInjective(form.fields) /\ DOMAIN form.fields = 1..Len(form.fields)
  BY <1>1, FormsAreForms DEF AnswersInv, IsForm, IsInjective
<1>5. PICK seq : seq = rendered
  OBVIOUS
<1>6. Sifts(seq, form.fields, S, Len(form.fields), T)
  BY <1>3, <1>4, <1>5, KeptElements
<1>7. \A i \in DOMAIN seq : \E j \in DOMAIN form.fields : seq[i] = form.fields[j]
  <2>1. DOMAIN seq = 1..Len(seq)
    BY <1>6 DEF Sifts
  <2>2. \A i \in 1..Len(seq) : \E j \in 1..Len(form.fields) : seq[i] = form.fields[j]
    BY <1>6 DEF Sifts
  <2> QED
    BY <1>4, <2>1, <2>2
<1>8. ASSUME NEW i \in DOMAIN seq, NEW r, r = renderField(seq[i]), r.error # NoError
      PROVE  r.error = ErrorOf(field(r.key), checkValue(field(r.key), r.value)) /\ r.key \in Summary.links
  <2>1. PICK j \in DOMAIN form.fields : seq[i] = form.fields[j]
    BY <1>7
  <2>2. PICK k : k = form.fields[j].key
    OBVIOUS
  <2>3. /\ r.key = k /\ r.value = data[k]
        /\ r.error = IF k \in DOMAIN errors THEN errors[k] ELSE NoError
    BY <1>8, <2>1, <2>2 DEF renderField
  <2>4. k \in DOMAIN errors /\ r.error = errors[k]
    BY <1>8, <2>3
  <2>5. errors[k] = ErrorOf(form.fields[j], checkValue(form.fields[j], data[k]))
    BY <2>2, <2>4 DEF AnswersInv, ErrorsNow, ErrorNow
  <2>6. field(k) = form.fields[j]
    <3>1. PICK i0 : i0 = CHOOSE x \in DOMAIN form.fields : form.fields[x].key = k
      OBVIOUS
    <3>2. i0 \in DOMAIN form.fields /\ form.fields[i0].key = k
      BY <2>2, <3>1
    <3>3. i0 = j
      BY <2>2, <3>2, FormsAreForms DEF AnswersInv
    <3> QED
      BY <3>1, <3>3
  <2>7. k # FORM_ERROR_KEY
    BY <2>2, FormsAreForms DEF AnswersInv, IsField
  <2>8. k \in Summary.links
    BY <2>4, <2>7 DEF Summary, fieldErrors
  <2> HIDE DEF field
  <2> QED
    BY <2>3, <2>4, <2>5, <2>6, <2>8
<1>9. Summary.formError => Summary.links = {}
  BY DEF Summary, fieldErrors, AnswersInv, ErrorsNow
<1> QED
  BY <1>5, <1>8, <1>9 DEF ErrorsAreTrue

(* A respondent is told what can be put right in the inputs shown, and an  *)
(* error that is shown is that of the answer it stands next to.            *)
THEOREM GuidesRightAlways == AnswersSpec => []GuidesRight
<1>1. AnswersInv => GuidesRight
  BY InputsFitNow, ErrorsAreTrueNow DEF GuidesRight
<1> QED
  BY <1>1, AnswersAreFit, PTL

(* A hidden answer has no effect on what is shown, refused or sent.        *)
THEOREM HiddenIsInertAlways == AnswersSpec => HiddenIsInert
<1> DEFINE Inert ==
      \A k \in FormKeys :
        /\ ~visible(form, data)[k]
        /\ \A j \in FormKeys \ {k} : data'[j] = data[j]
        => Evaluate(form, data') = Evaluate(form, data)
<1>1. AnswersInv /\ AnswersInv' /\ [AnswersNext]_answerVars => [Inert]_answerVars
  <2> SUFFICES ASSUME AnswersInv, AnswersInv', [AnswersNext]_answerVars,
                      NEW k \in FormKeys, ~visible(form, data)[k],
                      \A j \in FormKeys \ {k} : data'[j] = data[j]
               PROVE  Evaluate(form, data') = Evaluate(form, data)
    OBVIOUS
  <2>1. form' = form
    BY DEF AnswersNext, answerVars, submit, Type, setAny
  <2>2. DOMAIN data = FormKeys /\ DOMAIN data' = FormKeys
    BY <2>1 DEF AnswersInv, AnswersWell, FormKeys
  <2>3. PICK d : d = data
    OBVIOUS
  <2>4. PICK e : e = data'
    OBVIOUS
  <2>5. Keyed(form) /\ DOMAIN form.fields = 1..Len(form.fields)
    BY FormsAreForms DEF AnswersInv
  <2>6. PICK m \in 1..Len(form.fields) : k = form.fields[m].key
    BY <2>5 DEF FormKeys
  <2>7. ASSUME NEW j \in 1..Len(form.fields), j # m
        PROVE  Answer(e, form.fields[j].key) = Answer(d, form.fields[j].key)
    <3>1. form.fields[j].key \in FormKeys \ {k}
      BY <2>5, <2>6, <2>7 DEF FormKeys, Keyed
    <3> QED
      BY <2>2, <2>3, <2>4, <3>1 DEF Answer
  <2>8. ~Evaluate(form, d).shown[form.fields[m].key]
    BY <2>3, <2>6 DEF visible
  <2>9. Evaluate(form, e) = Evaluate(form, d)
    BY <2>5, <2>7, <2>8, HiddenStays
  <2> QED
    BY <2>3, <2>4, <2>9
<1> QED
  BY <1>1, AnswersAreFit, PTL DEF AnswersSpec, HiddenIsInert

-----------------------------------------------------------------------------
(* The mounted form.  Everything follows from the ref inFlight: it is set  *)
(* exactly while one call is under way, so a call that was accepted is the *)
(* newest submission (Flight, Numbers).                                    *)

HookFields == {"loaded", "loadError", "values", "errors", "phase", "result", "inFlight"}

IsSeq(s) == s \in Seq({s[i] : i \in DOMAIN s})

(* The shapes of the variables; what is typed or sent may be anything. *)
Shapes ==
    /\ mode \in {"slug", "definition"} /\ ui \in {"OpenForm", "headless"}
    /\ changes \in Nat
    /\ DOMAIN hook = HookFields
    /\ hook.inFlight \in BOOLEAN /\ hook.loadError \in BOOLEAN
    /\ hook.phase \in {"idle", "submitting", "submitted"}
    /\ slug \in Slugs /\ sent \in Nat
    /\ loads \subseteq [n : Nat, slug : Slugs, cancelled : BOOLEAN]
    /\ \A c \in calls : c \in [n : Nat, slug : Slugs, data : {c.data}, id : Nat]
    /\ IsSeq(store)

(* One call at a time, and the ref says so. *)
Flight ==
    /\ \A c, d \in calls : c = d
    /\ hook.inFlight <=> calls # {}
    /\ hook.phase = "submitting" => hook.inFlight
    /\ ui = "OpenForm" => (hook.inFlight => hook.phase = "submitting")

(* An accepted call is the newest submission; so is a confirmed one. *)
Numbers ==
    /\ \A c \in calls : c.id \in {NoResult, Len(store)}
    /\ hook.phase = "submitted" =>
            ~hook.inFlight /\ hook.result = Len(store) /\ hook.result # NoResult

(* Only the load of the present slug counts. *)
Wanted ==
    mode = "slug" =>
        /\ hook.loaded \in {NoForm, slug}
        /\ \A l \in loads : l.cancelled \/ l.slug = slug

(* As long as nothing has changed, there is one load, and none once the    *)
(* form is there.                                                          *)
LoadsOnce ==
    /\ mode = "definition" => loads = {}
    /\ changes = 0 =>
        /\ \A l, m \in loads : l = m
        /\ loads # {} => hook.loaded = NoForm /\ ~hook.loadError

(* OpenForm's ref follows the status, and its first confirmation stays. *)
Told ==
    ui = "OpenForm" =>
        /\ notified <=> Status = "submitted"
        /\ changes = 0 =>
            IF Status = "submitted" THEN told = <<hook.result>> ELSE told = << >>

IInv == Shapes /\ Flight /\ Numbers /\ Wanted /\ LoadsOnce /\ Told

-----------------------------------------------------------------------------

(* A sequence that grows by one element. *)
LEMMA Grows ==
    ASSUME NEW s, NEW e, IsSeq(s)
    PROVE  IsSeq(Append(s, e)) /\ Len(s) \in Nat /\ Len(Append(s, e)) = Len(s) + 1
<1> DEFINE S == {s[i] : i \in DOMAIN s} \cup {e}
           t == Append(s, e)
<1>1. s \in Seq(S)
  BY DEF IsSeq
<1>2. t \in Seq(S) /\ Len(s) \in Nat /\ Len(t) = Len(s) + 1
  BY <1>1, AppendProperties
<1> HIDE DEF S, t
<1>3. DOMAIN t = 1..Len(t) /\ Len(t) \in Nat
  BY <1>2, LenProperties
<1>4. t \in Seq({t[i] : i \in DOMAIN t})
  BY <1>2, <1>3
<1> QED
  BY <1>2, <1>4 DEF t, IsSeq

LEMMA InitInv == Init => IInv
<1> SUFFICES ASSUME Init PROVE IInv
  OBVIOUS
<1>a. /\ DOMAIN hook = HookFields /\ hook.inFlight = FALSE /\ hook.loadError = FALSE
      /\ hook.phase = "idle" /\ hook.loaded = NoForm
  BY DEF Init, HookFields
<1>b. IsSeq(store)
  BY EmptySeq DEF Init, IsSeq
<1>c. \A l \in loads : /\ mode = "slug"
                       /\ l = [n |-> 0, slug |-> slug, cancelled |-> FALSE]
  BY DEF Init, Load
<1>d. /\ mode \in {"slug", "definition"} /\ ui \in {"OpenForm", "headless"}
      /\ slug \in Slugs /\ changes = 0 /\ sent = 0 /\ calls = {} /\ notified = FALSE /\ told = << >>
      /\ mode = "definition" => loads = {}
      /\ \A l, m \in loads : l = m
  BY DEF Init, Load
<1>1. Shapes
  <2>1. loads \subseteq [n : Nat, slug : Slugs, cancelled : BOOLEAN]
    <3> SUFFICES ASSUME NEW l \in loads PROVE l \in [n : Nat, slug : Slugs, cancelled : BOOLEAN]
      OBVIOUS
    <3>1. l = [n |-> 0, slug |-> slug, cancelled |-> FALSE] /\ slug \in Slugs
      BY <1>c, <1>d
    <3> QED
      BY <3>1
  <2> QED
    BY <1>a, <1>b, <1>d, <2>1 DEF Shapes
<1>2. Flight /\ Numbers
  BY <1>a, <1>d DEF Flight, Numbers
<1>3. Wanted /\ LoadsOnce
  <2>1. \A l \in loads : mode = "slug" /\ l.slug = slug
    BY <1>c
  <2> QED
    BY <1>a, <1>d, <2>1 DEF Wanted, LoadsOnce
<1>4. Status # "submitted"
  BY <1>a DEF Status
<1>5. Told
  BY <1>4, <1>d DEF Told
<1> QED
  BY <1>1, <1>2, <1>3, <1>5 DEF IInv

-----------------------------------------------------------------------------
(* What an action has to keep, before OpenForm's effect runs. *)
Core == Shapes /\ Flight /\ Numbers /\ Wanted /\ LoadsOnce

(* Once OpenForm shows the confirmation it goes on showing this one.       *)
Stays ==
    (ui = "OpenForm" /\ changes' = 0 /\ Status = "submitted") =>
        Status' = "submitted" /\ hook'.result = hook.result

LEMMA AppendEmpty == \A e : Append(<< >>, e) = <<e>>
OBVIOUS

LEMMA NotifyInv ==
    ASSUME Told, Notify(notified), Stays, ui' = ui, changes' = 0 => changes = 0
    PROVE  Told'
<1> SUFFICES ASSUME ui = "OpenForm" PROVE Told'
  BY DEF Told
<1>1. CASE Status' = "submitted" /\ ~notified
  <2>1. notified' = TRUE /\ told' = Append(told, hook'.result)
    BY <1>1 DEF Notify
  <2>2. changes' = 0 => told = << >>
    BY <1>1 DEF Told
  <2>3. changes' = 0 => told' = <<hook'.result>>
    BY <2>1, <2>2, AppendEmpty
  <2> QED
    BY <1>1, <2>1, <2>3 DEF Told
<1>2. CASE ~(Status' = "submitted" /\ ~notified)
  <2>1. notified' = (notified /\ Status' = "submitted") /\ told' = told
    BY <1>2 DEF Notify
  <2>2. notified' <=> Status' = "submitted"
    BY <1>2, <2>1
  <2> QED
    BY <1>2, <2>1, <2>2 DEF Told, Stays
<1> QED
  BY <1>1, <1>2

LEMMA ChangeSlugInv == Core /\ changeSlug => Core' /\ Stays
<1> SUFFICES ASSUME Core, changeSlug PROVE Core' /\ Stays
  OBVIOUS
<1>0. PICK s \in Slugs \ {slug} :
        /\ slug' = s
        /\ changes' = changes + 1
        /\ loads' = Cancelled \cup Load(s, changes + 1)
        /\ hook' = IF mode = "slug" THEN [hook EXCEPT !.loaded = NoForm, !.loadError = FALSE] ELSE hook
  BY DEF changeSlug
<1>1. UNCHANGED <<mode, ui, calls, sent, store>>
  BY DEF changeSlug
<1>2. /\ DOMAIN hook' = HookFields /\ hook'.inFlight = hook.inFlight
      /\ hook'.phase = hook.phase /\ hook'.result = hook.result /\ hook'.loadError \in BOOLEAN
      /\ mode = "slug" => hook'.loaded = NoForm
  BY <1>0 DEF Core, Shapes, HookFields
<1>3. changes' \in Nat /\ changes' # 0
  BY <1>0 DEF Core, Shapes
<1>4. /\ loads' \subseteq [n : Nat, slug : Slugs, cancelled : BOOLEAN]
      /\ \A l \in loads' : l.cancelled \/ l.slug = s
      /\ mode = "definition" => loads' = {}
  <2>1. \A l \in Cancelled : l \in [n : Nat, slug : Slugs, cancelled : BOOLEAN] /\ l.cancelled
    BY DEF Cancelled, Core, Shapes
  <2>2. \A l \in Load(s, changes + 1) : l = [n |-> changes + 1, slug |-> s, cancelled |-> FALSE]
    BY DEF Load
  <2>3. mode = "definition" => Cancelled = {} /\ Load(s, changes + 1) = {}
    BY DEF Cancelled, Load, Core, LoadsOnce
  <2>4. \A l \in Load(s, changes + 1) : l \in [n : Nat, slug : Slugs, cancelled : BOOLEAN] /\ l.slug = s
    <3> SUFFICES ASSUME NEW l \in Load(s, changes + 1)
                 PROVE  l \in [n : Nat, slug : Slugs, cancelled : BOOLEAN] /\ l.slug = s
      OBVIOUS
    <3>1. l = [n |-> changes + 1, slug |-> s, cancelled |-> FALSE] /\ changes + 1 \in Nat
      BY <2>2, <1>0, <1>3
    <3> QED
      BY <3>1, <1>0
  <2> QED
    BY <1>0, <2>1, <2>3, <2>4
<1>5. Shapes'
  BY <1>0, <1>1, <1>2, <1>3, <1>4 DEF Core, Shapes
<1>6. Flight' /\ Numbers'
  BY <1>1, <1>2 DEF Core, Flight, Numbers
<1>7. Wanted' /\ LoadsOnce'
  BY <1>0, <1>1, <1>2, <1>3, <1>4 DEF Wanted, LoadsOnce
<1>8. Stays
  BY <1>3 DEF Stays
<1> QED
  BY <1>5, <1>6, <1>7, <1>8 DEF Core

LEMMA LoadAnsweredInv == Core /\ loadAnswered => Core' /\ Stays
<1> SUFFICES ASSUME Core, loadAnswered PROVE Core' /\ Stays
  OBVIOUS
<1>0. PICK l \in loads :
        /\ loads' = loads \ {l}
        /\ \/ hook' = IF Applies(l) THEN [hook EXCEPT !.loaded = l.slug] ELSE hook
           \/ hook' = IF Applies(l) THEN [hook EXCEPT !.loadError = TRUE] ELSE hook
  BY DEF loadAnswered
<1>1. UNCHANGED <<mode, ui, slug, changes, calls, sent, store>>
  BY DEF loadAnswered
<1>2. /\ DOMAIN hook' = HookFields /\ hook'.inFlight = hook.inFlight
      /\ hook'.phase = hook.phase /\ hook'.result = hook.result /\ hook'.loadError \in BOOLEAN
      /\ hook'.loaded = hook.loaded \/ (~l.cancelled /\ hook'.loaded = l.slug)
  BY <1>0 DEF Core, Shapes, HookFields, Applies
<1>3. mode = "slug"
  BY <1>0 DEF Core, Shapes, LoadsOnce
<1>4. Shapes'
  BY <1>0, <1>1, <1>2 DEF Core, Shapes
<1>5. Flight' /\ Numbers'
  BY <1>1, <1>2 DEF Core, Flight, Numbers
<1>6. Wanted' /\ LoadsOnce'
  BY <1>0, <1>1, <1>2, <1>3 DEF Core, Wanted, LoadsOnce
<1>7. changes = 0 => Status # "submitted"
  BY <1>0, <1>3 DEF Core, LoadsOnce, Status, Form
<1> QED
  BY <1>1, <1>4, <1>5, <1>6, <1>7 DEF Core, Stays

(* An action that only changes values and errors. *)
LEMMA QuietInv ==
    ASSUME Core, UNCHANGED <<mode, ui, slug, changes, loads, calls, sent, store>>,
           DOMAIN hook' = HookFields, hook'.loaded = hook.loaded, hook'.loadError = hook.loadError,
           hook'.phase = hook.phase, hook'.result = hook.result, hook'.inFlight = hook.inFlight
    PROVE  Core' /\ Stays
<1>1. Shapes'
  BY DEF Core, Shapes
<1>2. Flight' /\ Numbers' /\ Wanted' /\ LoadsOnce'
  BY DEF Core, Flight, Numbers, Wanted, LoadsOnce
<1>3. Status' = Status
  BY DEF Status, Form
<1> QED
  BY <1>1, <1>2, <1>3 DEF Core, Stays

LEMMA SetValueInv == Core /\ setValue => Core' /\ Stays
<1> SUFFICES ASSUME Core, setValue PROVE Core' /\ Stays
  OBVIOUS
<1>1. PICK k, v : hook' = [hook EXCEPT !.values[k] = v, !.errors = @ \ {k, FORM_ERROR_KEY}]
  BY DEF setValue
<1>2. /\ DOMAIN hook' = HookFields /\ hook'.loaded = hook.loaded /\ hook'.loadError = hook.loadError
      /\ hook'.phase = hook.phase /\ hook'.result = hook.result /\ hook'.inFlight = hook.inFlight
  BY <1>1 DEF Core, Shapes, HookFields
<1>3. UNCHANGED <<mode, ui, slug, changes, loads, calls, sent, store>>
  BY DEF setValue
<1> QED
  BY <1>2, <1>3, QuietInv

LEMMA SubmitInvalidInv == Core /\ submitInvalid => Core' /\ Stays
<1> SUFFICES ASSUME Core, submitInvalid PROVE Core' /\ Stays
  OBVIOUS
<1>1. PICK e : hook' = [hook EXCEPT !.errors = e]
  BY DEF submitInvalid
<1>2. /\ DOMAIN hook' = HookFields /\ hook'.loaded = hook.loaded /\ hook'.loadError = hook.loadError
      /\ hook'.phase = hook.phase /\ hook'.result = hook.result /\ hook'.inFlight = hook.inFlight
  BY <1>1 DEF Core, Shapes, HookFields
<1>3. UNCHANGED <<mode, ui, slug, changes, loads, calls, sent, store>>
  BY DEF submitInvalid
<1> QED
  BY <1>2, <1>3, QuietInv

(* Only a page of its own resets the form: the call goes on. *)
LEMMA ResetInv == Core /\ reset => Core' /\ Stays
<1> SUFFICES ASSUME Core, reset PROVE Core' /\ Stays
  OBVIOUS
<1>1. ui = "headless" /\ UNCHANGED <<mode, ui, slug, changes, loads, calls, sent, store>>
  BY DEF reset
<1>2. /\ DOMAIN hook' = HookFields /\ hook'.loaded = hook.loaded /\ hook'.loadError = hook.loadError
      /\ hook'.phase = "idle" /\ hook'.inFlight = hook.inFlight
  BY DEF reset, Emptied, Core, Shapes, HookFields
<1>3. Shapes'
  BY <1>1, <1>2 DEF Core, Shapes
<1>4. Flight' /\ Numbers' /\ Wanted' /\ LoadsOnce'
  BY <1>1, <1>2 DEF Core, Flight, Numbers, Wanted, LoadsOnce
<1> QED
  BY <1>1, <1>3, <1>4 DEF Core, Stays

(* Nothing is under way, and then one call. *)
LEMMA SubmitValidInv == Core /\ submitValid => Core' /\ Stays
<1> SUFFICES ASSUME Core, submitValid PROVE Core' /\ Stays
  OBVIOUS
<1>1. /\ Offered /\ ~hook.inFlight
      /\ UNCHANGED <<mode, ui, slug, changes, loads, store>> /\ sent' = sent + 1
  BY DEF submitValid, MaySubmit
<1>2. /\ DOMAIN hook' = HookFields /\ hook'.loaded = hook.loaded /\ hook'.loadError = hook.loadError
      /\ hook'.phase = "submitting" /\ hook'.inFlight = TRUE
  BY DEF submitValid, Core, Shapes, HookFields
<1>3. PICK x : calls' = calls \cup {[n |-> sent + 1, slug |-> slug, data |-> x, id |-> NoResult]}
  BY DEF submitValid
<1>4. calls = {}
  BY <1>1 DEF Core, Flight
<1>5. PICK c : calls' = {c} /\ c \in [n : Nat, slug : Slugs, data : {c.data}, id : Nat] /\ c.id = NoResult
  <2> DEFINE c == [n |-> sent + 1, slug |-> slug, data |-> x, id |-> NoResult]
  <2>1. calls' = {c}
    BY <1>3, <1>4
  <2>2. sent + 1 \in Nat /\ slug \in Slugs /\ NoResult = 0
    BY DEF Core, Shapes, NoResult
  <2>3. c \in [n : Nat, slug : Slugs, data : {c.data}, id : Nat] /\ c.id = NoResult
    BY <2>2
  <2> QED
    BY <2>1, <2>3
<1>6. Shapes'
  <2>1. \A b \in calls' : b \in [n : Nat, slug : Slugs, data : {b.data}, id : Nat]
    BY <1>5
  <2>2. IsSeq(store') /\ sent' \in Nat
    BY <1>1 DEF Core, Shapes
  <2> QED
    BY <1>1, <1>2, <2>1, <2>2 DEF Core, Shapes
<1>7. Flight' /\ Numbers' /\ Wanted' /\ LoadsOnce'
  BY <1>1, <1>2, <1>5 DEF Core, Flight, Numbers, Wanted, LoadsOnce
<1>8. ui = "OpenForm" => Status # "submitted"
  BY <1>1 DEF Offered
<1> QED
  BY <1>6, <1>7, <1>8 DEF Core, Stays

(* The accepted call is the only one, and gets the newest number. *)
LEMMA AcceptInv == Core /\ accept => Core' /\ Stays
<1> SUFFICES ASSUME Core, accept PROVE Core' /\ Stays
  OBVIOUS
<1>1. UNCHANGED <<mode, ui, slug, changes, loads, hook, sent>>
  BY DEF accept
<1>2. PICK c \in calls :
        /\ store' = Append(store, [slug |-> c.slug, data |-> c.data])
        /\ calls' = (calls \ {c}) \cup {[c EXCEPT !.id = Len(store) + 1]}
  BY DEF accept
<1>3. IsSeq(store') /\ Len(store) \in Nat /\ Len(store') = Len(store) + 1
  BY <1>2, Grows DEF Core, Shapes
<1>4. PICK d : /\ calls' = {d} /\ d \in [n : Nat, slug : Slugs, data : {d.data}, id : Nat]
               /\ d.id = Len(store')
  <2> DEFINE d == [c EXCEPT !.id = Len(store) + 1]
  <2>1. calls' = {d}
    BY <1>2 DEF Core, Flight
  <2>2. c \in [n : Nat, slug : Slugs, data : {c.data}, id : Nat]
    BY <1>2 DEF Core, Shapes
  <2>3. d \in [n : Nat, slug : Slugs, data : {d.data}, id : Nat] /\ d.id = Len(store')
    BY <1>3, <2>2
  <2> QED
    BY <2>1, <2>3
<1>5. hook.inFlight /\ hook.phase # "submitted"
  BY <1>2 DEF Core, Flight, Numbers
<1>6. Shapes'
  BY <1>1, <1>3, <1>4 DEF Core, Shapes
<1>7. Flight' /\ Numbers' /\ Wanted' /\ LoadsOnce'
  BY <1>1, <1>4, <1>5 DEF Core, Flight, Numbers, Wanted, LoadsOnce
<1>8. Status # "submitted"
  BY <1>5 DEF Status
<1> QED
  BY <1>6, <1>7, <1>8 DEF Core, Stays

(* The only call ends; a confirmation is of the newest submission. *)
LEMMA AnsweredInv == Core /\ answered => Core' /\ Stays
<1> SUFFICES ASSUME Core, answered PROVE Core' /\ Stays
  OBVIOUS
<1>1. UNCHANGED <<mode, ui, slug, changes, loads, sent, store>>
  BY DEF answered
<1>2. PICK c, code, e :
        /\ c \in calls /\ code \in request(c)
        /\ calls' = calls \ {c}
        /\ hook' = IF code = "ok" THEN Landed([hook EXCEPT !.result = c.id], code)
                   ELSE Landed([hook EXCEPT !.errors = e], code)
  BY DEF answered
<1>3. calls' = {}
  BY <1>2 DEF Core, Flight
<1>4. /\ DOMAIN hook' = HookFields /\ hook'.loaded = hook.loaded /\ hook'.loadError = hook.loadError
      /\ hook'.phase = IF code = "ok" THEN "submitted" ELSE "idle"
      /\ hook'.inFlight = FALSE /\ (code = "ok" => hook'.result = c.id)
  BY <1>2 DEF Landed, Core, Shapes, HookFields
<1>5. code = "ok" => c.id = Len(store) /\ c.id # NoResult
  BY <1>2 DEF request, Core, Numbers
<1>6. hook.phase # "submitted"
  BY <1>2 DEF Core, Flight, Numbers
<1>7. Shapes'
  BY <1>1, <1>3, <1>4 DEF Core, Shapes
<1>8. Flight' /\ Numbers' /\ Wanted' /\ LoadsOnce'
  BY <1>1, <1>3, <1>4, <1>5 DEF Core, Flight, Numbers, Wanted, LoadsOnce
<1>9. Status # "submitted"
  BY <1>6 DEF Status
<1> QED
  BY <1>7, <1>8, <1>9 DEF Core, Stays

-----------------------------------------------------------------------------

LEMMA NextInv == IInv /\ [FormNext]_formVars => IInv'
<1> SUFFICES ASSUME IInv, [FormNext]_formVars PROVE IInv'
  OBVIOUS
<1>1. CASE FormNext
  <2>1. Core /\ Told
    BY DEF IInv, Core
  <2>2. FormStep /\ Notify(notified)
    BY <1>1 DEF FormNext
  <2>3. Core' /\ Stays
    BY <2>1, <2>2, ChangeSlugInv, LoadAnsweredInv, SetValueInv, ResetInv, SubmitInvalidInv,
       SubmitValidInv, AcceptInv, AnsweredInv DEF FormStep
  <2>4. ui' = ui /\ (changes' = 0 => changes = 0)
    <3>1. CASE changeSlug
      BY <2>1, <3>1 DEF changeSlug, Core, Shapes
    <3>2. CASE loadAnswered \/ setValue \/ reset
      BY <3>2 DEF loadAnswered, setValue, reset
    <3>3. CASE submitInvalid \/ submitValid
      BY <3>3 DEF submitInvalid, submitValid
    <3>4. CASE accept \/ answered
      BY <3>4 DEF accept, answered
    <3> QED
      BY <2>2, <3>1, <3>2, <3>3, <3>4 DEF FormStep
  <2>5. Told'
    BY <2>1, <2>2, <2>3, <2>4, NotifyInv
  <2> QED
    BY <2>3, <2>5 DEF Core, IInv
<1>2. CASE UNCHANGED formVars
  BY <1>2 DEF formVars, IInv, Shapes, Flight, Numbers, Wanted, LoadsOnce, Told, Status, Form
<1> QED
  BY <1>1, <1>2

THEOREM FormInvariance == Spec => []IInv
BY InitInv, NextInv, PTL DEF Spec

(* A form in a frame is a form: EmbedPage restricts its steps to those of  *)
(* its container's life, and interleaves them with the page's.             *)
THEOREM EmbeddedIsForm == HostSpec => Spec
<1>1. HostInit => Init
  BY DEF HostInit
<1>2. [HostNext]_hostVars => [FormNext]_formVars
  <2>1. ourForm(FormStep) => FormNext
    BY DEF ourForm, FormNext
  <2>2. /\ runScript => UNCHANGED formVars
        /\ DOMContentLoaded => UNCHANGED formVars
        /\ addContainer => UNCHANGED formVars
        /\ scanAgain => UNCHANGED formVars
        /\ removeContainer => UNCHANGED formVars
    BY DEF runScript, DOMContentLoaded, addContainer, scanAgain, removeContainer
  <2>3. /\ layout => UNCHANGED formVars
        /\ report => UNCHANGED formVars
        /\ otherForm => UNCHANGED formVars
        /\ deliver => UNCHANGED formVars
    BY DEF layout, report, otherForm, deliver
  <2>4. UNCHANGED hostVars => UNCHANGED formVars
    BY DEF hostVars
  <2> QED
    BY <2>1, <2>2, <2>3, <2>4 DEF HostNext
<1> QED
  BY <1>1, <1>2, PTL DEF HostSpec, Spec

LEMMA EmbeddedInvariance == HostSpec => []IInv
BY FormInvariance, EmbeddedIsForm, PTL

(* One submission is under way at a time, whatever is clicked, reset or    *)
(* changed, and the button is disabled exactly as long (useOpenForm.ts:85).*)
THEOREM OneSubmission == HostSpec => []OneAtATime
<1>1. IInv => OneAtATime
  <2> SUFFICES ASSUME IInv PROVE OneAtATime
    OBVIOUS
  <2>1. Cardinality(calls) <= 1
    <3>1. CASE calls = {}
      BY <3>1, FS_EmptySet
    <3>2. CASE calls # {}
      <4>1. PICK c : calls = {c}
        <5>1. PICK c : c \in calls
          BY <3>2
        <5>2. \A d \in calls : d = c
          BY <5>1 DEF IInv, Flight
        <5> QED
          BY <5>1, <5>2
      <4>2. Cardinality({c}) = 1
        BY FS_Singleton
      <4> QED
        BY <4>1, <4>2
    <3> QED
      BY <3>1, <3>2
  <2> QED
    BY <2>1 DEF IInv, Flight, OneAtATime
<1> QED
  BY <1>1, EmbeddedInvariance, PTL

(* What is confirmed is the newest accepted submission, and onSubmitted is *)
(* told of it once (useOpenForm.ts:102, OpenForm.tsx:52).                  *)
THEOREM ConfirmsWhatWasAccepted == HostSpec => []ConfirmationsRight
<1>1. IInv => ConfirmationsRight
  <2> SUFFICES ASSUME IInv PROVE ConfirmationsRight
    OBVIOUS
  <2>1. Status = "submitted" => hook.phase = "submitted"
    BY DEF Status
  <2>2. ConfirmsNewest
    BY <2>1 DEF IInv, Numbers, ConfirmsNewest
  <2>3. ToldOnce
    BY <2>1 DEF IInv, Told, ToldOnce
  <2> QED
    BY <2>2, <2>3 DEF ConfirmationsRight
<1> QED
  BY <1>1, EmbeddedInvariance, PTL

(* What is given is a value, and what is sent is valid by itself. *)
Sends ==
    /\ DOMAIN hook.values = Keys
    /\ \A k \in Keys : IsValue(hook.values[k])
    /\ SendsShown

LEMMA SendsInit == Init => Sends
<1> SUFFICES ASSUME Init PROVE Sends
  OBVIOUS
<1>1. hook.values = [k \in Keys |-> None] /\ calls = {}
  BY DEF Init
<1> QED
  BY <1>1 DEF Sends, SendsShown, IsValue

(* Steps that send nothing. *)
LEMMA SendsKept ==
    ASSUME Sends, UNCHANGED hook.values \/ hook'.values = [k \in Keys |-> None],
           \A c \in calls' : \E d \in calls : c.slug = d.slug /\ c.data = d.data
    PROVE  Sends'
<1>1. DOMAIN hook'.values = Keys /\ \A k \in Keys : IsValue(hook'.values[k])
  <2>1. IsValue(None)
    BY DEF IsValue
  <2> QED
    BY <2>1 DEF Sends
<1>2. SendsShown'
  BY DEF Sends, SendsShown
<1> QED
  BY <1>1, <1>2 DEF Sends

LEMMA SendsSetValue == IInv /\ Sends /\ setValue => Sends'
<1> SUFFICES ASSUME IInv, Sends, setValue PROVE Sends'
  OBVIOUS
<1>1. PICK i \in DOMAIN Definition[Form].fields :
        \E v \in Inputs[Definition[Form].fields[i].key] :
            hook' = [hook EXCEPT !.values[Definition[Form].fields[i].key] = v,
                                 !.errors = @ \ {Definition[Form].fields[i].key, FORM_ERROR_KEY}]
  BY DEF setValue
<1>2. PICK k : k = Definition[Form].fields[i].key
  OBVIOUS
<1>3. PICK v \in Inputs[k] : hook' = [hook EXCEPT !.values[k] = v, !.errors = @ \ {k, FORM_ERROR_KEY}]
  BY <1>1, <1>2
<1>4. Form \in Slugs
  BY DEF setValue, Form, IInv, Shapes, Wanted
<1>5. k \in Keys
  BY <1>2, <1>4 DEF Keys
<1>6. IsValue(v)
  BY <1>5, HookAssumption
<1>7. hook'.values = [hook.values EXCEPT ![k] = v]
  BY <1>3 DEF IInv, Shapes, HookFields
<1>8. DOMAIN hook'.values = Keys /\ \A x \in Keys : IsValue(hook'.values[x])
  BY <1>5, <1>6, <1>7 DEF Sends
<1>9. calls' = calls
  BY DEF setValue
<1> QED
  BY <1>8, <1>9 DEF Sends, SendsShown

LEMMA SendsSubmit == IInv /\ Sends /\ submitValid => Sends'
<1> SUFFICES ASSUME IInv, Sends, submitValid PROVE Sends'
  OBVIOUS
<1>1. PICK f : f = Definition[slug]
  OBVIOUS
<1>2. PICK given : given = hook.values
  OBVIOUS
<1>3. Form = slug
  BY DEF submitValid, MaySubmit, Form, IInv, Shapes, Wanted
<1>4. IsForm(f)
  BY <1>1, HookAssumption DEF IInv, Shapes
<1>5. Answered(f, given)
  <2> SUFFICES ASSUME NEW j \in 1..Len(f.fields) PROVE IsValue(Answer(given, f.fields[j].key))
    BY DEF Answered
  <2>1. j \in DOMAIN f.fields
    BY <1>4, FormIsKeyed
  <2>2. f.fields[j].key \in Keys
    BY <1>1, <2>1 DEF Keys, IInv, Shapes
  <2> QED
    BY <1>2, <2>2 DEF Sends, Answer
<1>6. Valid(f, given)
  BY <1>1, <1>2, <1>3 DEF submitValid
<1>7. PICK what : what = clean(f, given)
  OBVIOUS
<1>8. Valid(f, what) /\ clean(f, what) = what
  <2>1. Evaluate(f, what) = Evaluate(f, given)
    BY <1>4, <1>5, <1>6, <1>7, SentAgain
  <2> QED
    BY <1>6, <1>7, <2>1 DEF Valid, clean
<1>9. calls' = calls \cup {[n |-> sent + 1, slug |-> slug, data |-> what, id |-> NoResult]}
  BY <1>1, <1>2, <1>3, <1>7 DEF submitValid
<1>10. hook'.values = hook.values
  BY DEF submitValid, IInv, Shapes, HookFields
<1>11. SendsShown'
  <2> SUFFICES ASSUME NEW c \in calls' PROVE Valid(Definition[c.slug], c.data) /\ clean(Definition[c.slug], c.data) = c.data
    BY DEF SendsShown
  <2>1. CASE c \in calls
    BY <2>1 DEF Sends, SendsShown
  <2>2. CASE c \notin calls
    <3>1. c.slug = slug /\ c.data = what
      BY <1>9, <2>2
    <3> QED
      BY <1>1, <1>8, <3>1
  <2> QED
    BY <2>1, <2>2
<1> QED
  BY <1>10, <1>11 DEF Sends

LEMMA SendsNext == IInv /\ Sends /\ [FormNext]_formVars => Sends'
<1> SUFFICES ASSUME IInv, Sends, [FormNext]_formVars PROVE Sends'
  OBVIOUS
<1>1. CASE changeSlug
  <2>1. hook'.values = hook.values /\ calls' = calls
    BY <1>1 DEF changeSlug, IInv, Shapes, HookFields
  <2> QED
    BY <2>1, SendsKept
<1>2. CASE loadAnswered
  <2>1. hook'.values = hook.values /\ calls' = calls
    BY <1>2 DEF loadAnswered, IInv, Shapes, HookFields
  <2> QED
    BY <2>1, SendsKept
<1>3. CASE reset
  <2>1. hook'.values = [k \in Keys |-> None] /\ calls' = calls
    BY <1>3 DEF reset, Emptied, IInv, Shapes, HookFields
  <2> QED
    BY <2>1, SendsKept
<1>4. CASE submitInvalid
  <2>1. hook'.values = hook.values /\ calls' = calls
    BY <1>4 DEF submitInvalid, IInv, Shapes, HookFields
  <2> QED
    BY <2>1, SendsKept
<1>5. CASE accept
  <2>1. hook'.values = hook.values
    BY <1>5 DEF accept
  <2>2. PICK c \in calls : calls' = (calls \ {c}) \cup {[c EXCEPT !.id = Len(store) + 1]}
    BY <1>5 DEF accept
  <2>3. c \in [n : Nat, slug : Slugs, data : {c.data}, id : Nat]
    BY DEF IInv, Shapes
  <2>4. PICK d : d = [c EXCEPT !.id = Len(store) + 1]
    OBVIOUS
  <2>5. d.slug = c.slug /\ d.data = c.data
    BY <2>3, <2>4
  <2> QED
    BY <2>1, <2>2, <2>4, <2>5, SendsKept
<1>6. CASE answered
  <2>1. PICK c, code, e :
          /\ calls' = calls \ {c}
          /\ hook' = IF code = "ok" THEN Landed([hook EXCEPT !.result = c.id], code)
                     ELSE Landed([hook EXCEPT !.errors = e], code)
    BY <1>6 DEF answered
  <2>2. hook'.values = hook.values
    BY <2>1 DEF Landed, IInv, Shapes, HookFields
  <2> QED
    BY <2>1, <2>2, SendsKept
<1>7. CASE UNCHANGED formVars
  <2>1. hook' = hook /\ calls' = calls
    BY <1>7 DEF formVars
  <2> QED
    BY <2>1, SendsKept
<1> QED
  BY <1>1, <1>2, <1>3, <1>4, <1>5, <1>6, <1>7, SendsSetValue, SendsSubmit DEF FormNext, FormStep

(* The form shown is the one of the present slug, whichever load answers   *)
(* last (useOpenForm.ts:58), and what is sent for it has no hidden answer  *)
(* and would be valid, and sent as it is, if it were all that was given.   *)
THEOREM FormIsWantedAlways == HostSpec => []FormIsWanted
<1>1. Spec => []Sends
  <2>1. Spec => []IInv
    BY FormInvariance
  <2> QED
    BY <2>1, SendsInit, SendsNext, PTL DEF Spec
<1>2. IInv /\ Sends => FormIsWanted
  BY DEF IInv, Shapes, Wanted, ShowsWanted, Status, Form, Sends, FormIsWanted
<1> QED
  BY <1>1, <1>2, EmbeddedInvariance, EmbeddedIsForm, PTL

-----------------------------------------------------------------------------
(* The type of the mounted form: bounds, and what errors, results and data *)
(* can be.                                                                 *)

(* What is kept belongs to a field. *)
LEMMA CleanOfForm ==
    ASSUME NEW f, NEW d, IsForm(f)
    PROVE  \A k \in DOMAIN clean(f, d) : \E j \in 1..Len(f.fields) : k = f.fields[j].key
<1>1. Keyed(f) /\ Len(f.fields) \in Nat
  BY FormIsKeyed DEF Keyed
<1>2. PICK walk : Walks(walk, f, d)
  BY <1>1, EvaluateWalks
<1>3. Finds(walk[Len(f.fields)], f, d, walk, Len(f.fields))
  BY <1>1, <1>2, WalkFinds
<1>4. clean(f, d) = walk[Len(f.fields)].clean
  BY <1>2 DEF Walks, clean
<1> QED
  BY <1>3, <1>4 DEF Finds

(* Bounds, and what errors, results and data can be. *)
Bounded ==
    /\ changes <= MaxChanges /\ sent <= MaxSent
    /\ \A l \in loads : l.n <= changes
    /\ hook.loaded \in Slugs \cup {NoForm}
    /\ hook.errors \subseteq Keys \cup {FORM_ERROR_KEY}
    /\ hook.result \in 0..Len(store)
    /\ \A c \in calls : c.n \in 1..sent /\ DOMAIN c.data \subseteq Keys

ToldTyped == told \in Seq(0..Len(store))

LEMMA BoundedInit == Init => Bounded /\ ToldTyped
<1> SUFFICES ASSUME Init PROVE Bounded /\ ToldTyped
  OBVIOUS
<1>1. changes = 0 /\ sent = 0 /\ store = << >> /\ calls = {} /\ told = << >>
  BY DEF Init
<1>2. hook.loaded = NoForm /\ hook.errors = {} /\ hook.result = 0
  BY DEF Init, NoResult
<1>3. \A l \in loads : l.n = 0
  BY DEF Init, Load
<1>4. Len(store) = 0 /\ told \in Seq(0..Len(store))
  BY <1>1, EmptySeq
<1>5. Bounded
  BY <1>1, <1>2, <1>3, <1>4, HookAssumption DEF Bounded
<1> QED
  BY <1>4, <1>5 DEF ToldTyped

LEMMA StoreLength == ASSUME IInv PROVE Len(store) \in Nat
BY LenProperties DEF IInv, Shapes, IsSeq

LEMMA BoundedChange == IInv /\ Bounded /\ changeSlug => Bounded'
<1> SUFFICES ASSUME IInv, Bounded, changeSlug PROVE Bounded'
  OBVIOUS
<1>1. PICK s \in Slugs :
        /\ changes' = changes + 1
        /\ loads' = Cancelled \cup Load(s, changes + 1)
        /\ hook' = IF mode = "slug" THEN [hook EXCEPT !.loaded = NoForm, !.loadError = FALSE] ELSE hook
  BY DEF changeSlug
<1>2. UNCHANGED <<calls, sent, store>> /\ changes < MaxChanges /\ changes \in Nat /\ MaxChanges \in Nat
  BY HookAssumption DEF changeSlug, IInv, Shapes
<1>3. hook'.loaded \in {NoForm, hook.loaded} /\ hook'.errors = hook.errors /\ hook'.result = hook.result
  BY <1>1 DEF IInv, Shapes, HookFields
<1>4. \A l \in loads' : l.n <= changes'
  <2> SUFFICES ASSUME NEW l \in loads' PROVE l.n <= changes'
    OBVIOUS
  <2>1. CASE l \in Cancelled
    <3>1. PICK m \in loads : l = [m EXCEPT !.cancelled = TRUE]
      BY <2>1 DEF Cancelled
    <3>2. m \in [n : Nat, slug : Slugs, cancelled : BOOLEAN]
      BY <3>1 DEF IInv, Shapes
    <3>3. l.n = m.n /\ m.n \in Nat
      BY <3>1, <3>2
    <3> QED
      BY <1>1, <1>2, <3>1, <3>3 DEF Bounded
  <2>2. CASE l \notin Cancelled
    <3>1. l = [n |-> changes + 1, slug |-> s, cancelled |-> FALSE]
      BY <1>1, <2>2 DEF Load
    <3> QED
      BY <1>1, <1>2, <3>1
  <2> QED
    BY <2>1, <2>2
<1>5. changes' <= MaxChanges
  BY <1>1, <1>2
<1> QED
  BY <1>2, <1>3, <1>4, <1>5 DEF Bounded

LEMMA BoundedLoad == IInv /\ Bounded /\ loadAnswered => Bounded'
<1> SUFFICES ASSUME IInv, Bounded, loadAnswered PROVE Bounded'
  OBVIOUS
<1>1. PICK l \in loads :
        /\ loads' = loads \ {l}
        /\ \/ hook' = IF Applies(l) THEN [hook EXCEPT !.loaded = l.slug] ELSE hook
           \/ hook' = IF Applies(l) THEN [hook EXCEPT !.loadError = TRUE] ELSE hook
  BY DEF loadAnswered
<1>2. l.slug \in Slugs
  BY <1>1 DEF IInv, Shapes
<1>3. hook'.loaded \in {l.slug, hook.loaded} /\ hook'.errors = hook.errors /\ hook'.result = hook.result
  BY <1>1 DEF IInv, Shapes, HookFields
<1>4. UNCHANGED <<changes, calls, sent, store>>
  BY DEF loadAnswered
<1> QED
  BY <1>1, <1>2, <1>3, <1>4 DEF Bounded

(* Steps of the hook's state alone. *)
LEMMA BoundedHook ==
    ASSUME Bounded, UNCHANGED <<changes, loads, calls, sent, store>>,
           hook'.loaded = hook.loaded, hook'.errors \subseteq Keys \cup {FORM_ERROR_KEY},
           hook'.result \in {NoResult, hook.result}, Len(store) \in Nat
    PROVE  Bounded'
BY DEF Bounded, NoResult

LEMMA BoundedSet == IInv /\ Bounded /\ setValue => Bounded'
<1> SUFFICES ASSUME IInv, Bounded, setValue PROVE Bounded'
  OBVIOUS
<1>1. PICK k, v : hook' = [hook EXCEPT !.values[k] = v, !.errors = @ \ {k, FORM_ERROR_KEY}]
  BY DEF setValue
<1>2. hook'.loaded = hook.loaded /\ hook'.errors \subseteq hook.errors /\ hook'.result = hook.result
  BY <1>1 DEF IInv, Shapes, HookFields
<1>3. UNCHANGED <<changes, loads, calls, sent, store>>
  BY DEF setValue
<1>4. hook'.errors \subseteq Keys \cup {FORM_ERROR_KEY}
  BY <1>2 DEF Bounded
<1> QED
  BY <1>2, <1>3, <1>4, StoreLength, BoundedHook

LEMMA BoundedReset == IInv /\ Bounded /\ reset => Bounded'
<1> SUFFICES ASSUME IInv, Bounded, reset PROVE Bounded'
  OBVIOUS
<1>1. hook'.loaded = hook.loaded /\ hook'.errors = {} /\ hook'.result = NoResult
  BY DEF reset, Emptied, IInv, Shapes, HookFields
<1>2. UNCHANGED <<changes, loads, calls, sent, store>>
  BY DEF reset
<1> QED
  BY <1>1, <1>2, StoreLength, BoundedHook

LEMMA SlugForm == ASSUME IInv, Form # NoForm PROVE Form \in Slugs /\ IsForm(Definition[Form])
<1>1. Form \in Slugs
  BY DEF Form, IInv, Shapes, Wanted
<1> QED
  BY <1>1, HookAssumption

LEMMA BoundedInvalid == IInv /\ Bounded /\ submitInvalid => Bounded'
<1> SUFFICES ASSUME IInv, Bounded, submitInvalid PROVE Bounded'
  OBVIOUS
<1>1. PICK f : f = Definition[Form]
  OBVIOUS
<1>2. PICK d : d = hook.values
  OBVIOUS
<1>3. PICK e : e = problemsToErrors(Evaluate(f, d).problems)
  OBVIOUS
<1>4. Form \in Slugs /\ IsForm(f)
  BY <1>1, SlugForm DEF submitInvalid, MaySubmit
<1>5. \A k \in DOMAIN e : \E j \in 1..Len(f.fields) : k = f.fields[j].key
  BY <1>3, <1>4, ProblemsAreErrors
<1>6. DOMAIN e \subseteq Keys
  BY <1>1, <1>4, <1>5, FormIsKeyed DEF Keys
<1>7. hook' = [hook EXCEPT !.errors = DOMAIN e]
  BY <1>1, <1>2, <1>3 DEF submitInvalid
<1>8. hook'.loaded = hook.loaded /\ hook'.errors = DOMAIN e /\ hook'.result = hook.result
  BY <1>7 DEF IInv, Shapes, HookFields
<1>9. UNCHANGED <<changes, loads, calls, sent, store>>
  BY DEF submitInvalid
<1> QED
  BY <1>6, <1>8, <1>9, StoreLength, BoundedHook

LEMMA BoundedSubmit == IInv /\ Bounded /\ submitValid => Bounded'
<1> SUFFICES ASSUME IInv, Bounded, submitValid PROVE Bounded'
  OBVIOUS
<1>1. PICK f : f = Definition[Form]
  OBVIOUS
<1>2. PICK what : what = clean(f, hook.values)
  OBVIOUS
<1>3. Form \in Slugs /\ IsForm(f)
  BY <1>1, SlugForm DEF submitValid, MaySubmit
<1>4. DOMAIN what \subseteq Keys
  BY <1>1, <1>2, <1>3, CleanOfForm, FormIsKeyed DEF Keys
<1>5. /\ calls' = calls \cup {[n |-> sent + 1, slug |-> slug, data |-> what, id |-> NoResult]}
      /\ sent' = sent + 1 /\ sent < MaxSent /\ UNCHANGED <<changes, loads, store>>
  BY <1>1, <1>2 DEF submitValid
<1>6. sent \in Nat /\ MaxSent \in Nat
  BY HookAssumption DEF IInv, Shapes
<1>7. hook'.loaded = hook.loaded /\ hook'.errors = {} /\ hook'.result = hook.result
  BY DEF submitValid, IInv, Shapes, HookFields
<1>8. \A c \in calls' : c.n \in 1..sent' /\ DOMAIN c.data \subseteq Keys
  <2> SUFFICES ASSUME NEW c \in calls' PROVE c.n \in 1..sent' /\ DOMAIN c.data \subseteq Keys
    OBVIOUS
  <2>1. CASE c \in calls
    BY <1>5, <1>6, <2>1 DEF Bounded
  <2>2. CASE c \notin calls
    <3>1. c.n = sent + 1 /\ c.data = what
      BY <1>5, <2>2
    <3> QED
      BY <1>4, <1>5, <1>6, <3>1
  <2> QED
    BY <2>1, <2>2
<1> QED
  BY <1>5, <1>6, <1>7, <1>8 DEF Bounded

LEMMA BoundedAccept == IInv /\ Bounded /\ accept => Bounded'
<1> SUFFICES ASSUME IInv, Bounded, accept PROVE Bounded'
  OBVIOUS
<1>1. PICK c \in calls :
        /\ store' = Append(store, [slug |-> c.slug, data |-> c.data])
        /\ calls' = (calls \ {c}) \cup {[c EXCEPT !.id = Len(store) + 1]}
  BY DEF accept
<1>2. Len(store) \in Nat /\ Len(store') = Len(store) + 1
  BY <1>1, Grows DEF IInv, Shapes
<1>3. c \in [n : Nat, slug : Slugs, data : {c.data}, id : Nat]
  BY DEF IInv, Shapes
<1>4. PICK e : e = [c EXCEPT !.id = Len(store) + 1]
  OBVIOUS
<1>5. e.n = c.n /\ e.data = c.data
  BY <1>3, <1>4
<1>6. UNCHANGED <<changes, loads, hook, sent>>
  BY DEF accept
<1>7. \A d \in calls' : d.n \in 1..sent /\ DOMAIN d.data \subseteq Keys
  BY <1>1, <1>4, <1>5 DEF Bounded
<1>8. hook.result \in 0..Len(store')
  BY <1>2 DEF Bounded
<1> QED
  BY <1>6, <1>7, <1>8 DEF Bounded

LEMMA BoundedAnswered == IInv /\ Bounded /\ answered => Bounded'
<1> SUFFICES ASSUME IInv, Bounded, answered PROVE Bounded'
  OBVIOUS
<1>1. PICK c, code, e :
        /\ c \in calls /\ calls' = calls \ {c}
        /\ e = {FORM_ERROR_KEY} \/ e = DOMAIN c.data
        /\ hook' = IF code = "ok" THEN Landed([hook EXCEPT !.result = c.id], code)
                   ELSE Landed([hook EXCEPT !.errors = e], code)
  BY DEF answered
<1>2. c.id \in 0..Len(store) /\ DOMAIN c.data \subseteq Keys
  BY <1>1, StoreLength DEF IInv, Numbers, NoResult, Bounded
<1>5. /\ hook'.loaded = hook.loaded /\ hook'.errors \in {hook.errors, e}
      /\ hook'.result \in {hook.result, c.id}
  BY <1>1 DEF Landed, IInv, Shapes, HookFields
<1>6. UNCHANGED <<changes, loads, sent, store>>
  BY DEF answered
<1>7. e \subseteq Keys \cup {FORM_ERROR_KEY}
  BY <1>1, <1>2
<1> QED
  BY <1>1, <1>2, <1>5, <1>6, <1>7 DEF Bounded

LEMMA StoreGrows == ASSUME IInv, FormStep PROVE Len(store') \in Nat /\ Len(store) <= Len(store')
<1>1. CASE accept
  <2>1. PICK e : store' = Append(store, e)
    BY <1>1 DEF accept
  <2>2. Len(store) \in Nat /\ Len(store') = Len(store) + 1
    BY <2>1, Grows DEF IInv, Shapes
  <2> QED
    BY <2>2
<1>2. CASE changeSlug \/ loadAnswered \/ setValue \/ reset
  <2>1. store' = store
    BY <1>2 DEF changeSlug, loadAnswered, setValue, reset
  <2> QED
    BY <2>1, StoreLength
<1>3. CASE submitInvalid \/ submitValid \/ answered
  <2>1. store' = store
    BY <1>3 DEF submitInvalid, submitValid, answered
  <2> QED
    BY <2>1, StoreLength
<1> QED
  BY <1>1, <1>2, <1>3 DEF FormStep

(* onSubmitted is told of the hook's result. *)
LEMMA ToldIs ==
    ASSUME Notify(notified), told' # told
    PROVE  told' = Append(told, hook'.result)
BY DEF Notify

LEMMA BoundedNext == IInv /\ Bounded /\ ToldTyped /\ [FormNext]_formVars => Bounded' /\ ToldTyped'
<1> SUFFICES ASSUME IInv, Bounded, ToldTyped, [FormNext]_formVars PROVE Bounded' /\ ToldTyped'
  OBVIOUS
<1>1. CASE FormNext
  <2>1. Bounded'
    BY <1>1, BoundedChange, BoundedLoad, BoundedSet, BoundedReset, BoundedInvalid, BoundedSubmit,
       BoundedAccept, BoundedAnswered DEF FormNext, FormStep
  <2>2. PICK N \in Nat : N = Len(store')
    BY <1>1, StoreGrows DEF FormNext
  <2>3. told \in Seq(0..N)
    <3>1. 0..Len(store) \subseteq 0..N
      BY <1>1, <2>2, StoreGrows, StoreLength DEF FormNext
    <3> QED
      BY <3>1, SeqMonotonic DEF ToldTyped
  <2>4. PICK r : r = hook'.result
    OBVIOUS
  <2>5. r \in 0..N
    BY <2>1, <2>2, <2>4 DEF Bounded
  <2>6. told' = told \/ told' = Append(told, r)
    BY <1>1, <2>4, ToldIs DEF FormNext
  <2>7. told' \in Seq(0..N)
    BY <2>3, <2>5, <2>6, AppendProperties
  <2> QED
    BY <2>1, <2>2, <2>7 DEF ToldTyped
<1>2. CASE UNCHANGED formVars
  BY <1>2 DEF formVars, Bounded, ToldTyped
<1> QED
  BY <1>1, <1>2

LEMMA FormTyped == ASSUME IInv, Bounded, ToldTyped PROVE TypeOK
<1>1. Len(store) \in Nat /\ changes \in 0..MaxChanges /\ sent \in 0..MaxSent
  BY StoreLength, HookAssumption DEF IInv, Shapes, Bounded
<1>2. \A l \in loads : l.n \in 0..changes /\ l.slug \in Slugs
  <2> SUFFICES ASSUME NEW l \in loads PROVE l.n \in 0..changes /\ l.slug \in Slugs
    OBVIOUS
  <2>1. l \in [n : Nat, slug : Slugs, cancelled : BOOLEAN]
    BY DEF IInv, Shapes
  <2> QED
    BY <1>1, <2>1 DEF Bounded
<1>3. \A c \in calls : c.n \in 1..sent /\ c.id \in 0..Len(store)
  BY <1>1 DEF IInv, Numbers, NoResult, Bounded
<1>4. hook.phase \in {"idle", "submitting", "submitted"}
  BY DEF IInv, Shapes
<1>5. slug \in Slugs /\ mode \in {"slug", "definition"} /\ ui \in {"OpenForm", "headless"}
  BY DEF IInv, Shapes
<1> QED
  BY <1>1, <1>2, <1>3, <1>4, <1>5 DEF TypeOK, Bounded, ToldTyped

LEMMA FormTypedAlways == Spec => [](Bounded /\ ToldTyped)
BY FormInvariance, BoundedInit, BoundedNext, PTL DEF Spec

-----------------------------------------------------------------------------
(* The page around the form *)

Hosts == [OpenForms : BOOLEAN, listeners : {0, 1}, frames : [Containers -> {0, 1}]]

(* What a call of start leaves: every container of the page has its frame. *)
Started(h, present) ==
    [OpenForms |-> TRUE, listeners |-> 1,
     frames |-> [c \in Containers |-> IF c \in present THEN 1 ELSE h.frames[c]]]

ScriptInv ==
    /\ page \in {"own", "embedded"}
    /\ doc \in [ready : BOOLEAN, present : SUBSET Containers, parsed : SUBSET Containers]
    /\ scripts \in [ran : 0..Scripts, waiting : 0..Scripts] /\ scripts.waiting <= scripts.ran
    /\ host \in Hosts
    /\ host.listeners = IF host.OpenForms THEN 1 ELSE 0

(* Before the script has set itself up there is no frame and no container  *)
(* has gone; afterwards those of the page's own HTML have their frames.    *)
Order ==
    /\ ~host.OpenForms => (\A c \in Containers : host.frames[c] = 0) /\ doc.parsed \subseteq doc.present
    /\ host.OpenForms => doc.ready /\ \A c \in doc.parsed : host.frames[c] = 1
    /\ doc.ready /\ scripts.ran > 0 => host.OpenForms
    /\ ~doc.ready => scripts.waiting = scripts.ran

LEMMA ScanIs ==
    ASSUME NEW h \in Hosts, doc.present \subseteq Containers, NEW frames,
           frames = [c \in Containers |-> IF c \in doc.present THEN 1 ELSE h.frames[c]]
    PROVE  scan(h) = [OpenForms |-> h.OpenForms, listeners |-> h.listeners, frames |-> frames]
<1>1. \A c \in Containers : mount(h, c).frames[c] = 1
  <2> SUFFICES ASSUME NEW c \in Containers PROVE mount(h, c).frames[c] = 1
    OBVIOUS
  <2>1. h.frames \in [Containers -> {0, 1}]
    BY DEF Hosts
  <2>2. mount(h, c).frames = [h.frames EXCEPT ![c] = IF @ = 0 THEN 1 ELSE @]
    BY DEF mount, Hosts
  <2> QED
    BY <2>1, <2>2
<1>2. scan(h) = [h EXCEPT !.frames = frames]
  BY <1>1 DEF scan
<1>3. h = [OpenForms |-> h.OpenForms, listeners |-> h.listeners, frames |-> h.frames]
  BY DEF Hosts
<1> QED
  BY <1>2, <1>3

LEMMA StartIs ==
    ASSUME NEW h \in Hosts, h.listeners = IF h.OpenForms THEN 1 ELSE 0, doc.present \subseteq Containers
    PROVE  start(h) = Started(h, doc.present) /\ start(h) \in Hosts
<1>1. PICK frames : frames = [c \in Containers |-> IF c \in doc.present THEN 1 ELSE h.frames[c]]
  OBVIOUS
<1>2. h.frames \in [Containers -> {0, 1}]
  BY DEF Hosts
<1>3. frames \in [Containers -> {0, 1}]
  BY <1>1, <1>2
<1>4. Started(h, doc.present) = [OpenForms |-> TRUE, listeners |-> 1, frames |-> frames]
  BY <1>1 DEF Started
<1>5. Started(h, doc.present) \in Hosts
  BY <1>3, <1>4 DEF Hosts
<1>6. CASE h.OpenForms
  <2>1. start(h) = scan(h)
    BY <1>6 DEF start
  <2>2. h.OpenForms = TRUE /\ h.listeners = 1
    BY <1>6 DEF Hosts
  <2>3. scan(h) = [OpenForms |-> TRUE, listeners |-> 1, frames |-> frames]
    <3>1. scan(h) = [OpenForms |-> h.OpenForms, listeners |-> h.listeners, frames |-> frames]
      BY <1>1, ScanIs
    <3>2. PICK b, l : b = h.OpenForms /\ l = h.listeners
      OBVIOUS
    <3>3. scan(h) = [OpenForms |-> b, listeners |-> l, frames |-> frames]
      BY <3>1, <3>2, Zenon
    <3>4. b = TRUE
      BY <2>2, <3>2, Zenon
    <3>5. l = 1
      BY <2>2, <3>2, Zenon
    <3> QED
      BY <3>3, <3>4, <3>5, Zenon
  <2> QED
    BY <1>4, <1>5, <2>1, <2>3
<1>7. CASE ~h.OpenForms
  <2>1. PICK g : g = [h EXCEPT !.listeners = @ + 1]
    OBVIOUS
  <2>2. h.listeners = 0
    BY <1>7
  <2>3. h = [OpenForms |-> h.OpenForms, listeners |-> h.listeners, frames |-> h.frames]
    BY DEF Hosts
  <2>4. PICK b : b = h.OpenForms
    OBVIOUS
  <2>a. g = [OpenForms |-> b, listeners |-> 1, frames |-> h.frames]
    <3>1. PICK r, l, q : r = h /\ l = h.listeners /\ q = h.frames
      OBVIOUS
    <3>2. r = [OpenForms |-> b, listeners |-> l, frames |-> q]
      BY <2>3, <2>4, <3>1, Zenon
    <3>3. [r EXCEPT !.listeners = @ + 1] = [OpenForms |-> b, listeners |-> l + 1, frames |-> q]
      BY <3>2
    <3>4. g = [r EXCEPT !.listeners = @ + 1] /\ l + 1 = 1
      BY <2>1, <2>2, <3>1
    <3> QED
      BY <3>1, <3>3, <3>4
  <2>b. g \in Hosts /\ g.frames = h.frames /\ g.listeners = 1
    <3>1. b \in BOOLEAN
      BY <2>4 DEF Hosts
    <3> QED
      BY <1>2, <2>a, <3>1 DEF Hosts
  <2>5. init(h) = [OpenForms |-> b, listeners |-> 1, frames |-> frames]
    <3>1. init(h) = scan(g)
      BY <2>1 DEF init
    <3>2. scan(g) = [OpenForms |-> g.OpenForms, listeners |-> g.listeners, frames |-> frames]
      BY <1>1, <2>b, ScanIs
    <3>3. PICK bb : bb = g.OpenForms
      OBVIOUS
    <3>4. scan(g) = [OpenForms |-> bb, listeners |-> g.listeners, frames |-> frames]
      BY <3>2, <3>3, Zenon
    <3>5. bb = b
      BY <2>a, <3>3
    <3> QED
      BY <2>b, <3>1, <3>4, <3>5
  <2>6. start(h) = [init(h) EXCEPT !.OpenForms = TRUE]
    BY <1>7 DEF start
  <2>7. start(h) = [OpenForms |-> TRUE, listeners |-> 1, frames |-> frames]
    <3>1. PICK t : t = TRUE
      OBVIOUS
    <3>2. PICK r : r = init(h)
      OBVIOUS
    <3>3. r = [OpenForms |-> b, listeners |-> 1, frames |-> frames]
      BY <2>5, <3>2
    <3>4. [r EXCEPT !.OpenForms = t] = [OpenForms |-> t, listeners |-> 1, frames |-> frames]
      BY <3>3
    <3>5. start(h) = [r EXCEPT !.OpenForms = t]
      BY <2>6, <3>1, <3>2, Zenon
    <3>6. start(h) = [OpenForms |-> t, listeners |-> 1, frames |-> frames]
      BY <3>4, <3>5
    <3> QED
      BY <3>1, <3>6, Zenon
  <2> QED
    BY <1>4, <1>5, <2>7
<1> QED
  BY <1>6, <1>7

(* Starting again changes nothing. *)
LEMMA StartAgain ==
    ASSUME NEW h \in Hosts, h.listeners = IF h.OpenForms THEN 1 ELSE 0, doc.present \subseteq Containers
    PROVE  start(Started(h, doc.present)) = Started(h, doc.present)
<1>1. PICK g : g = Started(h, doc.present)
  OBVIOUS
<1>2. g \in Hosts
  BY <1>1, StartIs
<1>3. g.OpenForms = TRUE /\ g.listeners = 1
      /\ g.frames = [c \in Containers |-> IF c \in doc.present THEN 1 ELSE h.frames[c]]
  BY <1>1 DEF Started
<1>4. start(g) = Started(g, doc.present)
  BY <1>2, <1>3, StartIs
<1>5. Started(g, doc.present) = Started(h, doc.present)
  BY <1>3 DEF Started
<1> QED
  BY <1>1, <1>4, <1>5

(* The callbacks that wait for the document, one after the other. *)
LEMMA StartsAre ==
    ASSUME ScriptInv, DOMContentLoaded
    PROVE  host' = IF scripts.waiting = 0 THEN host ELSE Started(host, doc.present)
<1>1. PICK N \in Nat : N = Scripts
  BY OursAssumption
<1>2. PICK one : one = Started(host, doc.present)
  OBVIOUS
<1>3. start(host) = one /\ start(one) = one
  BY <1>2, StartIs, StartAgain DEF ScriptInv
<1>4. PICK f : f = [n \in 0..N |-> IF n = 0 THEN host ELSE one]
  OBVIOUS
<1>5. f = [n \in 0..N |-> IF n = 0 THEN host ELSE start(f[n - 1])]
  <2>1. \A n \in 0..N : f[n] = IF n = 0 THEN host ELSE start(f[n - 1])
    <3> SUFFICES ASSUME NEW n \in 0..N PROVE f[n] = IF n = 0 THEN host ELSE start(f[n - 1])
      OBVIOUS
    <3>1. CASE n = 0
      BY <1>4, <3>1
    <3>2. CASE n # 0
      <4>1. n - 1 \in 0..N /\ f[n - 1] \in {host, one} /\ f[n] = one
        BY <1>1, <1>4, <3>2
      <4> QED
        BY <1>3, <3>2, <4>1
    <3> QED
      BY <3>1, <3>2
  <2>2. f = [n \in 0..N |-> f[n]]
    BY <1>4
  <2> QED
    BY <2>1, <2>2, Zenon
<1>6. \E g : /\ g = [n \in 0..N |-> IF n = 0 THEN host ELSE start(g[n - 1])]
             /\ host' = g[scripts.waiting]
  BY <1>1, <1>5 DEF DOMContentLoaded
<1>7. PICK g : /\ g = [n \in 0..N |-> IF n = 0 THEN host ELSE start(g[n - 1])]
               /\ host' = g[scripts.waiting]
  BY <1>6
<1>8. \A n \in 0..N : g[n] = IF n = 0 THEN host ELSE start(g[n - 1])
  <2> SUFFICES ASSUME NEW n \in 0..N PROVE g[n] = IF n = 0 THEN host ELSE start(g[n - 1])
    OBVIOUS
  <2> QED
    BY <1>7, Zenon
<1>9. PICK A : A = {n \in 0..N : g[n] = IF n = 0 THEN host ELSE one}
  OBVIOUS
<1>10. 0 \in A
  BY <1>1, <1>8, <1>9
<1>11. \A n \in 0..N : n \in A /\ n < N => n + 1 \in A
  <2> SUFFICES ASSUME NEW n \in 0..N, n \in A, n < N PROVE n + 1 \in A
    OBVIOUS
  <2>1. n + 1 \in 0..N /\ n + 1 # 0 /\ (n + 1) - 1 = n
    BY <1>1
  <2>2. g[n] \in {host, one}
    BY <1>9
  <2>3. g[n + 1] = start(g[n])
    BY <1>8, <2>1
  <2>4. g[n + 1] = one
    BY <1>3, <2>2, <2>3
  <2> QED
    BY <1>9, <2>1, <2>4
<1>12. \A n \in 0..N : n \in A
  BY <1>1, <1>10, <1>11, IntervalInduction
<1>13. scripts.waiting \in 0..N
  BY <1>1 DEF ScriptInv
<1> QED
  BY <1>2, <1>7, <1>9, <1>12, <1>13

-----------------------------------------------------------------------------
(* What the frames and their messages carry. *)

HeightsSeen == Heights \cup {INITIAL_HEIGHT}

Submitted(c) == [from : {c}, type : {"submitted"}, value : Nat]
Messages ==
    [from : Containers, type : {"resize"}, value : HeightsSeen]
        \cup [from : Containers, type : {"submitted"}, value : Nat]

FramesInv ==
    /\ view \in [Containers -> [content : HeightsSeen, last : HeightsSeen \cup {0}, shown : HeightsSeen]]
    /\ others \in [Containers -> Nat]
    /\ mail \in Seq(Messages)

(* The submissions of a frame: those its form confirmed, and those under   *)
(* way to the page.                                                        *)
ValuesOf(k) == [i \in DOMAIN k |-> k[i].value]
Confirmed(c) == IF c = Ours THEN told ELSE [i \in 1..others[c] |-> i]
UnderWay(c) == ValuesOf(Kept(mail, Submitted(c)))

(* A container that the page never took away misses nothing, and one that  *)
(* never had a frame has nothing to miss.                                  *)
Heard(c) ==
    /\ events[c] \in Seq(Nat) /\ Confirmed(c) \in Seq(Nat)
    /\ \E rest \in Seq(Nat) : Joins(Confirmed(c), events[c], rest)
    /\ c \in doc.present \/ host.frames[c] = 0 => Joins(Confirmed(c), events[c], UnderWay(c))
    /\ host.frames[c] = 0 => Confirmed(c) = << >>

HeardInv == page = "embedded" => \A c \in Containers : Heard(c)

-----------------------------------------------------------------------------

(* Setting up, or scanning, gives every container of the page its frame. *)
LEMMA StartedInv ==
    ASSUME ScriptInv, Order, doc'.ready, doc'.present = doc.present, doc'.parsed = doc.parsed,
           host' = Started(host, doc.present)
    PROVE  /\ host' \in Hosts /\ host'.OpenForms /\ host'.listeners = 1
           /\ \A c \in doc'.parsed : host'.frames[c] = 1
<1>1. host' \in Hosts
  BY StartIs DEF ScriptInv
<1>2. host'.OpenForms /\ host'.listeners = 1
      /\ host'.frames = [c \in Containers |-> IF c \in doc.present THEN 1 ELSE host.frames[c]]
  BY DEF Started
<1>3. ASSUME NEW c \in doc'.parsed PROVE host'.frames[c] = 1
  <2>1. c \in Containers
    BY <1>3 DEF ScriptInv
  <2>2. CASE c \in doc.present
    BY <1>2, <2>1, <2>2
  <2>3. CASE c \notin doc.present
    <3>1. host.OpenForms
      BY <1>3, <2>3 DEF Order
    <3>2. host.frames[c] = 1
      BY <1>3, <3>1 DEF Order
    <3> QED
      BY <1>2, <2>1, <2>3, <3>2
  <2> QED
    BY <2>2, <2>3
<1> QED
  BY <1>1, <1>2, <1>3

LEMMA RunScriptInv == ScriptInv /\ Order /\ runScript => ScriptInv' /\ Order'
<1> SUFFICES ASSUME ScriptInv, Order, runScript PROVE ScriptInv' /\ Order'
  OBVIOUS
<1>1. UNCHANGED <<page, doc>>
  BY DEF runScript
<1>2. scripts.ran < Scripts /\ scripts.ran \in Nat /\ scripts.waiting \in Nat /\ Scripts \in Nat
      /\ scripts.waiting <= scripts.ran
  BY OursAssumption DEF runScript, ScriptInv
<1>3. CASE waits
  <2>1. scripts' = [ran |-> scripts.ran + 1, waiting |-> scripts.waiting + 1] /\ UNCHANGED host
    BY <1>3 DEF runScript
  <2>2. scripts'.ran = scripts.ran + 1 /\ scripts'.waiting = scripts.waiting + 1
    BY <2>1
  <2>3. scripts' \in [ran : 0..Scripts, waiting : 0..Scripts] /\ scripts'.waiting <= scripts'.ran
    BY <1>2, <2>1
  <2>4. ~doc.ready
    BY <1>3 DEF waits
  <2>5. ScriptInv'
    BY <1>1, <2>1, <2>3 DEF ScriptInv
  <2> QED
    BY <1>1, <2>1, <2>2, <2>4, <2>5 DEF Order
<1>4. CASE ~waits
  <2>1. scripts' = [scripts EXCEPT !.ran = @ + 1] /\ host' = start(host)
    BY <1>4 DEF runScript
  <2>2. scripts' \in [ran : 0..Scripts, waiting : 0..Scripts] /\ scripts'.waiting <= scripts'.ran
    BY <1>2, <2>1 DEF ScriptInv
  <2>3. doc.ready
    BY <1>4 DEF waits
  <2>4. host' = Started(host, doc.present)
    BY <2>1, StartIs DEF ScriptInv
  <2>5. /\ host' \in Hosts /\ host'.OpenForms /\ host'.listeners = 1
        /\ \A c \in doc'.parsed : host'.frames[c] = 1
    BY <1>1, <2>3, <2>4, StartedInv
  <2>6. ScriptInv'
    BY <1>1, <2>2, <2>5 DEF ScriptInv
  <2> QED
    BY <1>1, <2>3, <2>5, <2>6 DEF Order
<1> QED
  BY <1>3, <1>4

LEMMA ReadyInv == ScriptInv /\ Order /\ DOMContentLoaded => ScriptInv' /\ Order'
<1> SUFFICES ASSUME ScriptInv, Order, DOMContentLoaded PROVE ScriptInv' /\ Order'
  OBVIOUS
<1>1. /\ page' = page /\ ~doc.ready /\ doc' = [doc EXCEPT !.ready = TRUE]
      /\ scripts' = [scripts EXCEPT !.waiting = 0]
  BY DEF DOMContentLoaded
<1>2. doc' \in [ready : BOOLEAN, present : SUBSET Containers, parsed : SUBSET Containers]
      /\ doc'.ready /\ doc'.present = doc.present /\ doc'.parsed = doc.parsed
  BY <1>1 DEF ScriptInv
<1>3. scripts' \in [ran : 0..Scripts, waiting : 0..Scripts] /\ scripts'.waiting <= scripts'.ran
      /\ scripts'.ran = scripts.ran
  BY <1>1, OursAssumption DEF ScriptInv
<1>4. ~host.OpenForms /\ scripts.waiting = scripts.ran
  BY <1>1 DEF Order
<1>5. CASE scripts.ran = 0
  <2>1. host' = host
    BY <1>4, <1>5, StartsAre
  <2>2. ScriptInv'
    BY <1>1, <1>2, <1>3, <2>1 DEF ScriptInv
  <2> QED
    BY <1>2, <1>3, <1>4, <1>5, <2>1, <2>2 DEF Order
<1>6. CASE scripts.ran # 0
  <2>1. host' = Started(host, doc.present)
    BY <1>4, <1>6, StartsAre
  <2>2. /\ host' \in Hosts /\ host'.OpenForms /\ host'.listeners = 1
        /\ \A c \in doc'.parsed : host'.frames[c] = 1
    BY <1>2, <2>1, StartedInv
  <2>3. ScriptInv'
    BY <1>1, <1>2, <1>3, <2>2 DEF ScriptInv
  <2> QED
    BY <1>2, <2>2, <2>3 DEF Order
<1> QED
  BY <1>5, <1>6

LEMMA AddInv == ScriptInv /\ Order /\ addContainer => ScriptInv' /\ Order'
<1> SUFFICES ASSUME ScriptInv, Order, addContainer PROVE ScriptInv' /\ Order'
  OBVIOUS
<1>1. PICK c \in Containers \ doc.present :
        doc' = [doc EXCEPT !.present = @ \cup {c}, !.parsed = IF doc.ready THEN @ ELSE @ \cup {c}]
  BY DEF addContainer
<1>2. UNCHANGED <<page, scripts, host>>
  BY DEF addContainer
<1>3. /\ doc' \in [ready : BOOLEAN, present : SUBSET Containers, parsed : SUBSET Containers]
      /\ doc'.present = doc.present \cup {c}
      /\ doc'.parsed = IF doc.ready THEN doc.parsed ELSE doc.parsed \cup {c}
  BY <1>1 DEF ScriptInv
<1>4. doc'.ready = doc.ready
  BY <1>1 DEF ScriptInv
<1>5. ScriptInv'
  BY <1>2, <1>3 DEF ScriptInv
<1> QED
  BY <1>2, <1>3, <1>4, <1>5 DEF Order

LEMMA ScanAgainInv == ScriptInv /\ Order /\ scanAgain => ScriptInv' /\ Order'
<1> SUFFICES ASSUME ScriptInv, Order, scanAgain PROVE ScriptInv' /\ Order'
  OBVIOUS
<1>1. host.OpenForms /\ host' = scan(host) /\ UNCHANGED <<page, doc, scripts>>
  BY DEF scanAgain
<1>2. host' = Started(host, doc.present)
  BY <1>1, StartIs DEF start, ScriptInv
<1>3. doc.ready
  BY <1>1 DEF Order
<1>4. /\ host' \in Hosts /\ host'.OpenForms /\ host'.listeners = 1
      /\ \A c \in doc'.parsed : host'.frames[c] = 1
  BY <1>1, <1>2, <1>3, StartedInv
<1>5. ScriptInv'
  BY <1>1, <1>4 DEF ScriptInv
<1> QED
  BY <1>1, <1>3, <1>4, <1>5 DEF Order

LEMMA RemoveInv == ScriptInv /\ Order /\ removeContainer => ScriptInv' /\ Order'
<1> SUFFICES ASSUME ScriptInv, Order, removeContainer PROVE ScriptInv' /\ Order'
  OBVIOUS
<1>1. PICK c \in doc.present : host.frames[c] > 0 /\ doc' = [doc EXCEPT !.present = @ \ {c}]
  BY DEF removeContainer
<1>2. UNCHANGED <<page, scripts, host>>
  BY DEF removeContainer
<1>3. /\ doc' \in [ready : BOOLEAN, present : SUBSET Containers, parsed : SUBSET Containers]
      /\ doc'.parsed = doc.parsed
  BY <1>1 DEF ScriptInv
<1>4. doc'.ready = doc.ready
  BY <1>1 DEF ScriptInv
<1>5. host.OpenForms
  <2>1. c \in Containers
    BY <1>1 DEF ScriptInv
  <2>2. host.frames[c] # 0
    BY <1>1
  <2> QED
    BY <2>1, <2>2 DEF Order
<1>6. ScriptInv'
  BY <1>2, <1>3 DEF ScriptInv
<1> QED
  BY <1>2, <1>3, <1>4, <1>5, <1>6 DEF Order

LEMMA ScriptNext == ScriptInv /\ Order /\ [HostNext]_hostVars => ScriptInv' /\ Order'
<1> SUFFICES ASSUME ScriptInv, Order, [HostNext]_hostVars PROVE ScriptInv' /\ Order'
  OBVIOUS
<1>1. CASE UNCHANGED <<page, doc, scripts, host>>
  <2>1. ScriptInv'
    BY <1>1 DEF ScriptInv
  <2> QED
    BY <1>1, <2>1 DEF Order
<1>2. ourForm(FormStep) => UNCHANGED <<page, doc, scripts, host>>
  BY DEF ourForm, embedVars
<1>3. layout \/ report \/ otherForm \/ deliver => UNCHANGED <<page, doc, scripts, host>>
  BY DEF layout, report, otherForm, deliver
<1>4. UNCHANGED hostVars => UNCHANGED <<page, doc, scripts, host>>
  BY DEF hostVars, embedVars
<1> QED
  BY <1>1, <1>2, <1>3, <1>4, RunScriptInv, ReadyInv, AddInv, ScanAgainInv, RemoveInv DEF HostNext

-----------------------------------------------------------------------------

LEMMA PageInit == HostInit => ScriptInv /\ Order /\ FramesInv
<1> SUFFICES ASSUME HostInit PROVE ScriptInv /\ Order /\ FramesInv
  OBVIOUS
<1>1. /\ page \in {"own", "embedded"}
      /\ doc = [ready |-> FALSE, present |-> {}, parsed |-> {}]
      /\ scripts = [ran |-> 0, waiting |-> 0]
      /\ host = [OpenForms |-> FALSE, listeners |-> 0, frames |-> [c \in Containers |-> 0]]
  BY DEF HostInit
<1>2. /\ view = [c \in Containers |-> [content |-> INITIAL_HEIGHT, last |-> 0, shown |-> INITIAL_HEIGHT]]
      /\ others = [c \in Containers |-> 0]
      /\ mail = << >>
  BY DEF HostInit
<1>3. Scripts \in Nat
  BY OursAssumption
<1>4. host \in Hosts /\ ~host.OpenForms /\ host.listeners = 0 /\ \A c \in Containers : host.frames[c] = 0
  BY <1>1 DEF Hosts
<1>5. doc \in [ready : BOOLEAN, present : SUBSET Containers, parsed : SUBSET Containers]
      /\ ~doc.ready /\ doc.parsed = {}
  BY <1>1
<1>6. scripts \in [ran : 0..Scripts, waiting : 0..Scripts] /\ scripts.ran = 0 /\ scripts.waiting = 0
  BY <1>1, <1>3
<1>7. ScriptInv
  BY <1>1, <1>4, <1>5, <1>6 DEF ScriptInv
<1>8. Order
  BY <1>4, <1>5, <1>6 DEF Order
<1>9. view \in [Containers -> [content : HeightsSeen, last : HeightsSeen \cup {0}, shown : HeightsSeen]]
  BY <1>2 DEF HeightsSeen
<1>10. mail \in Seq(Messages)
  BY <1>2, EmptySeq
<1> QED
  BY <1>2, <1>7, <1>8, <1>9, <1>10 DEF FramesInv

(* A message posted is one of the messages. *)
LEMMA PostIs ==
    ASSUME FramesInv, NEW c, NEW type, NEW value, [from |-> c, type |-> type, value |-> value] \in Messages
    PROVE  Post(c, type, value) \in Seq(Messages)
           /\ Post(c, type, value) = Append(mail, [from |-> c, type |-> type, value |-> value])
<1>1. PICK m : m = [from |-> c, type |-> type, value |-> value]
  OBVIOUS
<1>2. mail \in Seq(Messages) /\ m \in Messages
  BY <1>1 DEF FramesInv
<1>3. Append(mail, m) \in Seq(Messages)
  BY <1>2, AppendProperties
<1> QED
  BY <1>1, <1>3 DEF Post

LEMMA LayoutFrames == FramesInv /\ layout => FramesInv'
<1> SUFFICES ASSUME FramesInv, layout PROVE FramesInv'
  OBVIOUS
<1>1. PICK h \in Heights : view' = [view EXCEPT ![Ours].content = h]
  BY DEF layout
<1>2. UNCHANGED <<others, mail>>
  BY DEF layout
<1>3. h \in HeightsSeen
  BY DEF HeightsSeen
<1> QED
  BY <1>1, <1>2, <1>3 DEF FramesInv

LEMMA ReportFrames == FramesInv /\ report => FramesInv' /\ mail' = Post(Ours, "resize", scrollHeight(view[Ours]))
<1> SUFFICES ASSUME FramesInv, report PROVE FramesInv'
  BY DEF report
<1>1. PICK h : h = scrollHeight(view[Ours])
  OBVIOUS
<1>2. view' = [view EXCEPT ![Ours].last = h] /\ mail' = Post(Ours, "resize", h) /\ UNCHANGED others
  BY <1>1 DEF report
<1>3. h \in HeightsSeen
  BY <1>1, OursAssumption DEF FramesInv, scrollHeight
<1>4. [from |-> Ours, type |-> "resize", value |-> h] \in Messages
  BY <1>3, OursAssumption DEF Messages
<1>5. mail' \in Seq(Messages)
  BY <1>2, <1>4, PostIs
<1> QED
  BY <1>2, <1>3, <1>5 DEF FramesInv

(* What our form's step posts. *)
LEMMA OurFormPosts ==
    ASSUME IInv, Bounded, ToldTyped, FramesInv, ourForm(FormStep)
    PROVE  /\ FramesInv'
           /\ page = "embedded" =>
                \/ UNCHANGED <<told, mail>>
                \/ \E r \in Nat : told' = Append(told, r) /\ mail' = Append(mail, [from |-> Ours, type |-> "submitted", value |-> r])
<1>1. FormStep /\ Notify(notified)
  BY DEF ourForm
<1>2. Bounded' /\ Len(store') \in Nat
  BY <1>1, BoundedNext, StoreGrows DEF FormNext
<1>3. PICK r \in Nat : r = hook'.result
  BY <1>2 DEF Bounded
<1>4. Len(store) \in Nat /\ told \in Seq(0..Len(store))
  BY StoreLength DEF ToldTyped
<1>5. told \in Seq(Nat)
  <2>1. 0..Len(store) \subseteq Nat
    BY <1>4
  <2> QED
    BY <1>4, <2>1, SeqMonotonic
<1>6. CASE page = "own"
  <2>1. UNCHANGED <<view, others, mail>>
    BY <1>6 DEF ourForm, embedVars
  <2> QED
    BY <1>6, <2>1 DEF FramesInv
<1>7. CASE page # "own"
  <2>1. UNCHANGED <<view, others>>
        /\ mail' = IF told' # told THEN Post(Ours, "submitted", told'[Len(told')]) ELSE mail
    BY <1>7 DEF ourForm
  <2>2. CASE told' = told
    <3>1. mail' = mail
      BY <2>1, <2>2
    <3> QED
      BY <2>1, <2>2, <3>1 DEF FramesInv
  <2>3. CASE told' # told
    <3>1. told' = Append(told, r)
      BY <1>1, <1>3, <2>3, ToldIs
    <3>2. PICK t : t = Append(told, r)
      OBVIOUS
    <3>3. t[Len(t)] = r
      BY <1>5, <3>2, AppendProperties
    <3>4. mail' = Post(Ours, "submitted", r)
      BY <2>1, <2>3, <3>1, <3>2, <3>3
    <3>5. [from |-> Ours, type |-> "submitted", value |-> r] \in Messages
      BY OursAssumption DEF Messages
    <3>6. mail' \in Seq(Messages) /\ mail' = Append(mail, [from |-> Ours, type |-> "submitted", value |-> r])
      BY <3>4, <3>5, PostIs
    <3>7. FramesInv'
      BY <2>1, <3>6 DEF FramesInv
    <3> QED
      BY <3>1, <3>6, <3>7
  <2> QED
    BY <2>2, <2>3
<1> QED
  BY <1>6, <1>7

LEMMA OtherFrames ==
    ASSUME FramesInv, otherForm
    PROVE  /\ FramesInv'
           /\ \E c \in Containers \ {Ours} :
                /\ c \in doc.present /\ host.frames[c] > 0
                /\ others' = [others EXCEPT ![c] = @ + 1]
                /\ mail' = Append(mail, [from |-> c, type |-> "submitted", value |-> others[c] + 1])
<1>1. PICK c \in Containers \ {Ours} :
        /\ Live(c) /\ others' = [others EXCEPT ![c] = @ + 1]
        /\ mail' = Post(c, "submitted", others[c] + 1)
  BY DEF otherForm
<1>2. view' = view
  BY DEF otherForm
<1>3. others[c] \in Nat /\ others' \in [Containers -> Nat]
  BY <1>1 DEF FramesInv
<1>4. PICK r \in Nat : r = others[c] + 1
  BY <1>3
<1>5. [from |-> c, type |-> "submitted", value |-> r] \in Messages
  BY DEF Messages
<1>6. mail' \in Seq(Messages) /\ mail' = Append(mail, [from |-> c, type |-> "submitted", value |-> r])
  BY <1>1, <1>4, <1>5, PostIs
<1>7. FramesInv'
  BY <1>2, <1>3, <1>6 DEF FramesInv
<1> QED
  BY <1>1, <1>4, <1>6, <1>7 DEF Live

(* What a delivered message does. *)
LEMMA DeliverFrames ==
    ASSUME FramesInv, deliver
    PROVE  /\ FramesInv'
           /\ mail # << >> /\ Head(mail) \in Messages /\ mail' = Tail(mail)
           /\ Head(mail).type = "resize" => UNCHANGED events
           /\ Head(mail).type = "submitted" =>
                events' = [c \in Containers |->
                             IF c \in senders(Head(mail)) THEN events[c] \o [i \in 1..host.listeners |-> Head(mail).value]
                             ELSE events[c]]
<1>1. PICK m : m = Head(mail)
  OBVIOUS
<1>2. mail # << >> /\ handleMessage(m) /\ mail' = Tail(mail) /\ UNCHANGED others
  BY <1>1 DEF deliver
<1>3. m \in Messages /\ Tail(mail) \in Seq(Messages)
  <2>1. mail \in Seq(Messages)
    BY DEF FramesInv
  <2> QED
    BY <1>1, <1>2, <2>1, HeadTailProperties
<1>4. CASE m.type = "resize"
  <2>1. /\ view' = [c \in Containers |-> IF c \in senders(m) /\ host.listeners > 0 /\ fits(m.value)
                                             THEN [view[c] EXCEPT !.shown = m.value] ELSE view[c]]
        /\ UNCHANGED events
    BY <1>2, <1>4 DEF handleMessage
  <2>2. m.value \in HeightsSeen
    BY <1>3, <1>4 DEF Messages
  <2>3. view' \in [Containers -> [content : HeightsSeen, last : HeightsSeen \cup {0}, shown : HeightsSeen]]
    BY <2>1, <2>2 DEF FramesInv
  <2>4. FramesInv'
    BY <1>2, <1>3, <2>3 DEF FramesInv
  <2> QED
    BY <1>1, <1>2, <1>3, <1>4, <2>1, <2>4
<1>5. CASE m.type = "submitted"
  <2>1. /\ events' = [c \in Containers |->
                             IF c \in senders(m) THEN events[c] \o [i \in 1..host.listeners |-> m.value]
                             ELSE events[c]]
        /\ UNCHANGED view
    BY <1>2, <1>5 DEF handleMessage
  <2>2. FramesInv'
    BY <1>2, <1>3, <2>1 DEF FramesInv
  <2> QED
    BY <1>1, <1>2, <1>3, <1>5, <2>1, <2>2
<1> QED
  BY <1>3, <1>4, <1>5 DEF Messages

LEMMA FramesNext == IInv /\ Bounded /\ ToldTyped /\ FramesInv /\ [HostNext]_hostVars => FramesInv'
<1> SUFFICES ASSUME IInv, Bounded, ToldTyped, FramesInv, [HostNext]_hostVars PROVE FramesInv'
  OBVIOUS
<1>1. UNCHANGED <<view, others, mail>> => FramesInv'
  BY DEF FramesInv
<1>2. runScript \/ DOMContentLoaded \/ addContainer \/ scanAgain \/ removeContainer => UNCHANGED <<view, others, mail>>
  BY DEF runScript, DOMContentLoaded, addContainer, scanAgain, removeContainer
<1>3. UNCHANGED hostVars => UNCHANGED <<view, others, mail>>
  BY DEF hostVars, embedVars
<1> QED
  BY <1>1, <1>2, <1>3, LayoutFrames, ReportFrames, OurFormPosts, OtherFrames, DeliverFrames DEF HostNext

(* The parts of the page's invariant that hold of every run. *)
LEMMA PageInvariance == HostSpec => [](IInv /\ Bounded /\ ToldTyped /\ ScriptInv /\ Order /\ FramesInv)
<1>1. HostInit => ScriptInv /\ Order /\ FramesInv
  BY PageInit
<1>2. HostSpec => [](IInv /\ Bounded /\ ToldTyped)
  BY EmbeddedInvariance, EmbeddedIsForm, FormTypedAlways, PTL
<1> QED
  BY <1>1, <1>2, ScriptNext, FramesNext, PTL DEF HostSpec

(* However often the script is included and the page scans, it sets itself *)
(* up once, a container holds one frame, and those of the page's own HTML  *)
(* have theirs once a script has run (index.ts:21, embed.ts:27).           *)
THEOREM ScriptIsSound == HostSpec => []ScriptSound
<1>1. IInv /\ Bounded /\ ToldTyped /\ ScriptInv /\ Order /\ FramesInv => ScriptSound
  <2> SUFFICES ASSUME IInv, Bounded, ToldTyped, ScriptInv, Order, FramesInv PROVE ScriptSound
    OBVIOUS
  <2>1. TypeOK
    BY FormTyped
  <2>2. \A c \in Containers : view[c].shown \in Heights \cup {INITIAL_HEIGHT}
    BY DEF FramesInv, HeightsSeen
  <2>3. scripts.ran \in 0..Scripts /\ scripts.waiting \in 0..scripts.ran
    BY OursAssumption DEF ScriptInv
  <2>4. HostTypeOK
    BY <2>1, <2>2, <2>3 DEF ScriptInv, HostTypeOK
  <2>5. OneFrame
    BY DEF ScriptInv, Hosts, OneFrame
  <2>6. ParsedAreMounted
    <3> SUFFICES ASSUME doc.ready, scripts.ran > 0, NEW c \in doc.parsed PROVE host.frames[c] > 0
      BY DEF ParsedAreMounted
    <3>1. host.frames[c] = 1
      BY DEF Order
    <3> QED
      BY <3>1
  <2> QED
    BY <2>4, <2>5, <2>6 DEF ScriptSound
<1> QED
  BY <1>1, PageInvariance, PTL

-----------------------------------------------------------------------------
(* The values of messages, as they come and go. *)

LEMMA FunctionIsSeq ==
    ASSUME NEW S, NEW n \in Nat, NEW w \in [1..n -> S]
    PROVE  w \in Seq(S) /\ Len(w) = n
OBVIOUS

(* What stays is of the kind that stays. *)
LEMMA KeptOfKind ==
    ASSUME NEW T, NEW seq \in Seq(T), NEW S
    PROVE  Kept(seq, S) \in Seq(S)
<1>1. PICK k : k = Kept(seq, S)
  OBVIOUS
<1>2. k \in Seq(T) /\ \A i \in 1..Len(k) : k[i] \in S
  BY <1>1, KeptIsSeq
<1>3. PICK n \in Nat : n = Len(k) /\ k \in [1..n -> T]
  BY <1>2, LenProperties
<1>4. k \in [1..n -> S]
  BY <1>2, <1>3
<1> QED
  BY <1>1, <1>4, FunctionIsSeq

LEMMA ValuesAre ==
    ASSUME NEW c, NEW k \in Seq(Submitted(c))
    PROVE  /\ ValuesOf(k) \in Seq(Nat) /\ Len(ValuesOf(k)) = Len(k)
           /\ \A i \in 1..Len(k) : ValuesOf(k)[i] = k[i].value
<1>1. PICK n \in Nat : n = Len(k) /\ DOMAIN k = 1..n
  BY LenProperties
<1>2. PICK w : w = ValuesOf(k)
  OBVIOUS
<1>3. w = [i \in 1..n |-> k[i].value]
  BY <1>1, <1>2 DEF ValuesOf
<1>4. \A i \in 1..n : k[i].value \in Nat
  <2> SUFFICES ASSUME NEW i \in 1..n PROVE k[i].value \in Nat
    OBVIOUS
  <2>1. k[i] \in Submitted(c)
    BY <1>1, ElementOfSeq
  <2> QED
    BY <2>1 DEF Submitted
<1>5. w \in [1..n -> Nat]
  BY <1>3, <1>4
<1> QED
  BY <1>1, <1>2, <1>3, <1>5, FunctionIsSeq

LEMMA ValuesAppend ==
    ASSUME NEW c, NEW k \in Seq(Submitted(c)), NEW m \in Submitted(c)
    PROVE  ValuesOf(Append(k, m)) = Append(ValuesOf(k), m.value)
<1>1. PICK v \in Nat : v = m.value
  BY DEF Submitted
<1>2. PICK a : a = Append(k, m)
  OBVIOUS
<1>3. a \in Seq(Submitted(c)) /\ Len(a) = Len(k) + 1 /\ a[Len(k) + 1] = m /\ \A i \in 1..Len(k) : a[i] = k[i]
  BY <1>2, AppendProperties
<1>4. PICK w : w = ValuesOf(k)
  OBVIOUS
<1>5. w \in Seq(Nat) /\ Len(w) = Len(k) /\ \A i \in 1..Len(k) : w[i] = k[i].value
  BY <1>4, ValuesAre
<1>6. PICK x : x = ValuesOf(a)
  OBVIOUS
<1>7. x \in Seq(Nat) /\ Len(x) = Len(a) /\ \A i \in 1..Len(a) : x[i] = a[i].value
  <2>1. a \in Seq(Submitted(c))
    BY <1>3
  <2> QED
    BY <1>6, <2>1, ValuesAre
<1>8. PICK y : y = Append(w, v)
  OBVIOUS
<1>9. y \in Seq(Nat) /\ Len(y) = Len(w) + 1 /\ y[Len(w) + 1] = v /\ \A i \in 1..Len(w) : y[i] = w[i]
  <2>1. w \in Seq(Nat)
    BY <1>5
  <2> QED
    BY <1>8, <2>1, AppendProperties
<1>10. Len(k) \in Nat
  BY LenProperties
<1>11. Len(x) = Len(y)
  BY <1>3, <1>5, <1>7, <1>9
<1>12. ASSUME NEW i \in 1..Len(x) PROVE x[i] = y[i]
  <2>1. CASE i = Len(k) + 1
    BY <1>1, <1>3, <1>5, <1>7, <1>9, <2>1
  <2>2. CASE i # Len(k) + 1
    <3>1. i \in 1..Len(k) /\ i \in 1..Len(a)
      BY <1>3, <1>7, <1>10, <2>2
    <3> QED
      BY <1>3, <1>5, <1>7, <1>9, <3>1
  <2> QED
    BY <2>1, <2>2
<1>13. x = y
  BY <1>7, <1>9, <1>11, <1>12, SeqEqual
<1> QED
  BY <1>1, <1>2, <1>4, <1>6, <1>8, <1>13

(* What the first one says goes from those under way to those that came. *)
LEMMA ValuesHead ==
    ASSUME NEW c, NEW k \in Seq(Submitted(c)), NEW m \in Submitted(c), NEW l, l = <<m>> \o k,
           NEW done, NEW came \in Seq(Nat), NEW more, more = Append(came, m.value),
           Joins(done, came, ValuesOf(l))
    PROVE  Joins(done, more, ValuesOf(k)) /\ more \in Seq(Nat)
<1>1. PICK v \in Nat : v = m.value
  BY DEF Submitted
<1>2. PICK o : o = <<m>>
  OBVIOUS
<1>3. o \in Seq(Submitted(c)) /\ Len(o) = 1 /\ o[1] = m
  BY <1>2
<1>4. l \in Seq(Submitted(c)) /\ Len(l) = Len(k) + 1
      /\ \A i \in 1..(Len(k) + 1) : l[i] = IF i <= 1 THEN m ELSE k[i - 1]
  <2>1. o \in Seq(Submitted(c)) /\ l = o \o k
    BY <1>2, <1>3
  <2>2. l \in Seq(Submitted(c)) /\ Len(l) = Len(o) + Len(k)
        /\ \A i \in 1..(Len(o) + Len(k)) : l[i] = IF i <= Len(o) THEN o[i] ELSE k[i - Len(o)]
    BY <2>1, ConcatProperties
  <2>3. Len(k) \in Nat
    BY LenProperties
  <2> QED
    BY <1>3, <2>2, <2>3
<1>5. PICK w : w = ValuesOf(k)
  OBVIOUS
<1>6. w \in Seq(Nat) /\ Len(w) = Len(k) /\ \A i \in 1..Len(k) : w[i] = k[i].value
  BY <1>5, ValuesAre
<1>7. PICK x : x = ValuesOf(l)
  OBVIOUS
<1>8. x \in Seq(Nat) /\ Len(x) = Len(l) /\ \A i \in 1..Len(l) : x[i] = l[i].value
  <2>1. l \in Seq(Submitted(c))
    BY <1>4
  <2> QED
    BY <1>7, <2>1, ValuesAre
<1>9. Len(k) \in Nat /\ Len(came) \in Nat
  BY LenProperties
<1>10. more \in Seq(Nat) /\ Len(more) = Len(came) + 1 /\ more[Len(came) + 1] = v
       /\ \A i \in 1..Len(came) : more[i] = came[i]
  BY <1>1, AppendProperties
<1>11. PICK a : a = came \o x
  OBVIOUS
<1>12. a \in Seq(Nat) /\ Len(a) = Len(came) + Len(x)
       /\ \A i \in 1..(Len(came) + Len(x)) : a[i] = IF i <= Len(came) THEN came[i] ELSE x[i - Len(came)]
  <2>1. x \in Seq(Nat)
    BY <1>8
  <2> QED
    BY <1>11, <2>1, ConcatProperties
<1>13. PICK b : b = more \o w
  OBVIOUS
<1>14. b \in Seq(Nat) /\ Len(b) = Len(more) + Len(w)
       /\ \A i \in 1..(Len(more) + Len(w)) : b[i] = IF i <= Len(more) THEN more[i] ELSE w[i - Len(more)]
  <2>1. w \in Seq(Nat) /\ more \in Seq(Nat)
    BY <1>6, <1>10
  <2> QED
    BY <1>13, <2>1, ConcatProperties
<1>15. Len(a) = Len(b)
  BY <1>4, <1>6, <1>8, <1>9, <1>10, <1>12, <1>14
<1>16. ASSUME NEW i \in 1..Len(a) PROVE a[i] = b[i]
  <2>1. CASE i <= Len(came)
    <3>1. i \in 1..Len(came) /\ i <= Len(more)
      BY <1>9, <1>10, <1>12, <2>1
    <3>2. a[i] = came[i] /\ b[i] = more[i]
      BY <1>12, <1>14, <1>15, <2>1, <3>1
    <3> QED
      BY <1>10, <3>1, <3>2
  <2>2. CASE i = Len(came) + 1
    <3>1. a[i] = x[1] /\ b[i] = v
      <4>1. i - Len(came) = 1 /\ ~(i <= Len(came)) /\ i <= Len(more) /\ i = Len(came) + 1
        BY <1>9, <1>10, <2>2
      <4>2. a[i] = x[1]
        BY <1>12, <4>1
      <4>3. b[i] = more[i]
        BY <1>14, <1>15, <4>1
      <4> QED
        BY <1>10, <4>1, <4>2, <4>3
    <3>2. x[1] = v
      <4>1. 1 \in 1..(Len(k) + 1) /\ 1 \in 1..Len(l)
        BY <1>4, <1>9
      <4>2. l[1] = m /\ x[1] = l[1].value
        BY <1>4, <1>8, <4>1
      <4> QED
        BY <1>1, <4>2
    <3> QED
      BY <3>1, <3>2
  <2>3. CASE i > Len(came) + 1
    <3>1. PICK j : j = i - Len(came) - 1
      OBVIOUS
    <3>2. j \in 1..Len(k) /\ i - Len(came) = j + 1 /\ i - Len(more) = j /\ ~(i <= Len(more))
          /\ ~(i <= Len(came))
      <4>1. PICK p \in Nat, q \in Nat : p = Len(came) /\ q = Len(k)
        BY <1>9
      <4>2. Len(more) = p + 1 /\ Len(a) = p + (q + 1)
        BY <1>4, <1>8, <1>10, <1>12, <4>1
      <4>3. i \in 1..(p + (q + 1)) /\ i > p + 1 /\ j = i - p - 1
        BY <2>3, <3>1, <4>1, <4>2
      <4>4. j \in 1..q /\ i - p = j + 1 /\ i - (p + 1) = j /\ ~(i <= p + 1) /\ ~(i <= p)
        BY <4>3
      <4> QED
        BY <4>1, <4>2, <4>4
    <3>3. a[i] = x[j + 1] /\ b[i] = w[j]
      <4>1. a[i] = x[j + 1]
        BY <1>12, <3>2
      <4>2. b[i] = w[j]
        BY <1>14, <1>15, <3>2
      <4> QED
        BY <4>1, <4>2
    <3>4. l[j + 1] = k[j] /\ j + 1 \in 1..Len(l)
      BY <1>4, <1>9, <3>2
    <3> QED
      BY <1>6, <1>8, <3>2, <3>3, <3>4
  <2> QED
    BY <1>9, <2>1, <2>2, <2>3
<1>17. a = b
  BY <1>12, <1>14, <1>15, <1>16, SeqEqual
<1> QED
  BY <1>5, <1>7, <1>10, <1>11, <1>13, <1>17 DEF Joins

-----------------------------------------------------------------------------

LEMMA UnderWaySeq ==
    ASSUME FramesInv, NEW c \in Containers
    PROVE  Kept(mail, Submitted(c)) \in Seq(Submitted(c)) /\ UnderWay(c) \in Seq(Nat)
<1>1. mail \in Seq(Messages)
  BY DEF FramesInv
<1>2. PICK S : S = Submitted(c)
  OBVIOUS
<1>3. Kept(mail, S) \in Seq(S)
  BY <1>1, KeptOfKind
<1>4. Kept(mail, Submitted(c)) \in Seq(Submitted(c))
  BY <1>2, <1>3
<1>5. ValuesOf(Kept(mail, Submitted(c))) \in Seq(Nat)
  BY <1>4, ValuesAre
<1> QED
  BY <1>4, <1>5 DEF UnderWay

(* A message is posted. *)
LEMMA MailGrows ==
    ASSUME FramesInv, NEW m \in Messages, mail' = Append(mail, m), NEW c \in Containers
    PROVE  /\ m \in Submitted(c) => UnderWay(c)' = Append(UnderWay(c), m.value)
           /\ m \notin Submitted(c) => UnderWay(c)' = UnderWay(c)
<1>1. mail \in Seq(Messages)
  BY DEF FramesInv
<1>2. PICK S : S = Submitted(c)
  OBVIOUS
<1>3. Kept(mail', S) = IF m \in S THEN Append(Kept(mail, S), m) ELSE Kept(mail, S)
  BY <1>1, KeptAppend
<1>4. UnderWay(c) = ValuesOf(Kept(mail, S)) /\ UnderWay(c)' = ValuesOf(Kept(mail', S))
  BY <1>2 DEF UnderWay
<1>5. CASE m \in S
  <2>1. PICK k : k = Kept(mail, S)
    OBVIOUS
  <2>2. k \in Seq(Submitted(c)) /\ m \in Submitted(c)
    BY <1>2, <1>5, <2>1, UnderWaySeq
  <2>3. ValuesOf(Append(k, m)) = Append(ValuesOf(k), m.value)
    BY <2>2, ValuesAppend
  <2> QED
    BY <1>2, <1>3, <1>4, <1>5, <2>1, <2>3
<1>6. CASE m \notin S
  BY <1>2, <1>3, <1>4, <1>6
<1> QED
  BY <1>5, <1>6

(* Nothing changes for a container. *)
LEMMA HeardSame ==
    ASSUME NEW c \in Containers, Heard(c), Confirmed(c)' = Confirmed(c), UnderWay(c)' = UnderWay(c),
           events'[c] = events[c],
           c \in doc'.present \/ host'.frames[c] = 0 => c \in doc.present \/ host.frames[c] = 0,
           host'.frames[c] = 0 => host.frames[c] = 0
    PROVE  Heard(c)'
<1>1. PICK done : done = Confirmed(c)
  OBVIOUS
<1>2. PICK due : due = UnderWay(c)
  OBVIOUS
<1>3. PICK came : came = events[c]
  OBVIOUS
<1>4. /\ came \in Seq(Nat) /\ done \in Seq(Nat)
      /\ \E rest \in Seq(Nat) : Joins(done, came, rest)
      /\ c \in doc.present \/ host.frames[c] = 0 => Joins(done, came, due)
      /\ host.frames[c] = 0 => done = << >>
  BY <1>1, <1>2, <1>3 DEF Heard
<1>5. Confirmed(c)' = done /\ UnderWay(c)' = due /\ events'[c] = came
  BY <1>1, <1>2, <1>3
<1>6. /\ events'[c] \in Seq(Nat) /\ Confirmed(c)' \in Seq(Nat)
      /\ \E rest \in Seq(Nat) : Joins(Confirmed(c)', events'[c], rest)
      /\ c \in doc'.present \/ host'.frames[c] = 0 => Joins(Confirmed(c)', events'[c], UnderWay(c)')
      /\ host'.frames[c] = 0 => Confirmed(c)' = << >>
  BY <1>4, <1>5
<1> QED
  BY <1>6 DEF Heard, Joins

(* A frame's form confirms a submission, and posts it. *)
LEMMA HeardPosts ==
    ASSUME NEW c \in Containers, FramesInv, Heard(c), NEW r \in Nat, Confirmed(c)' = Append(Confirmed(c), r),
           UnderWay(c)' = Append(UnderWay(c), r), UNCHANGED <<events, doc, host>>,
           c \in doc.present, host.frames[c] # 0
    PROVE  Heard(c)'
<1>1. PICK done : done = Confirmed(c)
  OBVIOUS
<1>2. PICK due : due = UnderWay(c)
  OBVIOUS
<1>3. PICK came : came = events[c]
  OBVIOUS
<1>4. came \in Seq(Nat) /\ done \in Seq(Nat) /\ due \in Seq(Nat) /\ Joins(done, came, due)
  BY <1>1, <1>2, <1>3, UnderWaySeq DEF Heard
<1>5. PICK more : more = Append(due, r)
  OBVIOUS
<1>6. PICK all : all = Append(done, r)
  OBVIOUS
<1>7. more \in Seq(Nat) /\ all \in Seq(Nat)
  BY <1>4, <1>5, <1>6, AppendProperties
<1>8. Joins(all, came, more)
  BY <1>4, <1>5, <1>6, JoinsOn
<1>9. Confirmed(c)' = all /\ UnderWay(c)' = more /\ events'[c] = came /\ host'.frames[c] # 0
  BY <1>1, <1>2, <1>3, <1>5, <1>6
<1>10. /\ events'[c] \in Seq(Nat) /\ Confirmed(c)' \in Seq(Nat)
       /\ \E rest \in Seq(Nat) : Joins(Confirmed(c)', events'[c], rest)
       /\ c \in doc'.present \/ host'.frames[c] = 0 => Joins(Confirmed(c)', events'[c], UnderWay(c)')
       /\ host'.frames[c] = 0 => Confirmed(c)' = << >>
  BY <1>4, <1>7, <1>8, <1>9
<1> QED
  BY <1>10 DEF Heard, Joins

LEMMA KeptNothing == \A S : Kept(<< >>, S) = << >>
<1> SUFFICES ASSUME NEW S PROVE Kept(<< >>, S) = << >>
  OBVIOUS
<1>1. PICK e : e = << >>
  OBVIOUS
<1>2. PICK k : k = Kept(e, S)
  OBVIOUS
<1>3. e \in Seq({})
  BY <1>1
<1>4. k \in Seq({})
  BY <1>2, <1>3, KeptIsSeq
<1>5. k = << >>
  <2>1. Len(k) \in Nat /\ \A i \in 1..Len(k) : FALSE
    BY <1>4, LenProperties, ElementOfSeq
  <2>2. Len(k) = 0
    <3>1. CASE Len(k) >= 1
      <4>1. 1 \in 1..Len(k)
        BY <2>1, <3>1
      <4> QED
        BY <2>1, <4>1
    <3> QED
      BY <2>1, <3>1
  <2> QED
    BY <1>4, <2>2, EmptySeq
<1> QED
  BY <1>1, <1>2, <1>5

LEMMA HeardInit == HostInit => HeardInv
<1> SUFFICES ASSUME HostInit, NEW c \in Containers PROVE Heard(c)
  BY DEF HeardInv
<1>1. told = << >> /\ others[c] = 0 /\ mail = << >> /\ events[c] = << >>
  BY DEF HostInit, Init
<1>2. PICK e : e = << >>
  OBVIOUS
<1>3. e \in Seq(Nat)
  BY <1>2
<1>4. Joins(e, e, e)
  BY <1>3, ConcatEmptySeq, <1>2 DEF Joins
<1>5. Confirmed(c) = e
  <2>1. [i \in 1..0 |-> i] = e
    BY <1>2
  <2> QED
    BY <1>1, <1>2, <2>1 DEF Confirmed
<1>6. UnderWay(c) = e
  <2>1. Kept(mail, Submitted(c)) = e
    BY <1>1, <1>2, KeptNothing
  <2>2. ValuesOf(e) = e
    <3>1. DOMAIN e = {}
      BY <1>2
    <3> QED
      BY <1>2, <3>1 DEF ValuesOf
  <2> QED
    BY <2>1, <2>2 DEF UnderWay
<1> QED
  BY <1>1, <1>2, <1>3, <1>4, <1>5, <1>6 DEF Heard

-----------------------------------------------------------------------------

(* Only the submissions of a frame count for its container. *)
LEMMA OthersMail ==
    ASSUME NEW c, NEW d, NEW r \in Nat, NEW m, m = [from |-> d, type |-> "submitted", value |-> r]
    PROVE  /\ c = d => m \in Submitted(c) /\ m.value = r
           /\ c # d => m \notin Submitted(c)
           /\ d \in Containers => m \in Messages
BY DEF Submitted, Messages

LEMMA OurFormHeard ==
    IInv /\ Bounded /\ ToldTyped /\ FramesInv /\ HeardInv /\ ourForm(FormStep) => HeardInv'
<1> SUFFICES ASSUME IInv, Bounded, ToldTyped, FramesInv, HeardInv, ourForm(FormStep), page' = "embedded",
                    NEW c \in Containers
             PROVE  Heard(c)'
  BY DEF HeardInv
<1>1. page = "embedded"
  BY DEF ourForm, embedVars
<1>2. Live(Ours) /\ UNCHANGED <<doc, host, others, events>>
  BY <1>1 DEF ourForm
<1>3. Heard(c)
  BY <1>1 DEF HeardInv
<1>4. CASE UNCHANGED <<told, mail>>
  <2>1. Confirmed(c)' = Confirmed(c) /\ UnderWay(c)' = UnderWay(c)
    BY <1>2, <1>4 DEF Confirmed, UnderWay
  <2> QED
    BY <1>2, <1>3, <2>1, HeardSame
<1>5. ASSUME NEW r \in Nat, told' = Append(told, r), mail' = Append(mail, [from |-> Ours, type |-> "submitted", value |-> r])
      PROVE  Heard(c)'
  <2>1. PICK m : m = [from |-> Ours, type |-> "submitted", value |-> r]
    OBVIOUS
  <2>2. m \in Messages /\ (c = Ours => m \in Submitted(c) /\ m.value = r) /\ (c # Ours => m \notin Submitted(c))
    BY <2>1, OursAssumption, OthersMail
  <2>3. mail' = Append(mail, m)
    BY <1>5, <2>1
  <2>4. CASE c = Ours
    <3>1. UnderWay(c)' = Append(UnderWay(c), r)
      BY <2>2, <2>3, <2>4, MailGrows
    <3>2. Confirmed(c)' = Append(Confirmed(c), r)
      BY <1>5, <2>4 DEF Confirmed
    <3>3. c \in doc.present /\ host.frames[c] # 0
      BY <1>2, <2>4 DEF Live
    <3> QED
      BY <1>2, <1>3, <3>1, <3>2, <3>3, HeardPosts
  <2>5. CASE c # Ours
    <3>1. UnderWay(c)' = UnderWay(c)
      BY <2>2, <2>3, <2>5, MailGrows
    <3>2. Confirmed(c)' = Confirmed(c)
      BY <1>2, <2>5 DEF Confirmed
    <3> QED
      BY <1>2, <1>3, <3>1, <3>2, HeardSame
  <2> QED
    BY <2>4, <2>5
<1> QED
  BY <1>1, <1>4, <1>5, OurFormPosts

LEMMA CountAppend ==
    ASSUME NEW n \in Nat
    PROVE  [i \in 1..(n + 1) |-> i] = Append([i \in 1..n |-> i], n + 1)
<1>1. PICK a : a = [i \in 1..n |-> i]
  OBVIOUS
<1>2. PICK b : b = [i \in 1..(n + 1) |-> i]
  OBVIOUS
<1>3. a \in [1..n -> Nat] /\ b \in [1..(n + 1) -> Nat]
  BY <1>1, <1>2
<1>4. a \in Seq(Nat) /\ Len(a) = n /\ b \in Seq(Nat) /\ Len(b) = n + 1
  BY <1>3, FunctionIsSeq
<1>5. PICK e : e = Append(a, n + 1)
  OBVIOUS
<1>6. e \in Seq(Nat) /\ Len(e) = n + 1 /\ e[n + 1] = n + 1 /\ \A i \in 1..n : e[i] = a[i]
  BY <1>4, <1>5, AppendProperties
<1>7. ASSUME NEW i \in 1..(n + 1) PROVE b[i] = e[i]
  <2>1. CASE i = n + 1
    BY <1>2, <1>6, <2>1
  <2>2. CASE i # n + 1
    <3>1. i \in 1..n
      BY <2>2
    <3> QED
      BY <1>1, <1>2, <1>6, <3>1
  <2> QED
    BY <2>1, <2>2
<1>8. b = e
  BY <1>4, <1>6, <1>7, SeqEqual
<1> QED
  BY <1>1, <1>2, <1>5, <1>8

LEMMA OtherHeard == FramesInv /\ HeardInv /\ page = "embedded" /\ otherForm => HeardInv'
<1> SUFFICES ASSUME FramesInv, HeardInv, page = "embedded", otherForm, NEW c \in Containers PROVE Heard(c)'
  BY DEF HeardInv
<1>1. UNCHANGED <<told, doc, host, events>>
  BY DEF otherForm, formVars
<1>2. Heard(c)
  BY DEF HeardInv
<1>3. PICK d \in Containers \ {Ours} :
        /\ d \in doc.present /\ host.frames[d] > 0
        /\ others' = [others EXCEPT ![d] = @ + 1]
        /\ mail' = Append(mail, [from |-> d, type |-> "submitted", value |-> others[d] + 1])
  BY OtherFrames
<1>4. PICK n \in Nat : n = others[d]
  BY DEF FramesInv
<1>5. PICK r \in Nat : r = n + 1
  OBVIOUS
<1>6. PICK m : m = [from |-> d, type |-> "submitted", value |-> r]
  OBVIOUS
<1>7. m \in Messages /\ (c = d => m \in Submitted(c) /\ m.value = r) /\ (c # d => m \notin Submitted(c))
  BY <1>6, OthersMail
<1>8. mail' = Append(mail, m)
  BY <1>3, <1>4, <1>5, <1>6
<1>9. others \in [Containers -> Nat]
  BY DEF FramesInv
<1>10. CASE c = d
  <2>1. UnderWay(c)' = Append(UnderWay(c), r)
    BY <1>7, <1>8, <1>10, MailGrows
  <2>2. others'[c] = n + 1 /\ others[c] = n /\ c # Ours
    BY <1>3, <1>4, <1>9, <1>10
  <2>3. Confirmed(c) = [i \in 1..n |-> i]
    BY <2>2 DEF Confirmed
  <2>4. Confirmed(c)' = [i \in 1..(n + 1) |-> i]
    BY <2>2 DEF Confirmed
  <2>5. Confirmed(c)' = Append(Confirmed(c), r)
    BY <1>5, <2>3, <2>4, CountAppend
  <2>6. c \in doc.present /\ host.frames[c] # 0
    BY <1>3, <1>10
  <2> QED
    BY <1>1, <1>2, <2>1, <2>5, <2>6, HeardPosts
<1>11. CASE c # d
  <2>1. UnderWay(c)' = UnderWay(c)
    BY <1>7, <1>8, <1>11, MailGrows
  <2>2. others'[c] = others[c]
    BY <1>3, <1>9, <1>11
  <2>3. Confirmed(c)' = Confirmed(c)
    BY <1>1, <2>2 DEF Confirmed
  <2> QED
    BY <1>1, <1>2, <2>1, <2>3, HeardSame
<1> QED
  BY <1>10, <1>11

LEMMA ReportHeard == FramesInv /\ HeardInv /\ page = "embedded" /\ report => HeardInv'
<1> SUFFICES ASSUME FramesInv, HeardInv, page = "embedded", report, NEW c \in Containers PROVE Heard(c)'
  BY DEF HeardInv
<1>1. UNCHANGED <<told, doc, host, events, others>>
  BY DEF report, formVars
<1>2. Heard(c)
  BY DEF HeardInv
<1>3. PICK h : h = scrollHeight(view[Ours])
  OBVIOUS
<1>4. h \in HeightsSeen
  BY <1>3, OursAssumption DEF FramesInv, scrollHeight
<1>5. PICK m : m = [from |-> Ours, type |-> "resize", value |-> h]
  OBVIOUS
<1>6. m \in Messages /\ m \notin Submitted(c)
  BY <1>4, <1>5, OursAssumption DEF Messages, Submitted
<1>7. mail' = Append(mail, m)
  BY <1>3, <1>5 DEF report, Post
<1>8. UnderWay(c)' = UnderWay(c) /\ Confirmed(c)' = Confirmed(c)
  BY <1>1, <1>6, <1>7, MailGrows DEF Confirmed
<1> QED
  BY <1>1, <1>2, <1>8, HeardSame

(* The steps of the script and of the page: a frame stays, and a container *)
(* that is added never had one.                                            *)
LEMMA ScriptHeard ==
    ScriptInv /\ HeardInv /\ page = "embedded"
      /\ (runScript \/ DOMContentLoaded \/ addContainer \/ scanAgain \/ removeContainer \/ layout) => HeardInv'
<1> SUFFICES ASSUME ScriptInv, HeardInv, page = "embedded",
                    runScript \/ DOMContentLoaded \/ addContainer \/ scanAgain \/ removeContainer \/ layout,
                    NEW c \in Containers
             PROVE  Heard(c)'
  BY DEF HeardInv
<1>1. UNCHANGED <<told, others, mail, events>>
  BY DEF runScript, DOMContentLoaded, addContainer, scanAgain, removeContainer, layout, formVars
<1>2. Heard(c)
  BY DEF HeardInv
<1>3. Confirmed(c)' = Confirmed(c) /\ UnderWay(c)' = UnderWay(c)
  BY <1>1 DEF Confirmed, UnderWay
<1>4. CASE host' = host /\ (doc'.present \subseteq doc.present \/ addContainer)
  <2>1. CASE c \in doc'.present => c \in doc.present
    BY <1>1, <1>2, <1>3, <1>4, <2>1, HeardSame
  <2>2. CASE ~(c \in doc'.present => c \in doc.present)
    <3>1. PICK d \in Containers \ doc.present :
            host.frames[d] = 0
              /\ doc' = [doc EXCEPT !.present = @ \cup {d}, !.parsed = IF doc.ready THEN @ ELSE @ \cup {d}]
      BY <1>4, <2>2 DEF addContainer
    <3>2. doc'.present = doc.present \cup {d}
      BY <3>1 DEF ScriptInv
    <3>3. host.frames[c] = 0
      BY <2>2, <3>1, <3>2
    <3> QED
      BY <1>1, <1>2, <1>3, <1>4, <3>3, HeardSame
  <2> QED
    BY <2>1, <2>2
<1>5. CASE host' = Started(host, doc.present) /\ doc'.present = doc.present
  <2>1. host'.frames[c] = 0 => host.frames[c] = 0
    BY <1>5 DEF Started
  <2> QED
    BY <1>1, <1>2, <1>3, <1>5, <2>1, HeardSame
<1>6. runScript => doc' = doc /\ (host' = host \/ host' = Started(host, doc.present))
  BY StartIs DEF runScript, ScriptInv
<1>7. DOMContentLoaded => doc'.present = doc.present /\ (host' = host \/ host' = Started(host, doc.present))
  <2> SUFFICES ASSUME DOMContentLoaded
               PROVE  doc'.present = doc.present /\ (host' = host \/ host' = Started(host, doc.present))
    OBVIOUS
  <2>1. doc'.present = doc.present
    BY DEF DOMContentLoaded, ScriptInv
  <2> QED
    BY <2>1, StartsAre
<1>8. scanAgain => doc' = doc /\ host' = Started(host, doc.present)
  BY StartIs DEF scanAgain, start, ScriptInv
<1>9. removeContainer => host' = host /\ doc'.present \subseteq doc.present
  BY DEF removeContainer, ScriptInv
<1>10. layout \/ addContainer => host' = host
  BY DEF layout, addContainer
<1>11. layout => doc' = doc
  BY DEF layout
<1> QED
  BY <1>4, <1>5, <1>6, <1>7, <1>8, <1>9, <1>10, <1>11

-----------------------------------------------------------------------------

(* The listener's one event. *)
LEMMA OneMore ==
    ASSUME NEW s \in Seq(Nat), NEW v \in Nat
    PROVE  s \o [i \in 1..1 |-> v] = Append(s, v)
<1>1. PICK o : o = [i \in 1..1 |-> v]
  OBVIOUS
<1>2. o \in [1..1 -> Nat] /\ o[1] = v
  BY <1>1
<1>3. o \in Seq(Nat) /\ Len(o) = 1
  BY <1>2, FunctionIsSeq
<1>4. PICK a : a = s \o o
  OBVIOUS
<1>5. a \in Seq(Nat) /\ Len(a) = Len(s) + Len(o)
      /\ \A i \in 1..(Len(s) + Len(o)) : a[i] = IF i <= Len(s) THEN s[i] ELSE o[i - Len(s)]
  BY <1>3, <1>4, ConcatProperties
<1>6. PICK b : b = Append(s, v)
  OBVIOUS
<1>7. b \in Seq(Nat) /\ Len(b) = Len(s) + 1 /\ b[Len(s) + 1] = v /\ \A i \in 1..Len(s) : b[i] = s[i]
  BY <1>6, AppendProperties
<1>8. PICK n \in Nat : n = Len(s)
  BY LenProperties
<1>9. ASSUME NEW i \in 1..Len(a) PROVE a[i] = b[i]
  <2>1. i \in 1..(n + 1)
    BY <1>3, <1>5, <1>8
  <2>2. CASE i <= n
    BY <1>3, <1>5, <1>7, <1>8, <2>1, <2>2
  <2>3. CASE i = n + 1
    <3>1. a[i] = o[1]
      BY <1>3, <1>5, <1>8, <2>3
    <3> QED
      BY <1>2, <1>7, <1>8, <2>3, <3>1
  <2> QED
    BY <1>8, <2>1, <2>2, <2>3
<1>10. a = b
  BY <1>3, <1>5, <1>7, <1>8, <1>9, SeqEqual
<1> QED
  BY <1>1, <1>4, <1>6, <1>10

(* What is delivered was the first under way. *)
LEMMA MailShrinks ==
    ASSUME FramesInv, mail # << >>, mail' = Tail(mail), NEW m, m = Head(mail), NEW c \in Containers
    PROVE  /\ m \notin Submitted(c) => UnderWay(c)' = UnderWay(c)
           /\ m \in Submitted(c) =>
                \E k, l : /\ k \in Seq(Submitted(c)) /\ l = <<m>> \o k
                          /\ UnderWay(c) = ValuesOf(l) /\ UnderWay(c)' = ValuesOf(k)
<1>1. mail \in Seq(Messages)
  BY DEF FramesInv
<1>2. PICK S : S = Submitted(c)
  OBVIOUS
<1>3. Kept(mail, S) = IF m \in S THEN <<m>> \o Kept(mail', S) ELSE Kept(mail', S)
  BY <1>1, KeptHead
<1>4. UnderWay(c) = ValuesOf(Kept(mail, S)) /\ UnderWay(c)' = ValuesOf(Kept(mail', S))
  BY <1>2 DEF UnderWay
<1>5. Tail(mail) \in Seq(Messages)
  BY <1>1, HeadTailProperties
<1>6. PICK k : k = Kept(mail', S)
  OBVIOUS
<1>7. k \in Seq(S)
  BY <1>5, <1>6, KeptOfKind
<1>8. CASE m \in S
  <2>1. PICK l : l = Kept(mail, S)
    OBVIOUS
  <2>2. l = <<m>> \o k
    BY <1>3, <1>6, <1>8, <2>1
  <2> QED
    BY <1>2, <1>4, <1>6, <1>7, <1>8, <2>1, <2>2
<1>9. CASE m \notin S
  BY <1>2, <1>3, <1>4, <1>9
<1> QED
  BY <1>8, <1>9

LEMMA JoinsNothing ==
    ASSUME NEW T, NEW first \in Seq(T), NEW k \in Seq(T), NEW l, Joins(l, first, k), l = << >>
    PROVE  k = << >>
<1>1. l \in Seq(T) /\ Len(l) = Len(first) + Len(k)
  BY ConcatProperties DEF Joins
<1>2. Len(l) = 0 /\ Len(first) \in Nat /\ Len(k) \in Nat
  BY LenProperties
<1>3. Len(k) = 0
  BY <1>1, <1>2
<1> QED
  BY <1>3, EmptySeq

LEMMA DeliverHeard == ScriptInv /\ Order /\ FramesInv /\ HeardInv /\ page = "embedded" /\ deliver => HeardInv'
<1> SUFFICES ASSUME ScriptInv, Order, FramesInv, HeardInv, page = "embedded", deliver, NEW c \in Containers
             PROVE  Heard(c)'
  BY DEF HeardInv
<1>1. UNCHANGED <<told, doc, host, others>>
  BY DEF deliver, formVars
<1>2. Heard(c)
  BY DEF HeardInv
<1>3. Confirmed(c)' = Confirmed(c)
  BY <1>1 DEF Confirmed
<1>4. PICK m : m = Head(mail)
  OBVIOUS
<1>5. /\ mail # << >> /\ m \in Messages /\ mail' = Tail(mail)
      /\ m.type = "resize" => UNCHANGED events
      /\ m.type = "submitted" =>
            events' = [d \in Containers |->
                         IF d \in senders(m) THEN events[d] \o [i \in 1..host.listeners |-> m.value]
                         ELSE events[d]]
  BY <1>4, DeliverFrames
<1>6. /\ m \notin Submitted(c) => UnderWay(c)' = UnderWay(c)
      /\ m \in Submitted(c) =>
            \E k, l : /\ k \in Seq(Submitted(c)) /\ l = <<m>> \o k
                      /\ UnderWay(c) = ValuesOf(l) /\ UnderWay(c)' = ValuesOf(k)
  BY <1>4, <1>5, MailShrinks
<1>7. CASE m \notin Submitted(c)
  <2>1. events'[c] = events[c]
    <3>1. CASE m.type = "resize"
      BY <1>5, <3>1
    <3>2. CASE m.type # "resize"
      <4>1. m.type = "submitted" /\ m.from # c
        BY <1>5, <1>7, <3>2 DEF Messages, Submitted
      <4>2. c \notin senders(m)
        BY <4>1 DEF senders
      <4> QED
        BY <1>5, <4>1, <4>2
    <3> QED
      BY <3>1, <3>2
  <2> QED
    BY <1>1, <1>2, <1>3, <1>6, <1>7, <2>1, HeardSame
<1>8. CASE m \in Submitted(c)
  <2>1. PICK k, l : /\ k \in Seq(Submitted(c)) /\ l = <<m>> \o k
                    /\ UnderWay(c) = ValuesOf(l) /\ UnderWay(c)' = ValuesOf(k)
    BY <1>6, <1>8
  <2>2. m.type = "submitted" /\ m.from = c /\ m.value \in Nat
    BY <1>8 DEF Submitted
  <2>3. PICK done : done = Confirmed(c)
    OBVIOUS
  <2>4. PICK came : came = events[c]
    OBVIOUS
  <2>5. PICK due : due = ValuesOf(k)
    OBVIOUS
  <2>6. came \in Seq(Nat) /\ done \in Seq(Nat) /\ due \in Seq(Nat)
    BY <1>2, <2>1, <2>3, <2>4, <2>5, ValuesAre DEF Heard
  <2>a. ASSUME Joins(done, came, ValuesOf(l)) PROVE Joins(done, Append(came, m.value), ValuesOf(k))
    <3>1. l = <<m>> \o k
      BY <2>1
    <3>2. k \in Seq(Submitted(c))
      BY <2>1
    <3>3. came \in Seq(Nat)
      BY <2>6
    <3>4. PICK more : more = Append(came, m.value)
      OBVIOUS
    <3>5. Joins(done, more, ValuesOf(k))
      BY <1>8, <2>a, <3>1, <3>2, <3>3, <3>4, ValuesHead
    <3> QED
      BY <3>4, <3>5
  <2>7. CASE Live(c)
    <3>1. host.listeners = 1
      BY <2>7 DEF Live, Order, ScriptInv
    <3>2. c \in senders(m)
      BY <2>2, <2>7 DEF senders
    <3>3. PICK v \in Nat : v = m.value
      BY <2>2
    <3>4. PICK more : more = Append(came, v)
      OBVIOUS
    <3>5. events'[c] = came \o [i \in 1..host.listeners |-> m.value]
      BY <1>5, <2>2, <2>4, <3>2
    <3>6. events'[c] = more
      <4>1. came \o [i \in 1..1 |-> v] = more
        BY <2>6, <3>4, OneMore
      <4> QED
        BY <3>1, <3>3, <3>5, <4>1
    <3>7. Joins(done, came, ValuesOf(l))
      BY <1>2, <2>1, <2>3, <2>4, <2>7 DEF Heard, Live
    <3>8. Joins(done, more, ValuesOf(k)) /\ more \in Seq(Nat)
      <4>3. Joins(done, Append(came, m.value), ValuesOf(k))
        BY <2>a, <3>7
      <4>4. more \in Seq(Nat)
        BY <2>6, <3>4, AppendProperties
      <4> QED
        BY <3>3, <3>4, <4>3, <4>4
    <3>9. host'.frames[c] # 0
      BY <1>1, <2>7 DEF Live
    <3>10. /\ events'[c] \in Seq(Nat) /\ Confirmed(c)' \in Seq(Nat)
           /\ \E rest \in Seq(Nat) : Joins(Confirmed(c)', events'[c], rest)
           /\ c \in doc'.present \/ host'.frames[c] = 0 => Joins(Confirmed(c)', events'[c], UnderWay(c)')
           /\ host'.frames[c] = 0 => Confirmed(c)' = << >>
      BY <1>3, <2>1, <2>3, <2>5, <2>6, <3>6, <3>8, <3>9
    <3> QED
      BY <3>10 DEF Heard, Joins
  <2>8. CASE ~Live(c)
    <3>1. events'[c] = events[c]
      <4>1. c \notin senders(m)
        BY <2>8 DEF senders
      <4> QED
        BY <1>5, <2>2, <4>1
    <3>2. host.frames[c] # 0
      <4> SUFFICES ASSUME host.frames[c] = 0 PROVE FALSE
        OBVIOUS
      <4>1. PICK all : all = ValuesOf(l)
        OBVIOUS
      <4>2. Joins(done, came, all) /\ done = << >>
        BY <1>2, <2>1, <2>3, <2>4, <4>1 DEF Heard
      <4>3. all \in Seq(Nat)
        BY <2>1, <4>1, UnderWaySeq
      <4>4. all = << >>
        BY <2>6, <4>2, <4>3, JoinsNothing
      <4>5. Joins(done, Append(came, m.value), ValuesOf(k))
        BY <2>a, <4>1, <4>2
      <4>6. PICK more : more = Append(came, m.value)
        OBVIOUS
      <4>7. more \in Seq(Nat) /\ Len(more) = Len(came) + 1 /\ Len(came) \in Nat
        BY <2>2, <2>6, <4>6, AppendProperties
      <4>8. Joins(done, more, due)
        BY <2>5, <4>5, <4>6
      <4>9. PICK j : j = more \o due
        OBVIOUS
      <4>10. Len(j) = Len(more) + Len(due) /\ Len(due) \in Nat
        <5>1. more \in Seq(Nat) /\ due \in Seq(Nat)
          BY <2>6, <4>7
        <5> QED
          BY <4>9, <5>1, ConcatProperties, LenProperties
      <4>11. j = done
        BY <4>8, <4>9 DEF Joins
      <4>12. Len(j) = 0
        BY <4>2, <4>11
      <4>13. PICK x \in Nat, y \in Nat : x = Len(came) /\ y = Len(due)
        BY <4>7, <4>10
      <4>14. x + 1 + y = 0
        BY <4>7, <4>10, <4>12, <4>13
      <4> QED
        BY <4>13, <4>14
    <3>3. c \notin doc'.present /\ host'.frames[c] # 0
      <4>1. host.frames[c] > 0
        BY <3>2 DEF ScriptInv, Hosts
      <4> QED
        BY <1>1, <2>8, <3>2, <4>1 DEF Live
    <3>4. \E rest \in Seq(Nat) : Joins(done, came, rest)
      BY <1>2, <2>3, <2>4 DEF Heard
    <3>5. /\ events'[c] \in Seq(Nat) /\ Confirmed(c)' \in Seq(Nat)
          /\ \E rest \in Seq(Nat) : Joins(Confirmed(c)', events'[c], rest)
          /\ c \in doc'.present \/ host'.frames[c] = 0 => Joins(Confirmed(c)', events'[c], UnderWay(c)')
          /\ host'.frames[c] = 0 => Confirmed(c)' = << >>
      BY <1>3, <2>3, <2>4, <2>6, <3>1, <3>3, <3>4
    <3> QED
      BY <3>5 DEF Heard, Joins
  <2> QED
    BY <2>7, <2>8
<1> QED
  BY <1>7, <1>8

LEMMA HeardNext ==
    IInv /\ Bounded /\ ToldTyped /\ ScriptInv /\ Order /\ FramesInv /\ HeardInv /\ [HostNext]_hostVars => HeardInv'
<1> SUFFICES ASSUME IInv, Bounded, ToldTyped, ScriptInv, Order, FramesInv, HeardInv, [HostNext]_hostVars
             PROVE  HeardInv'
  OBVIOUS
<1>1. CASE UNCHANGED hostVars
  <2> SUFFICES ASSUME page' = "embedded", NEW c \in Containers PROVE Heard(c)'
    BY DEF HeardInv
  <2>1. UNCHANGED <<page, doc, host, events>> /\ Heard(c)
    BY <1>1 DEF HeardInv, hostVars, embedVars
  <2>2. Confirmed(c)' = Confirmed(c) /\ UnderWay(c)' = UnderWay(c)
    BY <1>1 DEF hostVars, embedVars, formVars, Confirmed, UnderWay
  <2> QED
    BY <2>1, <2>2, HeardSame
<1> QED
  BY <1>1, OurFormHeard, OtherHeard, ReportHeard, ScriptHeard, DeliverHeard DEF HostNext

LEMMA JoinsIsPrefix ==
    ASSUME NEW s \in Seq(Nat), NEW rest \in Seq(Nat), NEW t \in Seq(Nat), Joins(t, s, rest)
    PROVE  IsPrefix(s, t)
<1> DEFINE a == SubSeq(s, 1, Len(s))
           b == SubSeq(t, 1, Len(s))
<1>1. PICK n \in Nat : n = Len(s)
  BY LenProperties
<1>2. /\ Len(rest) \in Nat /\ Len(t) = n + Len(rest)
      /\ \A i \in 1..(n + Len(rest)) : t[i] = IF i <= n THEN s[i] ELSE rest[i - n]
  BY <1>1, LenProperties, ConcatProperties DEF Joins
<1>3. \A i \in 1..n : t[i] = s[i] /\ s[i] \in Nat
  <2> SUFFICES ASSUME NEW i \in 1..n PROVE t[i] = s[i] /\ s[i] \in Nat
    OBVIOUS
  <2>1. i \in 1..(n + Len(rest)) /\ i <= n
    BY <1>2
  <2> QED
    BY <1>1, <1>2, <2>1, ElementOfSeq
<1>4. a \in Seq(Nat) /\ Len(a) = n /\ \A i \in 1..n : a[i] = s[i]
  BY <1>1, <1>3, SubSeqProperties
<1>5. b \in Seq(Nat) /\ Len(b) = n /\ \A i \in 1..n : b[i] = t[i]
  BY <1>1, <1>3, SubSeqProperties
<1>6. a = b
  <2> HIDE DEF a, b
  <2> QED
    BY <1>3, <1>4, <1>5, SeqEqual
<1>7. Len(s) <= Len(t)
  BY <1>1, <1>2
<1> QED
  BY <1>6, <1>7 DEF IsPrefix

(* Each submission that a frame confirms is one event on its own container, *)
(* in the order they were confirmed; a container that is there misses none  *)
(* (embed.ts:50).                                                           *)
THEOREM EachIsOneEvent == HostSpec => []OneEventEach
<1>1. HeardInv => OneEventEach
  <2> SUFFICES ASSUME HeardInv, page = "embedded", NEW c \in Containers
               PROVE  /\ IsPrefix(events[c], Confirmed(c))
                      /\ Live(c) => events[c] \o UnderWay(c) = Confirmed(c)
    BY DEF OneEventEach, Confirmed, UnderWay, ValuesOf, Submitted
  <2>1. Heard(c)
    BY DEF HeardInv
  <2>2. IsPrefix(events[c], Confirmed(c))
    <3>1. PICK done : done = Confirmed(c)
      OBVIOUS
    <3>2. PICK came : came = events[c]
      OBVIOUS
    <3>3. done \in Seq(Nat) /\ came \in Seq(Nat) /\ \E rest \in Seq(Nat) : Joins(done, came, rest)
      BY <2>1, <3>1, <3>2 DEF Heard
    <3>4. IsPrefix(came, done)
      BY <3>3, JoinsIsPrefix
    <3> QED
      BY <3>1, <3>2, <3>4
  <2>3. Live(c) => events[c] \o UnderWay(c) = Confirmed(c)
    BY <2>1, Zenon DEF Heard, Live, Joins
  <2> QED
    BY <2>2, <2>3
<1> QED
  BY <1>1, HeardInit, HeardNext, PageInvariance, PTL DEF HostSpec
=============================================================================
