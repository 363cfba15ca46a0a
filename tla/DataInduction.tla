---------------------------- MODULE DataInduction ---------------------------
(***************************************************************************)
(* Induction over the natural numbers for sets instead of predicates, and  *)
(* what follows from it: a recursion along an interval has a solution, a   *)
(* bounded set of numbers has a maximum, and a filtered list has what it   *)
(* should.                                                                 *)
(***************************************************************************)
EXTENDS Filters, Integers, SequencesExt, SequenceTheorems, WellFoundedInduction, TLAPS

Below == {p \in Nat \X Nat : p[1] < p[2]}

LEMMA LeastNumber ==
    ASSUME NEW T \in SUBSET Nat, T # {}
    PROVE  \E m \in T : \A k \in T : m <= k
<1>1. Below = OpToRel(<, Nat)
  BY Zenon DEF OpToRel, Below
<1>2. IsWellFoundedOn(Below, Nat)
  BY <1>1, NatLessThanWellFounded, Zenon
<1>3. PICK m \in T : \A k \in T : <<k, m>> \notin Below
  BY <1>2, WFMin
<1>4. \A k \in T : ~(k < m)
  BY <1>3 DEF Below
<1> QED
  BY <1>3, <1>4

(* What holds at the start of an interval, and at i + 1 when it holds at   *)
(* i, holds on the interval.                                               *)
LEMMA IntervalInduction ==
    ASSUME NEW N \in Nat, NEW A, 0 \in A,
           \A i \in 0..N : i \in A /\ i < N => i + 1 \in A
    PROVE  \A i \in 0..N : i \in A
<1> SUFFICES ASSUME NEW n \in 0..N, n \notin A PROVE FALSE
  OBVIOUS
<1> DEFINE T == {i \in 0..N : i \notin A}
<1>1. PICK m \in T : \A k \in T : m <= k
  <2>1. T \in SUBSET Nat /\ T # {}
    OBVIOUS
  <2> HIDE DEF T
  <2> QED
    BY <2>1, LeastNumber
<1>2. m \in 1..N
  BY <1>1
<1>3. m - 1 \in 0..N /\ m - 1 < m /\ m - 1 < N
  BY <1>2
<1>4. m - 1 \in A
  BY <1>1, <1>3
<1> QED
  BY <1>1, <1>3, <1>4, <1>2

(* A recursion along an interval: f[0] is given, f[i] is made of f[i - 1]. *)
Solves(f, N, S, first, next) ==
    f \in [0..N -> S] /\ f[0] = first /\ \A i \in 1..N : f[i] = next[<<i, f[i - 1]>>]

LEMMA Recursion ==
    ASSUME NEW N \in Nat, NEW S, NEW first \in S, NEW next,
           \A i \in 1..N : \A x \in S : next[<<i, x>>] \in S
    PROVE  \E f : Solves(f, N, S, first, next)
<1> DEFINE Upto(n, f) == f[0] = first /\ \A i \in 1..n : f[i] = next[<<i, f[i - 1]>>]
           A == {n \in 0..N : \E f \in [0..N -> S] : Upto(n, f)}
<1>1. 0 \in A
  <2> DEFINE f == [i \in 0..N |-> first]
  <2>1. f \in [0..N -> S] /\ f[0] = first /\ 1..0 = {}
    OBVIOUS
  <2> HIDE DEF f
  <2> QED
    BY <2>1
<1>2. ASSUME NEW n \in 0..N, n \in A, n < N PROVE n + 1 \in A
  <2>1. PICK f \in [0..N -> S] : Upto(n, f)
    BY <1>2
  <2> DEFINE v == next[<<n + 1, f[n]>>]
             g == [f EXCEPT ![n + 1] = v]
  <2>2. v \in S
    BY <1>2
  <2>3. g \in [0..N -> S] /\ g[n + 1] = v /\ \A i \in 0..n : g[i] = f[i]
    BY <1>2, <2>2
  <2>4. \A i \in 1..(n + 1) : g[i] = next[<<i, g[i - 1]>>]
    <3> SUFFICES ASSUME NEW i \in 1..(n + 1) PROVE g[i] = next[<<i, g[i - 1]>>]
      OBVIOUS
    <3>1. g[i - 1] = f[i - 1]
      BY <2>3
    <3>2. CASE i = n + 1
      <4>1. i - 1 = n /\ g[i] = v
        BY <2>3, <3>2
      <4> QED
        BY <2>3, <3>2, <4>1
    <3>3. CASE i # n + 1
      BY <2>1, <2>3, <3>1, <3>3
    <3> QED
      BY <3>2, <3>3
  <2>5. Upto(n + 1, g)
    BY <2>1, <2>3, <2>4
  <2>6. n + 1 \in 0..N
    BY <1>2
  <2> HIDE DEF Upto, g
  <2> QED
    BY <2>3, <2>5, <2>6
<1>3. N \in A
  <2> HIDE DEF A
  <2> QED
    BY <1>1, <1>2, IntervalInduction
<1> QED
  BY <1>3 DEF Solves

LEMMA MaxBounded ==
    ASSUME NEW S \in SUBSET Nat, S # {}, NEW b \in Nat, \A x \in S : x <= b
    PROVE  Max(S) \in S /\ \A x \in S : x <= Max(S)
<1> DEFINE T == {n \in Nat : \A x \in S : x <= n}
<1>1. PICK m \in T : \A k \in T : m <= k
  BY LeastNumber
<1>2. m \in S
  <2> SUFFICES ASSUME m \notin S PROVE FALSE
    OBVIOUS
  <2>1. \A x \in S : x < m
    BY <1>1
  <2>2. m # 0
    <3>1. PICK x \in S : TRUE
      OBVIOUS
    <3>2. x \in Nat /\ x < m
      BY <2>1, <3>1
    <3> QED
      BY <3>2
  <2>3. m - 1 \in Nat /\ \A x \in S : x <= m - 1
    BY <1>1, <2>1, <2>2
  <2>4. m - 1 \in T
    BY <2>3
  <2> QED
    BY <2>4, <1>1
<1> QED
  BY <1>1, <1>2 DEF Max

-----------------------------------------------------------------------------
(* Filtered lists *)

KeptAlong(kept, seq, S, N) ==
    /\ Kept(seq, S) = kept[N] /\ kept[0] = << >>
    /\ \A i \in 1..N : kept[i] = IF seq[i] \in S THEN Append(kept[i - 1], seq[i]) ELSE kept[i - 1]

(* The recursion that defines Kept has a solution. *)
LEMMA KeptWalk ==
    ASSUME NEW T, NEW seq \in Seq(T), NEW S, NEW N, N = Len(seq)
    PROVE  \E kept : KeptAlong(kept, seq, S, N)
<1>0. N \in Nat
  OBVIOUS
<1>1. PICK next : next = [x \in (1..N) \X Seq(T) |->
                            IF seq[x[1]] \in S THEN Append(x[2], seq[x[1]]) ELSE x[2]]
  OBVIOUS
<1>2. \A i \in 1..N : \A x \in Seq(T) : next[<<i, x>>] \in Seq(T)
  <2> SUFFICES ASSUME NEW i \in 1..N, NEW x \in Seq(T) PROVE next[<<i, x>>] \in Seq(T)
    OBVIOUS
  <2>1. seq[i] \in T
    OBVIOUS
  <2>2. next[<<i, x>>] = IF seq[i] \in S THEN Append(x, seq[i]) ELSE x
    BY <1>1
  <2> QED
    BY <2>1, <2>2, AppendProperties
<1>3. << >> \in Seq(T)
  OBVIOUS
<1>4. \E f \in [0..N -> Seq(T)] : f[0] = << >> /\ \A i \in 1..N : f[i] = next[<<i, f[i - 1]>>]
  <2>1. PICK Q : Q = Seq(T)
    OBVIOUS
  <2>2. PICK e : e = << >>
    OBVIOUS
  <2>3. e \in Q /\ \A i \in 1..N : \A x \in Q : next[<<i, x>>] \in Q
    BY <1>2, <1>3, <2>1, <2>2
  <2>4. PICK f : Solves(f, N, Q, e, next)
    BY <1>0, <2>3, Recursion
  <2> QED
    BY <2>1, <2>2, <2>4 DEF Solves
<1>5. PICK f \in [0..N -> Seq(T)] : f[0] = << >> /\ \A i \in 1..N : f[i] = next[<<i, f[i - 1]>>]
  BY <1>4
<1>6. \A i \in 1..N : f[i] = IF seq[i] \in S THEN Append(f[i - 1], seq[i]) ELSE f[i - 1]
  <2> SUFFICES ASSUME NEW i \in 1..N PROVE f[i] = IF seq[i] \in S THEN Append(f[i - 1], seq[i]) ELSE f[i - 1]
    OBVIOUS
  <2>1. i - 1 \in 0..N
    OBVIOUS
  <2>2. <<i, f[i - 1]>> \in (1..N) \X Seq(T)
    BY <2>1
  <2> QED
    BY <1>1, <1>5, <2>2
<1>7. f = [i \in 0..N |-> f[i]]
  OBVIOUS
<1>8. f = [i \in 0..N |-> IF i = 0 THEN << >>
                        ELSE IF seq[i] \in S THEN Append(f[i - 1], seq[i]) ELSE f[i - 1]]
  <2>1. \A i \in 0..N : f[i] = IF i = 0 THEN << >>
                        ELSE IF seq[i] \in S THEN Append(f[i - 1], seq[i]) ELSE f[i - 1]
    <3> SUFFICES ASSUME NEW i \in 0..N
                 PROVE  f[i] = IF i = 0 THEN << >>
                        ELSE IF seq[i] \in S THEN Append(f[i - 1], seq[i]) ELSE f[i - 1]
      OBVIOUS
    <3>1. CASE i = 0
      BY <1>5, <3>1
    <3>2. CASE i # 0
      <4>1. i \in 1..N
        BY <3>2
      <4> QED
        BY <1>6, <3>2, <4>1
    <3> QED
      BY <3>1, <3>2
  <2> QED
    BY <1>7, <2>1, Zenon
<1>9. \E kept : /\ kept = [i \in 0..N |-> IF i = 0 THEN << >>
                                ELSE IF seq[i] \in S THEN Append(kept[i - 1], seq[i]) ELSE kept[i - 1]]
                /\ Kept(seq, S) = kept[N]
  BY <1>8 DEF Kept
<1>10. PICK kept : /\ kept = [i \in 0..N |-> IF i = 0 THEN << >>
                                ELSE IF seq[i] \in S THEN Append(kept[i - 1], seq[i]) ELSE kept[i - 1]]
                   /\ Kept(seq, S) = kept[N]
  BY <1>9
<1>11. kept[0] = << >>
  BY <1>10
<1>12. ASSUME NEW i \in 1..N
       PROVE  kept[i] = IF seq[i] \in S THEN Append(kept[i - 1], seq[i]) ELSE kept[i - 1]
  <2>1. i \in 0..N /\ i # 0
    OBVIOUS
  <2>2. kept[i] = IF i = 0 THEN << >>
                  ELSE IF seq[i] \in S THEN Append(kept[i - 1], seq[i]) ELSE kept[i - 1]
    BY <1>10, <2>1, Zenon
  <2> QED
    BY <2>1, <2>2
<1> QED
  BY <1>10, <1>11, <1>12 DEF KeptAlong

(* k has exactly the elements of seq up to n that are in S, each once. *)
Sifts(k, seq, S, n, T) ==
    /\ k \in Seq(T)
    /\ \A i \in 1..Len(k) : \E j \in 1..n : k[i] = seq[j] /\ seq[j] \in S
    /\ \A j \in 1..n : seq[j] \in S => \E i \in 1..Len(k) : k[i] = seq[j]
    /\ \A i, j \in 1..Len(k) : k[i] = k[j] => i = j

LEMMA HasStep ==
    ASSUME NEW T, NEW seq \in Seq(T), NEW S, IsInjective(seq), NEW n \in Nat, n + 1 <= Len(seq),
           NEW k, Sifts(k, seq, S, n, T)
    PROVE  Sifts(IF seq[n + 1] \in S THEN Append(k, seq[n + 1]) ELSE k, seq, S, n + 1, T)
<1>1. CASE seq[n + 1] \notin S
  <2>1. \A j \in 1..(n + 1) : seq[j] \in S => j \in 1..n
    BY <1>1
  <2>2. \A i \in 1..Len(k) : \E j \in 1..(n + 1) : k[i] = seq[j] /\ seq[j] \in S
    BY DEF Sifts
  <2>3. \A j \in 1..(n + 1) : seq[j] \in S => \E i \in 1..Len(k) : k[i] = seq[j]
    BY <2>1 DEF Sifts
  <2>4. Sifts(k, seq, S, n + 1, T)
    BY <2>2, <2>3 DEF Sifts
  <2> QED
    BY <1>1, <2>4
<1>2. CASE seq[n + 1] \in S
  <2>1. PICK x : x = seq[n + 1]
    OBVIOUS
  <2>2. x \in T /\ k \in Seq(T)
    BY <2>1 DEF Sifts
  <2>3. PICK l : l = Append(k, x)
    OBVIOUS
  <2>4. /\ l \in Seq(T) /\ Len(l) = Len(k) + 1 /\ l[Len(k) + 1] = x
        /\ \A i \in 1..Len(k) : l[i] = k[i]
    BY <2>2, <2>3, AppendProperties
  <2>5. \A j \in 1..n : seq[j] # x
    <3> SUFFICES ASSUME NEW j \in 1..n, seq[j] = seq[n + 1] PROVE FALSE
      BY <2>1
    <3>1. j \in DOMAIN seq /\ n + 1 \in DOMAIN seq
      OBVIOUS
    <3>2. j = n + 1
      BY <3>1 DEF IsInjective
    <3> QED
      BY <3>2
  <2>6. \A i \in 1..Len(k) : k[i] # x
    BY <2>5 DEF Sifts
  <2>7. Len(k) \in Nat
    BY <2>2
  <2>8. \A i \in 1..Len(l) : \E j \in 1..(n + 1) : l[i] = seq[j] /\ seq[j] \in S
    <3> SUFFICES ASSUME NEW i \in 1..Len(l) PROVE \E j \in 1..(n + 1) : l[i] = seq[j] /\ seq[j] \in S
      OBVIOUS
    <3>1. CASE i = Len(k) + 1
      BY <1>2, <2>1, <2>4, <3>1
    <3>2. CASE i # Len(k) + 1
      <4>1. i \in 1..Len(k) /\ l[i] = k[i]
        BY <2>4, <2>7, <3>2
      <4>2. PICK j \in 1..n : k[i] = seq[j] /\ seq[j] \in S
        BY <4>1 DEF Sifts
      <4> QED
        BY <4>1, <4>2
    <3> QED
      BY <3>1, <3>2
  <2>9. \A j \in 1..(n + 1) : seq[j] \in S => \E i \in 1..Len(l) : l[i] = seq[j]
    <3> SUFFICES ASSUME NEW j \in 1..(n + 1), seq[j] \in S PROVE \E i \in 1..Len(l) : l[i] = seq[j]
      OBVIOUS
    <3>1. CASE j = n + 1
      BY <2>1, <2>4, <2>7, <3>1
    <3>2. CASE j # n + 1
      <4>1. PICK i \in 1..Len(k) : k[i] = seq[j]
        BY <3>2 DEF Sifts
      <4> QED
        BY <2>4, <2>7, <4>1
    <3> QED
      BY <3>1, <3>2
  <2>10. \A i, j \in 1..Len(l) : l[i] = l[j] => i = j
    <3> SUFFICES ASSUME NEW i \in 1..Len(l), NEW j \in 1..Len(l), l[i] = l[j] PROVE i = j
      OBVIOUS
    <3>1. CASE i \in 1..Len(k) /\ j \in 1..Len(k)
      BY <2>4, <3>1 DEF Sifts
    <3>2. CASE ~(i \in 1..Len(k) /\ j \in 1..Len(k))
      BY <2>4, <2>6, <2>7, <3>2
    <3> QED
      BY <3>1, <3>2
  <2>11. Sifts(l, seq, S, n + 1, T)
    BY <2>4, <2>8, <2>9, <2>10 DEF Sifts
  <2> QED
    BY <1>2, <2>1, <2>3, <2>11
<1> QED
  BY <1>1, <1>2

LEMMA KeptElements ==
    ASSUME NEW T, NEW seq \in Seq(T), NEW S, IsInjective(seq)
    PROVE  Sifts(Kept(seq, S), seq, S, Len(seq), T)
<1>1. PICK N \in Nat : N = Len(seq)
  OBVIOUS
<1>2. PICK kept : KeptAlong(kept, seq, S, N)
  BY <1>1, KeptWalk
<1>3. PICK A : A = {i \in 0..N : Sifts(kept[i], seq, S, i, T)}
  OBVIOUS
<1>4. 0 \in A
  <2>1. Sifts(<< >>, seq, S, 0, T)
    BY DEF Sifts
  <2> QED
    BY <1>1, <1>2, <1>3, <2>1 DEF KeptAlong
<1>5. \A i \in 0..N : i \in A /\ i < N => i + 1 \in A
  <2> SUFFICES ASSUME NEW n \in 0..N, n \in A, n < N PROVE n + 1 \in A
    OBVIOUS
  <2>1. Sifts(kept[n], seq, S, n, T)
    BY <1>3
  <2>2. n \in Nat /\ n + 1 <= Len(seq) /\ n + 1 \in 1..N /\ (n + 1) - 1 = n
    BY <1>1
  <2>3. kept[n + 1] = IF seq[n + 1] \in S THEN Append(kept[n], seq[n + 1]) ELSE kept[n]
    BY <1>2, <2>2 DEF KeptAlong
  <2>4. Sifts(kept[n + 1], seq, S, n + 1, T)
    BY <2>1, <2>2, <2>3, HasStep
  <2> QED
    BY <1>3, <2>2, <2>4
<1>6. \A i \in 0..N : i \in A
  BY <1>4, <1>5, IntervalInduction
<1>7. N \in A
  BY <1>1, <1>6
<1> QED
  BY <1>1, <1>2, <1>3, <1>7 DEF KeptAlong

-----------------------------------------------------------------------------
(* What is kept of a list, as the list changes at its ends. *)

LEMMA KeptIsSeq ==
    ASSUME NEW T, NEW seq \in Seq(T), NEW S
    PROVE  Kept(seq, S) \in Seq(T) /\ \A i \in 1..Len(Kept(seq, S)) : Kept(seq, S)[i] \in S
<1>1. PICK N \in Nat : N = Len(seq)
  OBVIOUS
<1>2. PICK kept : KeptAlong(kept, seq, S, N)
  BY <1>1, KeptWalk
<1>3. PICK U : U = T \cap S
  OBVIOUS
<1>4. PICK A : A = {i \in 0..N : kept[i] \in Seq(U)}
  OBVIOUS
<1>5. 0 \in A
  <2>1. PICK e : e = << >>
    OBVIOUS
  <2>2. e \in Seq(U)
    BY <2>1, EmptySeq
  <2>3. kept[0] \in Seq(U)
    BY <1>2, <2>1, <2>2 DEF KeptAlong
  <2>4. 0 \in 0..N
    BY <1>1
  <2> QED
    BY <1>4, <2>3, <2>4, Zenon
<1>6. \A i \in 0..N : i \in A /\ i < N => i + 1 \in A
  <2> SUFFICES ASSUME NEW n \in 0..N, n \in A, n < N PROVE n + 1 \in A
    OBVIOUS
  <2>1. n + 1 \in 1..N /\ (n + 1) - 1 = n /\ n + 1 \in 1..Len(seq)
    BY <1>1
  <2>2. PICK x : x = seq[n + 1]
    OBVIOUS
  <2>3. PICK k : k = kept[n]
    OBVIOUS
  <2>4. kept[n + 1] = IF x \in S THEN Append(k, x) ELSE k
    BY <1>2, <2>1, <2>2, <2>3 DEF KeptAlong
  <2>5. x \in T
    BY <2>1, <2>2, ElementOfSeq
  <2>6. k \in Seq(U)
    BY <1>4, <2>3
  <2>7. x \in S => x \in U /\ Append(k, x) \in Seq(U)
    BY <1>3, <2>5, <2>6, AppendProperties
  <2>8. kept[n + 1] \in Seq(U)
    BY <2>4, <2>6, <2>7
  <2> QED
    BY <1>1, <1>4, <2>1, <2>8
<1>7. \A i \in 0..N : i \in A
  BY <1>1, <1>5, <1>6, IntervalInduction
<1>8. PICK k : k = Kept(seq, S)
  OBVIOUS
<1>9. k \in Seq(U)
  BY <1>1, <1>2, <1>4, <1>7, <1>8 DEF KeptAlong
<1>10. k \in Seq(T)
  BY <1>3, <1>9, SeqMonotonic
<1>11. \A i \in 1..Len(k) : k[i] \in S
  BY <1>3, <1>9, ElementOfSeq
<1> QED
  BY <1>8, <1>10, <1>11

(* What is appended stays or not. *)
LEMMA KeptAppend ==
    ASSUME NEW T, NEW seq \in Seq(T), NEW e \in T, NEW S
    PROVE  Kept(Append(seq, e), S) = IF e \in S THEN Append(Kept(seq, S), e) ELSE Kept(seq, S)
<1>1. PICK N \in Nat : N = Len(seq)
  OBVIOUS
<1>2. PICK more : more = Append(seq, e)
  OBVIOUS
<1>3. more \in Seq(T) /\ Len(more) = N + 1 /\ more[N + 1] = e /\ \A i \in 1..N : more[i] = seq[i]
  BY <1>1, <1>2, AppendProperties
<1>4. PICK kept : KeptAlong(kept, seq, S, N)
  BY <1>1, KeptWalk
<1>5. PICK long : KeptAlong(long, more, S, N + 1)
  BY <1>3, KeptWalk
<1>6. PICK A : A = {i \in 0..N : long[i] = kept[i]}
  OBVIOUS
<1>7. 0 \in A
  BY <1>1, <1>4, <1>5, <1>6 DEF KeptAlong
<1>8. \A i \in 0..N : i \in A /\ i < N => i + 1 \in A
  <2> SUFFICES ASSUME NEW n \in 0..N, n \in A, n < N PROVE n + 1 \in A
    OBVIOUS
  <2>1. n + 1 \in 1..N /\ n + 1 \in 1..(N + 1) /\ (n + 1) - 1 = n /\ n + 1 \in 0..N
    BY <1>1
  <2>2. long[n] = kept[n] /\ more[n + 1] = seq[n + 1]
    BY <1>3, <1>6, <2>1
  <2>3. long[n + 1] = IF more[n + 1] \in S THEN Append(long[n], more[n + 1]) ELSE long[n]
    BY <1>5, <2>1 DEF KeptAlong
  <2>4. kept[n + 1] = IF seq[n + 1] \in S THEN Append(kept[n], seq[n + 1]) ELSE kept[n]
    BY <1>4, <2>1 DEF KeptAlong
  <2> QED
    BY <1>6, <2>1, <2>2, <2>3, <2>4
<1>9. \A i \in 0..N : i \in A
  BY <1>1, <1>7, <1>8, IntervalInduction
<1>10. long[N] = kept[N]
  BY <1>1, <1>6, <1>9
<1>11. long[N + 1] = IF e \in S THEN Append(long[N], e) ELSE long[N]
  <2>1. N + 1 \in 1..(N + 1) /\ (N + 1) - 1 = N
    BY <1>1
  <2> QED
    BY <1>3, <1>5, <2>1 DEF KeptAlong
<1> QED
  BY <1>2, <1>4, <1>5, <1>10, <1>11 DEF KeptAlong

Joins(l, first, k) == l = first \o k

LEMMA JoinsOn ==
    ASSUME NEW T, NEW first \in Seq(T), NEW k \in Seq(T), NEW y \in T, NEW l, Joins(l, first, k)
    PROVE  Joins(Append(l, y), first, Append(k, y))
<1>1. PICK a : a = Append(k, y)
  OBVIOUS
<1>2. a \in Seq(T) /\ Len(a) = Len(k) + 1 /\ a[Len(k) + 1] = y /\ \A i \in 1..Len(k) : a[i] = k[i]
  BY <1>1, AppendProperties
<1>3. PICK m : m = first \o a
  OBVIOUS
<1>4. m \in Seq(T) /\ Len(m) = Len(first) + Len(a)
      /\ \A i \in 1..(Len(first) + Len(a)) : m[i] = IF i <= Len(first) THEN first[i] ELSE a[i - Len(first)]
  <2>1. a \in Seq(T)
    BY <1>2
  <2> QED
    BY <1>3, <2>1, ConcatProperties
<1>5. l \in Seq(T) /\ Len(l) = Len(first) + Len(k)
      /\ \A i \in 1..(Len(first) + Len(k)) : l[i] = IF i <= Len(first) THEN first[i] ELSE k[i - Len(first)]
  BY ConcatProperties DEF Joins
<1>6. PICK n : n = Append(l, y)
  OBVIOUS
<1>7. n \in Seq(T) /\ Len(n) = Len(l) + 1 /\ n[Len(l) + 1] = y /\ \A i \in 1..Len(l) : n[i] = l[i]
  <2>1. l \in Seq(T)
    BY <1>5
  <2> QED
    BY <1>6, <2>1, AppendProperties
<1>8. Len(first) \in Nat /\ Len(k) \in Nat
  OBVIOUS
<1>9. Len(n) = Len(m)
  BY <1>2, <1>4, <1>5, <1>7, <1>8
<1>10. ASSUME NEW i \in 1..Len(n) PROVE n[i] = m[i]
  <2>1. CASE i = Len(l) + 1
    BY <1>2, <1>4, <1>5, <1>7, <1>8, <2>1
  <2>2. CASE i # Len(l) + 1
    <3>1. i \in 1..(Len(first) + Len(k)) /\ i \in 1..(Len(first) + Len(a)) /\ n[i] = l[i]
      BY <1>2, <1>5, <1>7, <1>8, <2>2
    <3>2. CASE i <= Len(first)
      BY <1>4, <1>5, <3>1, <3>2
    <3>3. CASE ~(i <= Len(first))
      <4>1. i - Len(first) \in 1..Len(k)
        BY <1>8, <3>1, <3>3
      <4> QED
        BY <1>2, <1>4, <1>5, <3>1, <3>3, <4>1
    <3> QED
      BY <3>2, <3>3
  <2> QED
    BY <2>1, <2>2
<1>11. n = m
  BY <1>4, <1>7, <1>9, <1>10, SeqEqual
<1> QED
  BY <1>1, <1>3, <1>6, <1>11 DEF Joins

(* The first element stays or not, before the others that stay. *)
LEMMA KeptHead ==
    ASSUME NEW T, NEW seq \in Seq(T), NEW S, seq # << >>
    PROVE  Kept(seq, S) = IF Head(seq) \in S THEN <<Head(seq)>> \o Kept(Tail(seq), S) ELSE Kept(Tail(seq), S)
<1>1. PICK x \in T : x = Head(seq) /\ x = seq[1]
  BY HeadTailProperties
<1>2. PICK rest \in Seq(T) : rest = Tail(seq)
  BY HeadTailProperties
<1>3. PICK N \in Nat : N = Len(rest)
  BY <1>2
<1>4. Len(seq) = N + 1 /\ \A i \in 1..N : rest[i] = seq[i + 1]
  BY <1>2, <1>3, HeadTailProperties, LenProperties
<1>5. PICK first \in Seq(T) : first = IF x \in S THEN <<x>> ELSE << >>
  <2>1. <<x>> \in Seq(T)
    BY <1>1
  <2>2. << >> \in Seq(T)
    BY EmptySeq
  <2>3. PICK w : w = IF x \in S THEN <<x>> ELSE << >>
    OBVIOUS
  <2>4. w \in Seq(T)
    BY <2>1, <2>2, <2>3
  <2> QED
    BY <2>3, <2>4
<1>6. PICK kept : KeptAlong(kept, rest, S, N)
  BY <1>2, <1>3, KeptWalk
<1>7. PICK long : KeptAlong(long, seq, S, N + 1)
  BY <1>3, <1>4, KeptWalk
<1>8. PICK A : A = {i \in 0..N : kept[i] \in Seq(T) /\ Joins(long[i + 1], first, kept[i])}
  OBVIOUS
<1>9. 0 \in A
  <2>1. long[0] = << >> /\ kept[0] = << >>
    BY <1>6, <1>7 DEF KeptAlong
  <2>2. long[1] = IF seq[1] \in S THEN Append(long[0], seq[1]) ELSE long[0]
    <3>1. 1 \in 1..(N + 1) /\ 1 - 1 = 0
      BY <1>3
    <3> QED
      BY <1>7, <3>1 DEF KeptAlong
  <2>3. Append(<< >>, x) = <<x>>
    OBVIOUS
  <2>4. long[1] = first
    BY <1>1, <1>5, <2>1, <2>2, <2>3
  <2>5. first \o << >> = first
    BY ConcatEmptySeq
  <2>6. kept[0] \in Seq(T) /\ Joins(long[0 + 1], first, kept[0]) /\ 0 \in 0..N
    BY <1>3, <2>1, <2>4, <2>5, EmptySeq DEF Joins
  <2> QED
    BY <1>8, <2>6
<1>10. \A i \in 0..N : i \in A /\ i < N => i + 1 \in A
  <2> SUFFICES ASSUME NEW n \in 0..N, n \in A, n < N PROVE n + 1 \in A
    OBVIOUS
  <2>1. /\ n + 1 \in 1..N /\ n + 2 \in 1..(N + 1) /\ (n + 1) - 1 = n /\ (n + 2) - 1 = n + 1 /\ n + 1 \in 0..N
        /\ (n + 1) + 1 = n + 2
    BY <1>3
  <2>2. PICK y : y = rest[n + 1]
    OBVIOUS
  <2>3. y \in T /\ seq[n + 2] = y
    BY <1>2, <1>3, <1>4, <2>1, <2>2, ElementOfSeq
  <2>4. PICK k \in Seq(T) : k = kept[n] /\ Joins(long[n + 1], first, k)
    BY <1>8
  <2>5. kept[n + 1] = IF y \in S THEN Append(k, y) ELSE k
    BY <1>6, <2>1, <2>2, <2>4 DEF KeptAlong
  <2>6. long[n + 2] = IF y \in S THEN Append(long[n + 1], y) ELSE long[n + 1]
    BY <1>7, <2>1, <2>3 DEF KeptAlong
  <2>7. Append(k, y) \in Seq(T) /\ Joins(Append(long[n + 1], y), first, Append(k, y))
    BY <1>5, <2>3, <2>4, JoinsOn, AppendProperties
  <2>8. kept[n + 1] \in Seq(T) /\ Joins(long[(n + 1) + 1], first, kept[n + 1])
    BY <2>1, <2>4, <2>5, <2>6, <2>7
  <2> QED
    BY <1>8, <2>1, <2>8
<1>11. \A i \in 0..N : i \in A
  BY <1>3, <1>9, <1>10, IntervalInduction
<1>12. kept[N] \in Seq(T) /\ long[N + 1] = first \o kept[N]
  BY <1>3, <1>8, <1>11 DEF Joins
<1>13. << >> \o kept[N] = kept[N]
  BY <1>12, ConcatEmptySeq
<1>14. Kept(seq, S) = first \o Kept(rest, S) /\ << >> \o Kept(rest, S) = Kept(rest, S)
  BY <1>6, <1>7, <1>12, <1>13 DEF KeptAlong
<1> QED
  BY <1>1, <1>2, <1>5, <1>14
=============================================================================
