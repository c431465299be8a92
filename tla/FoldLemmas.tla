------------------------------ MODULE FoldLemmas ------------------------------
(***************************************************************************)
(* Folds over sequences, and the induction they need.                      *)
(*                                                                         *)
(* What a fold comes to is shown by induction on the elements done: the    *)
(* set of places where a claim fails has no least element, so it is empty  *)
(* (Steps).  The same gives the function that the community modules define *)
(* a fold by (FoldExists), and with it its value after every element       *)
(* (FoldSteps).                                                            *)
(***************************************************************************)
EXTENDS Integers, Sequences, SequencesExt, WellFoundedInduction, NaturalsInduction,
        SequenceTheorems, TLAPS

-----------------------------------------------------------------------------
(* Induction up to a bound *)

\* Every set of natural numbers has a least one.
LEMMA Least == ASSUME NEW T, T \subseteq Nat, T # {} PROVE \E n \in T : \A m \in T : n <= m
<1>1. PICK R : R = OpToRel(<, Nat)
  OBVIOUS
<1>2. IsWellFoundedOn(R, Nat)
  BY <1>1, NatLessThanWellFounded
<1>3. PICK n \in T : \A m \in T : ~(<<m, n>> \in R)
  BY <1>2, WFMin
<1>4. ASSUME NEW m \in T PROVE ~(m < n)
  <2>1. <<m, n>> \notin R
    BY <1>3
  <2>2. m < n => <<m, n>> \in R
    BY <1>1 DEF OpToRel
  <2> QED
    BY <2>1, <2>2
<1> QED
  BY <1>4

\* Induction up to a bound, for the numbers of a set.
LEMMA Steps ==
    ASSUME NEW n \in Nat, NEW H, 0 \in H, \A k \in 0..(n - 1) : k \in H => k + 1 \in H
    PROVE  0..n \subseteq H
<1> DEFINE T == {k \in 0..n : k \notin H}
<1> SUFFICES ASSUME T # {} PROVE FALSE
  OBVIOUS
<1>1. T \subseteq Nat
  OBVIOUS
<1> HIDE DEF T
<1>2. PICK k \in T : \A m \in T : k <= m
  BY <1>1, Least
<1>3. k # 0 /\ k - 1 \in 0..(n - 1) /\ k - 1 \notin T
  BY <1>2 DEF T
<1> QED
  BY <1>2, <1>3 DEF T

LEMMA MaxIs ==
    ASSUME NEW n \in Nat, NEW S, S \subseteq 1..n, S # {}
    PROVE  Max(S) \in S /\ \A x \in S : x <= Max(S)
<1> DEFINE T == {m \in Nat : n - m \in S}
<1>1. T \subseteq Nat /\ T # {}
  <2>1. PICK x \in S : TRUE
    OBVIOUS
  <2>2. n - x \in Nat /\ n - (n - x) = x
    BY <2>1
  <2> QED
    BY <2>2
<1> HIDE DEF T
<1>2. PICK low \in T : \A m \in T : low <= m
  BY <1>1, Least
<1>3. n - low \in S /\ low \in Nat
  BY <1>2 DEF T
<1>4. ASSUME NEW x \in S PROVE n - low >= x
  <2>1. n - x \in T
    BY DEF T
  <2> QED
    BY <1>2, <1>3, <2>1
<1>5. \E x \in S : \A y \in S : x >= y
  BY <1>3, <1>4
<1>6. Max(S) \in S /\ \A y \in S : Max(S) >= y
  BY <1>5 DEF Max
<1> QED
  BY <1>6

-----------------------------------------------------------------------------
(* Folds *)

\* The function that a fold is made of: from a set of places it tells what the fold of the
\* elements there comes to.  G[i] is what the element at i does to the value so far.
FoldTable(t, n, P, base, G) ==
    /\ t \in [SUBSET (1..n) -> P]
    /\ t[{}] = base
    /\ \A s \in SUBSET (1..n) : s # {} => t[s] = G[Max(s)][t[s \ {Max(s)}]]

\* The same, of a function whose values may be anything.
Folds(it, n, P, base, G) ==
    /\ it[{}] = base
    /\ \A s \in SUBSET (1..n) :
        s # {} /\ it[s \ {Max(s)}] \in P => it[s] = G[Max(s)][it[s \ {Max(s)}]]

\* The values of a fold after each element.
Values(r, it, n, P, base, G) ==
    r \in [0..n -> P] /\ r[0] = base /\ r[n] = it[1..n] /\ \A k \in 1..n : r[k] = G[k][r[k - 1]]

\* A fold over 1..n is well defined: the function that the fold is made of exists.
LEMMA FoldExists ==
    ASSUME NEW n \in Nat, NEW P, NEW base \in P, NEW G \in [1..n -> [P -> P]]
    PROVE  \E t : FoldTable(t, n, P, base, G)
<1> DEFINE Is(t, k) == /\ t \in [SUBSET (1..k) -> P] /\ t[{}] = base
                       /\ \A s \in SUBSET (1..k) : s # {} => t[s] = G[Max(s)][t[s \ {Max(s)}]]
           H == {k \in 0..n : \E t : Is(t, k)}
<1>1. 0 \in H
  <2> DEFINE t == [s \in SUBSET (1..0) |-> base]
  <2>1. SUBSET (1..0) = {{}}
    OBVIOUS
  <2>2. Is(t, 0)
    BY <2>1
  <2>3. 0 \in 0..n
    OBVIOUS
  <2> HIDE DEF t, Is
  <2> QED
    BY <2>2, <2>3
<1>2. ASSUME NEW k \in 0..(n - 1), k \in H PROVE k + 1 \in H
  <2>1. PICK t : Is(t, k)
    BY <1>2
  <2> DEFINE u == [s \in SUBSET (1..(k + 1)) |-> IF k + 1 \in s THEN G[k + 1][t[s \ {k + 1}]] ELSE t[s]]
  <2>2. k + 1 \in 1..n /\ k \in Nat
    OBVIOUS
  <2>3. ASSUME NEW s \in SUBSET (1..(k + 1))
        PROVE  /\ s \ {k + 1} \in SUBSET (1..k)
               /\ k + 1 \notin s => s \in SUBSET (1..k)
    BY <2>2
  <2>4. G[k + 1] \in [P -> P]
    BY <2>2
  <2>5. u \in [SUBSET (1..(k + 1)) -> P]
    BY <2>1, <2>3, <2>4
  <2>6. u[{}] = base
    BY <2>1
  <2>7. ASSUME NEW s \in SUBSET (1..(k + 1)), s # {}
        PROVE  u[s] = G[Max(s)][u[s \ {Max(s)}]]
    <3>1. Max(s) \in s /\ \A x \in s : x <= Max(s)
      <4>1. PICK m \in Nat : m = k + 1
        BY <2>2
      <4>2. s \subseteq 1..m
        BY <4>1
      <4> QED
        BY <2>7, <4>2, MaxIs
    <3>2. CASE k + 1 \in s
      <4>1. Max(s) = k + 1
        <5>1. Max(s) \in 1..(k + 1)
          BY <3>1
        <5>2. k + 1 <= Max(s)
          BY <3>1, <3>2
        <5> QED
          BY <2>2, <5>1, <5>2
      <4>2. u[s] = G[k + 1][t[s \ {k + 1}]]
        BY <3>2
      <4>3. u[s \ {k + 1}] = t[s \ {k + 1}]
        OBVIOUS
      <4> QED
        BY <4>1, <4>2, <4>3
    <3>3. CASE k + 1 \notin s
      <4>1. s \in SUBSET (1..k)
        BY <2>3, <3>3
      <4>2. t[s] = G[Max(s)][t[s \ {Max(s)}]]
        BY <2>1, <2>7, <4>1
      <4>3. u[s] = t[s] /\ u[s \ {Max(s)}] = t[s \ {Max(s)}]
        BY <3>3
      <4> QED
        BY <4>2, <4>3
    <3> QED
      BY <3>2, <3>3
  <2>8. Is(u, k + 1)
    BY <2>5, <2>6, <2>7
  <2> HIDE DEF u, Is
  <2> QED
    BY <2>2, <2>8
<1> HIDE DEF H
<1>3. 0..n \subseteq H
  BY <1>1, <1>2, Steps
<1>4. n \in H
  BY <1>3
<1> QED
  BY <1>4 DEF H, FoldTable

LEMMA FoldSteps ==
    ASSUME NEW n \in Nat, NEW P, NEW base \in P, NEW G \in [1..n -> [P -> P]],
           NEW t, Folds(t, n, P, base, G)
    PROVE  \E r : Values(r, t, n, P, base, G)
<1> DEFINE H == {k \in 0..n : t[1..k] \in P}
<1>1. ASSUME NEW k \in 1..n PROVE /\ 1..k \in SUBSET (1..n) /\ 1..k # {} /\ Max(1..k) = k
                                  /\ (1..k) \ {Max(1..k)} = 1..(k - 1)
  <2>0. k \in 1..k
    OBVIOUS
  <2>a. 1..k \subseteq 1..n
    OBVIOUS
  <2>b. 1..k # {}
    BY <2>0
  <2>1. 1..k \subseteq 1..n /\ 1..k # {} /\ k \in 1..k
    BY <2>0, <2>a, <2>b
  <2>2. Max(1..k) \in 1..k /\ \A x \in 1..k : x <= Max(1..k)
    BY <2>1, MaxIs
  <2>3. Max(1..k) = k
    BY <2>1, <2>2
  <2>4. (1..k) \ {k} = 1..(k - 1)
    OBVIOUS
  <2> QED
    BY <2>1, <2>3, <2>4
<1>2. ASSUME NEW k \in 1..n, t[1..(k - 1)] \in P PROVE t[1..k] = G[k][t[1..(k - 1)]]
  BY <1>1, <1>2 DEF Folds
<1>3. 0 \in H
  <2>1. 1..0 = {}
    OBVIOUS
  <2> QED
    BY <2>1 DEF Folds
<1>4. ASSUME NEW k \in 0..(n - 1), k \in H PROVE k + 1 \in H
  <2>1. k + 1 \in 1..n /\ (k + 1) - 1 = k
    OBVIOUS
  <2>2. t[1..(k + 1)] = G[k + 1][t[1..k]]
    BY <1>2, <1>4, <2>1
  <2>3. G[k + 1] \in [P -> P] /\ t[1..k] \in P
    BY <1>4, <2>1
  <2> QED
    BY <2>1, <2>2, <2>3
<1> HIDE DEF H
<1>5. 0..n \subseteq H
  BY <1>3, <1>4, Steps
<1> DEFINE r == [k \in 0..n |-> t[1..k]]
<1>6. r \in [0..n -> P]
  BY <1>5 DEF H
<1>7. r[0] = base /\ r[n] = t[1..n]
  <2>1. 1..0 = {} /\ 0 \in 0..n /\ n \in 0..n
    OBVIOUS
  <2> QED
    BY <2>1 DEF Folds
<1>8. ASSUME NEW k \in 1..n PROVE r[k] = G[k][r[k - 1]]
  <2>1. k \in 0..n /\ k - 1 \in 0..n
    OBVIOUS
  <2>2. t[1..(k - 1)] \in P
    BY <1>5, <2>1 DEF H
  <2> QED
    BY <1>2, <2>1, <2>2
<1> HIDE DEF r
<1> QED
  BY <1>6, <1>7, <1>8 DEF Values
-----------------------------------------------------------------------------
(* Sequences put one after the other *)

\* The values of a concatenation of s after each of its n sequences.
Joins(f, s, n, S) ==
    f \in [1..n -> Seq(S)] /\ f[1] = s[1] /\ \A i \in 2..n : f[i] = f[i - 1] \o s[i]

LEMMA JoinsExist ==
    ASSUME NEW S, NEW n \in Nat \ {0}, NEW s \in [1..n -> Seq(S)]
    PROVE  \E f : Joins(f, s, n, S)
<1> DEFINE Is(f, k) == /\ f \in [1..k -> Seq(S)]
                       /\ k >= 1 => f[1] = s[1]
                       /\ \A i \in 2..k : f[i] = f[i - 1] \o s[i]
           H == {k \in 0..n : \E f : Is(f, k)}
<1>1. 0 \in H
  <2>1. Is([i \in 1..0 |-> <<>>], 0)
    OBVIOUS
  <2> HIDE DEF Is
  <2> QED
    BY <2>1
<1>2. ASSUME NEW k \in 0..(n - 1), k \in H PROVE k + 1 \in H
  <2>1. PICK f : Is(f, k)
    BY <1>2
  <2>2. k + 1 \in 1..n /\ k \in Nat /\ k + 1 \in 0..n /\ s[k + 1] \in Seq(S)
    OBVIOUS
  <2> DEFINE g == [i \in 1..(k + 1) |-> IF i <= k THEN f[i]
                                        ELSE IF k = 0 THEN s[1] ELSE f[k] \o s[k + 1]]
  <2>3. \A i \in 1..k : g[i] = f[i] /\ g[i] \in Seq(S)
    BY <2>1
  <2>4. g[k + 1] = (IF k = 0 THEN s[1] ELSE f[k] \o s[k + 1]) /\ g[k + 1] \in Seq(S)
    BY <2>1, <2>2
  <2>5. g \in [1..(k + 1) -> Seq(S)]
    <3>1. \A i \in 1..(k + 1) : i = k + 1 \/ i \in 1..k
      BY <2>2
    <3>2. g = [i \in 1..(k + 1) |-> g[i]]
      OBVIOUS
    <3> HIDE DEF g
    <3> QED
      BY <2>3, <2>4, <3>1, <3>2
  <2>6. g[1] = s[1]
    BY <2>1, <2>2, <2>3, <2>4
  <2>7. ASSUME NEW i \in 2..(k + 1) PROVE g[i] = g[i - 1] \o s[i]
    <3>1. CASE i = k + 1
      <4>1. k # 0 /\ i - 1 = k /\ k \in 1..k
        BY <2>2, <3>1
      <4> HIDE DEF g
      <4> QED
        BY <2>3, <2>4, <3>1, <4>1
    <3>2. CASE i # k + 1
      <4>1. i \in 2..k /\ i \in 1..k /\ i - 1 \in 1..k
        BY <2>2, <2>7, <3>2
      <4>2. f[i] = f[i - 1] \o s[i]
        BY <2>1, <4>1
      <4> HIDE DEF g
      <4> QED
        BY <2>3, <4>1, <4>2
    <3> QED
      BY <3>1, <3>2
  <2>8. Is(g, k + 1)
    BY <2>5, <2>6, <2>7
  <2> HIDE DEF g, Is
  <2> QED
    BY <2>2, <2>8
<1> HIDE DEF H
<1>3. 0..n \subseteq H
  BY <1>1, <1>2, Steps
<1>4. PICK f : Is(f, n)
  <2>1. n \in H
    BY <1>3
  <2> HIDE DEF Is
  <2> QED
    BY <2>1 DEF H
<1>5. f \in [1..n -> Seq(S)] /\ \A i \in 2..n : f[i] = f[i - 1] \o s[i]
  BY <1>4
<1>6. n >= 1 => f[1] = s[1]
  BY <1>4
<1> HIDE DEF Is
<1>7. Joins(f, s, n, S)
  <2>1. f[1] = s[1]
    BY <1>6
  <2> QED
    BY <1>5, <2>1 DEF Joins
<1> QED
  BY <1>7

LEMMA FlattenIs ==
    ASSUME NEW S, NEW n \in Nat \ {0}, NEW s \in [1..n -> Seq(S)]
    PROVE  \E f : Joins(f, s, n, S) /\ FlattenSeq(s) = f[n]
<1> DEFINE Eq(f) == f = [i \in 1..Len(s) |-> IF i = 1 THEN s[i] ELSE f[i - 1] \o s[i]]
<1>1. Len(s) = n
  OBVIOUS
<1>2. PICK f : f = (CHOOSE g : Eq(g))
  OBVIOUS
<1>3. FlattenSeq(s) = f[n]
  BY <1>1, <1>2 DEF FlattenSeq
<1>4. PICK g : Joins(g, s, n, S)
  BY JoinsExist
<1>5. Eq(g)
  <2>1. ASSUME NEW i \in 1..n PROVE g[i] = IF i = 1 THEN s[i] ELSE g[i - 1] \o s[i]
    <3>1. CASE i = 1
      BY <1>4, <3>1 DEF Joins
    <3>2. CASE i # 1
      <4>1. i \in 2..n
        BY <3>2
      <4> QED
        BY <1>4, <3>2, <4>1 DEF Joins
    <3> QED
      BY <3>1, <3>2
  <2>2. g = [i \in 1..n |-> g[i]]
    BY <1>4 DEF Joins
  <2>3. g = [i \in 1..n |-> IF i = 1 THEN s[i] ELSE g[i - 1] \o s[i]]
    BY <2>1, <2>2
  <2> QED
    BY <1>1, <2>3
<1>6. Eq(f)
  <2> HIDE DEF Eq
  <2> QED
    BY <1>2, <1>5
<1>b. \A i \in 1..n : f[i] = IF i = 1 THEN s[i] ELSE f[i - 1] \o s[i]
  <2>1. f = [i \in 1..n |-> IF i = 1 THEN s[i] ELSE f[i - 1] \o s[i]]
    BY <1>1, <1>6
  <2> QED
    BY ONLY <2>1
<1>c. f = [i \in 1..n |-> f[i]]
  BY <1>1, <1>6
<1> HIDE DEF Eq
<1> DEFINE H == {k \in 0..n : k >= 1 => f[k] \in Seq(S)}
<1>7. 0 \in H
  OBVIOUS
<1>8. ASSUME NEW k \in 0..(n - 1), k \in H PROVE k + 1 \in H
  <2>1. k + 1 \in 1..n /\ k \in Nat
    OBVIOUS
  <2>2. (k + 1) - 1 = k /\ s[k + 1] \in Seq(S)
    BY <2>1
  <2>3. f[k + 1] = IF k + 1 = 1 THEN s[k + 1] ELSE f[k] \o s[k + 1]
    BY <1>b, <2>1, <2>2
  <2>4. CASE k = 0
    BY <2>1, <2>2, <2>3, <2>4
  <2>5. CASE k # 0
    <3>1. f[k] \in Seq(S)
      BY <1>8, <2>1, <2>5
    <3>2. f[k] \o s[k + 1] \in Seq(S)
      BY <2>2, <3>1
    <3>3. f[k + 1] = f[k] \o s[k + 1]
      <4>1. k + 1 # 1
        BY <2>1, <2>5
      <4> QED
        BY <2>3, <4>1
    <3>4. k + 1 \in 0..n /\ f[k + 1] \in Seq(S)
      BY <2>1, <3>2, <3>3
    <3> QED
      BY ONLY <3>4
  <2> QED
    BY <2>4, <2>5
<1> HIDE DEF H
<1>9. 0..n \subseteq H
  BY <1>7, <1>8, Steps
<1>10. \A i \in 1..n : f[i] \in Seq(S)
  BY <1>9 DEF H
<1>11. f \in [1..n -> Seq(S)]
  BY <1>c, <1>10
<1>12. f[1] = s[1] /\ \A i \in 2..n : f[i] = f[i - 1] \o s[i]
  <2>1. 1 \in 1..n /\ \A i \in 2..n : i \in 1..n /\ i # 1
    OBVIOUS
  <2> QED
    BY <1>b, <2>1
<1> QED
  BY <1>3, <1>11, <1>12 DEF Joins

===============================================================================
