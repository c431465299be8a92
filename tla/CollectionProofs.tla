--------------------------- MODULE CollectionProofs ---------------------------
(***************************************************************************)
(* The collection a client shows, for any codes, lists, page sizes, worlds *)
(* and bounds.                                                             *)
(*                                                                         *)
(* The invariant CollectionInv says of the server that a revision stands   *)
(* for one collection, of the packets that the replies of the present      *)
(* connection tell what was held at the revision they name, and of the     *)
(* client that it puts together the first pages of one such collection.    *)
(* The first part of the module is about maps and their pages, the second  *)
(* about queues; then come the operators of the client, the invariant, and *)
(* the steps of the server and of the client.                              *)
(*                                                                         *)
(* RefreshInv adds what becomes of a refresh that nothing disturbs: its    *)
(* request to open is in its queue, or the snapshot it opened is the one   *)
(* the server still has, and every answer to it is a page of that one.     *)
(***************************************************************************)
EXTENDS CollectionClient, FiniteSetTheorems, SequenceTheorems, TLAPS

-----------------------------------------------------------------------------
(* Maps and their pages *)

LEMMA PutIs ==
    ASSUME NEW map, NEW key, NEW value
    PROVE  /\ DOMAIN Put(map, key, value) = DOMAIN map \cup {key}
           /\ Put(map, key, value)[key] = value
           /\ \A k \in DOMAIN map : k # key => Put(map, key, value)[k] = map[k]
BY DEF Put

\* The keys of a page are integers, and finitely many.
Keys(K) == K \subseteq Int /\ IsFiniteSet(K)

LEMMA RankIs ==
    ASSUME NEW K, Keys(K), NEW key \in K
    PROVE  Rank(key, K) \in Nat /\ Rank(key, K) < Cardinality(K)
<1> DEFINE below == {other \in K : other < key}
<1>1. /\ IsFiniteSet(K \ {key}) /\ Cardinality(K \ {key}) = Cardinality(K) - 1
      /\ Cardinality(K) \in Nat
  BY FS_RemoveElement, FS_CardinalityType DEF Keys
<1>2. below \in SUBSET (K \ {key})
  BY DEF Keys
<1>3. IsFiniteSet(below) /\ Cardinality(below) <= Cardinality(K \ {key})
  BY <1>1, <1>2, FS_Subset
<1>4. Cardinality(below) \in Nat
  BY <1>3, FS_CardinalityType
<1> QED
  BY <1>1, <1>3, <1>4 DEF Rank

\* What the first pages of a map say.
Prefix(map, limit, n) ==
    Restrict(map, {key \in DOMAIN map : Rank(key, DOMAIN map) \div limit < n})

IsMap(map) == map = [key \in DOMAIN map |-> map[key]]

LEMMA NoPages ==
    ASSUME NEW map, Keys(DOMAIN map), NEW limit \in Nat \ {0}
    PROVE  Prefix(map, limit, 0) = Empty
<1>1. ASSUME NEW key \in DOMAIN map PROVE ~(Rank(key, DOMAIN map) \div limit < 0)
  <2>1. Rank(key, DOMAIN map) \in Nat
    BY RankIs
  <2> QED
    BY <2>1
<1>2. {key \in DOMAIN map : Rank(key, DOMAIN map) \div limit < 0} = {}
  BY <1>1
<1> QED
  BY <1>2 DEF Prefix, Restrict, Empty

LEMMA NextOfPages ==
    ASSUME NEW map, Keys(DOMAIN map), NEW limit \in Nat \ {0}, NEW n \in Nat
    PROVE  Joined(PageOf(map, limit, n), Prefix(map, limit, n)) = Prefix(map, limit, n + 1)
<1> DEFINE page(key) == Rank(key, DOMAIN map) \div limit
           S == {key \in DOMAIN map : page(key) = n}
           T == {key \in DOMAIN map : page(key) < n}
           U == {key \in DOMAIN map : page(key) < n + 1}
<1>1. ASSUME NEW key \in DOMAIN map PROVE page(key) < n + 1 <=> page(key) = n \/ page(key) < n
  <2>1. Rank(key, DOMAIN map) \in Nat
    BY RankIs
  <2>2. page(key) \in Int
    BY <2>1
  <2> HIDE DEF page
  <2> QED
    BY <2>2
<1>2. U = S \cup T
  BY <1>1
<1>3. PageOf(map, limit, n) = [key \in S |-> map[key]] /\ Prefix(map, limit, n) = [key \in T |-> map[key]]
  BY DEF PageOf, Prefix, Restrict
<1>4. Prefix(map, limit, n + 1) = [key \in U |-> map[key]]
  BY DEF Prefix, Restrict
<1> HIDE DEF S, T, U
<1>5. Joined([key \in S |-> map[key]], [key \in T |-> map[key]]) = [key \in S \cup T |-> map[key]]
  BY DEF Joined
<1> QED
  BY <1>2, <1>3, <1>4, <1>5

LEMMA AllPages ==
    ASSUME NEW map, IsMap(map), Keys(DOMAIN map), NEW limit \in Nat \ {0}, NEW n \in Nat,
           n >= Pages(Cardinality(DOMAIN map), limit)
    PROVE  Prefix(map, limit, n) = map
<1> DEFINE size == Cardinality(DOMAIN map)
<1>1. size \in Nat
  BY FS_CardinalityType DEF Keys
<1>2. ASSUME NEW key \in DOMAIN map PROVE Rank(key, DOMAIN map) \div limit < n
  <2>1. Rank(key, DOMAIN map) \in Nat /\ Rank(key, DOMAIN map) < size
    BY RankIs
  <2> DEFINE rank == Rank(key, DOMAIN map)
  <2>2. rank \in Nat /\ rank < size
    BY <2>1
  <2> HIDE DEF rank, size
  <2>3. rank \div limit < size \div limit + (IF size % limit = 0 THEN 0 ELSE 1)
    BY <1>1, <2>2
  <2>4. rank \div limit \in Int /\ size \div limit \in Int
    BY <1>1, <2>2
  <2>5. n >= size \div limit + (IF size % limit = 0 THEN 0 ELSE 1)
    BY DEF Pages, size
  <2>6. rank \div limit < n
    BY <2>3, <2>4, <2>5
  <2> QED
    BY <2>6 DEF rank
<1>3. {key \in DOMAIN map : Rank(key, DOMAIN map) \div limit < n} = DOMAIN map
  BY <1>2
<1> QED
  BY <1>3 DEF Prefix, Restrict, IsMap

-----------------------------------------------------------------------------
(* The sizes of pages *)

\* Keys have different ranks.
LEMMA RankGrows ==
    ASSUME NEW K, Keys(K), NEW low \in K, NEW high \in K, low < high
    PROVE  Rank(low, K) < Rank(high, K)
<1> DEFINE L == {other \in K : other < low}
           H == {other \in K : other < high}
<1>1. \A k \in K : k \in Int
  BY DEF Keys
<1>2. L \in SUBSET (H \ {low}) /\ low \in H
  BY <1>1
<1>3. H \in SUBSET K /\ IsFiniteSet(K)
  BY DEF Keys
<1> HIDE DEF L, H
<1>4. IsFiniteSet(H) /\ Cardinality(H) \in Nat
  BY <1>3, FS_Subset, FS_CardinalityType
<1>5. IsFiniteSet(H \ {low}) /\ Cardinality(H \ {low}) = Cardinality(H) - 1
  BY <1>2, <1>4, FS_RemoveElement
<1>6. Cardinality(L) <= Cardinality(H \ {low}) /\ IsFiniteSet(L)
  BY <1>2, <1>5, FS_Subset
<1>7. Cardinality(L) \in Nat
  BY <1>6, FS_CardinalityType
<1> QED
  BY <1>4, <1>5, <1>6, <1>7 DEF Rank, L, H

\* Every place is taken by a key.
LEMMA RanksFill ==
    ASSUME NEW K, Keys(K)
    PROVE  LET rank == [key \in K |-> Rank(key, K)]
           IN rank \in Bijection(K, 0..(Cardinality(K) - 1))
<1> DEFINE n == Cardinality(K)
           rank == [key \in K |-> Rank(key, K)]
           T == 0..(n - 1)
<1>1. n \in Nat /\ IsFiniteSet(K) /\ \A k \in K : k \in Int
  BY FS_CardinalityType DEF Keys
<1>2. \A key \in K : Rank(key, K) \in Nat /\ Rank(key, K) < n
  BY RankIs
<1>3. \A low, high \in K : low < high => Rank(low, K) < Rank(high, K)
  BY RankGrows
<1> HIDE DEF n
<1>4. rank \in [K -> T]
  BY <1>1, <1>2
<1>5. \A low, high \in K : rank[low] = rank[high] => low = high
  <2>1. SUFFICES ASSUME NEW low \in K, NEW high \in K, low # high
                 PROVE  Rank(low, K) # Rank(high, K)
    BY Zenon
  <2>2. low < high \/ high < low
    BY <1>1, <2>1
  <2> QED
    BY <1>2, <1>3, <2>2
<1> HIDE DEF rank
<1>6. rank \in Injection(K, T)
  BY <1>4, <1>5 DEF Injection, IsInjective
<1>7. IsFiniteSet(T) /\ Cardinality(T) = n
  <2>1. 0 \in Int /\ n - 1 \in Int /\ (IF 0 > n - 1 THEN 0 ELSE n - 1 - 0 + 1) = n
    BY <1>1
  <2> HIDE DEF T
  <2>2. IsFiniteSet(0..(n - 1)) /\ Cardinality(0..(n - 1)) = IF 0 > n - 1 THEN 0 ELSE n - 1 - 0 + 1
    BY ONLY <2>1, FS_Interval
  <2> QED
    BY <2>1, <2>2 DEF T
<1>8. rank \in Surjection(K, T)
  BY <1>6, <1>7, FS_Injection DEF n
<1> QED
  BY <1>6, <1>8 DEF Bijection, n, rank, T

LEMMA DivIs ==
    ASSUME NEW a \in Nat, NEW b \in Nat \ {0}
    PROVE  /\ a \div b \in Nat /\ a % b \in Nat /\ a % b < b
           /\ a = b * (a \div b) + (a % b)
OBVIOUS

LEMMA TimesGrows ==
    ASSUME NEW b \in Nat, NEW m \in Nat, NEW n \in Nat, m < n
    PROVE  b * m + b <= b * n /\ b * m \in Nat /\ b * n \in Nat
OBVIOUS

\* A place is on the page that has the places from n * limit on.
LEMMA OnPage ==
    ASSUME NEW limit \in Nat \ {0}, NEW n \in Nat, NEW r \in Nat
    PROVE  r \div limit = n <=> limit * n <= r /\ r < limit * n + limit
<1> DEFINE q == r \div limit
           x == r % limit
<1>1. q \in Nat /\ x \in Nat /\ x < limit /\ r = limit * q + x
  BY DivIs
<1>2. limit * n \in Nat /\ limit * q \in Nat
  BY <1>1
<1>3. q < n => limit * q + limit <= limit * n
  BY <1>1, TimesGrows
<1>4. n < q => limit * n + limit <= limit * q
  BY <1>1, TimesGrows
<1> HIDE DEF q, x
<1>5. CASE q = n
  BY <1>1, <1>2, <1>5 DEF q
<1>6. CASE q < n
  BY <1>1, <1>2, <1>3, <1>6 DEF q
<1>7. CASE n < q
  BY <1>1, <1>2, <1>4, <1>7 DEF q
<1> QED
  BY <1>1, <1>5, <1>6, <1>7

\* Every page but the last is full, and none is empty.
LEMMA PageSize ==
    ASSUME NEW map, Keys(DOMAIN map), NEW limit \in Nat \ {0}, NEW n \in Nat,
           n < Pages(Cardinality(DOMAIN map), limit)
    PROVE  FullPage(Cardinality(DOMAIN PageOf(map, limit, n)), limit, n,
                    Pages(Cardinality(DOMAIN map), limit))
<1> DEFINE K == DOMAIN map
           size == Cardinality(K)
           rank == [key \in K |-> Rank(key, K)]
           P == {key \in K : Rank(key, K) \div limit = n}
           low == limit * n
           high == IF low + limit < size THEN low + limit - 1 ELSE size - 1
           R == low..high
           full == size \div limit
           rest == size % limit
<1>1. size \in Nat
  BY FS_CardinalityType DEF Keys
<1>2. DOMAIN PageOf(map, limit, n) = P
  BY DEF PageOf, Restrict
<1>3. rank \in Bijection(K, 0..(size - 1))
  BY RanksFill
<1>4. P = {key \in K : rank[key] \div limit = n}
  OBVIOUS
<1> HIDE DEF rank, P
<1>5. Pages(size, limit) = full + (IF rest = 0 THEN 0 ELSE 1)
  BY DEF Pages
<1> HIDE DEF K, size
<1>6. full \in Nat /\ rest \in Nat /\ rest < limit /\ size = limit * full + rest
  BY <1>1, DivIs
<1>7. n < full + (IF rest = 0 THEN 0 ELSE 1)
  BY <1>5 DEF K, size
<1> HIDE DEF full, rest
<1>8. low \in Nat /\ limit * full \in Nat
  BY <1>6
<1>9. n < full => low + limit <= limit * full
  BY <1>6, TimesGrows
<1> HIDE DEF low
<1>10. low < size
  <2>1. CASE n < full
    BY <1>6, <1>8, <1>9, <2>1
  <2>2. CASE n = full
    BY <1>6, <1>7, <1>8, <2>2 DEF low
  <2> QED
    BY <1>6, <1>7, <2>1, <2>2
<1>11. n = Pages(size, limit) - 1 \/ low + limit <= size
  BY <1>5, <1>6, <1>7, <1>8, <1>9
<1>12. high \in Nat /\ low <= high /\ high < size /\ high - low + 1 \in 1..limit
       /\ (low + limit <= size => high - low + 1 = limit)
  BY <1>1, <1>8, <1>10
<1>13. \A r \in 0..(size - 1) : r \div limit = n <=> r \in R
  <2>1. SUFFICES ASSUME NEW r \in 0..(size - 1) PROVE r \div limit = n <=> r \in R
    OBVIOUS
  <2>2. r \in Nat /\ r < size
    BY <1>1, <2>1
  <2>3. r \div limit = n <=> low <= r /\ r < low + limit
    BY <2>2, OnPage DEF low
  <2>4. low <= r /\ r < low + limit <=> r \in R
    BY <1>1, <1>8, <2>2
  <2> QED
    BY <2>3, <2>4
<1>14. R \subseteq 0..(size - 1)
  BY <1>1, <1>8, <1>12
<1> HIDE DEF R, high
<1>15. [key \in P |-> rank[key]] \in Bijection(P, R)
  <2> DEFINE f == [key \in P |-> rank[key]]
  <2>1. /\ rank \in [K -> 0..(size - 1)]
        /\ \A x, y \in K : rank[x] = rank[y] => x = y
        /\ \A r \in 0..(size - 1) : \E key \in K : rank[key] = r
    BY <1>3 DEF Bijection, Injection, Surjection, IsInjective
  <2>2. f \in [P -> R]
    BY <1>4, <1>13, <2>1
  <2>3. \A x, y \in P : f[x] = f[y] => x = y
    BY <1>4, <2>1
  <2>4. \A r \in R : \E key \in P : f[key] = r
    <3>1. SUFFICES ASSUME NEW r \in R PROVE \E key \in P : f[key] = r
      OBVIOUS
    <3>2. PICK key \in K : rank[key] = r
      BY <1>14, <2>1
    <3>3. key \in P
      BY <1>4, <1>13, <1>14, <3>2
    <3> QED
      BY <3>2, <3>3
  <2> HIDE DEF f
  <2> QED
    BY <2>2, <2>3, <2>4 DEF Bijection, Injection, Surjection, IsInjective, f
<1>16. Cardinality(P) = high - low + 1
  <2>1. IsFiniteSet(low..high) /\ Cardinality(low..high) = high - low + 1
    <3>1. low \in Int /\ high \in Int /\ ~(low > high)
      BY <1>8, <1>12
    <3> QED
      BY <3>1, FS_Interval
  <2>2. IsFiniteSet(P)
    BY <1>4, FS_Subset DEF Keys, K
  <2>3. ExistsBijection(P, R)
    BY <1>15 DEF ExistsBijection
  <2>4. Cardinality(R) = Cardinality(P)
    BY <2>2, <2>3, FS_Bijection
  <2> QED
    BY <2>1, <2>4 DEF R
<1>17. FullPage(Cardinality(P), limit, n, Pages(size, limit))
  BY <1>11, <1>12, <1>16 DEF FullPage
<1> QED
  BY <1>2, <1>17 DEF K, size

-----------------------------------------------------------------------------
(* Queues *)

IsQueue(s) == s \in Seq(Range(s))

LEMMA QueueOf ==
    ASSUME NEW S, NEW s \in Seq(S)
    PROVE  IsQueue(s)
<1>1. s \in [1..Len(s) -> S] /\ Len(s) \in Nat
  OBVIOUS
<1>2. s \in [1..Len(s) -> Range(s)]
  BY <1>1 DEF Range
<1> QED
  BY <1>1, <1>2 DEF IsQueue

LEMMA EmptyQueue == IsQueue(<<>>) /\ Range(<<>>) = {}
<1>1. <<>> \in Seq({})
  OBVIOUS
<1>2. DOMAIN <<>> = {}
  OBVIOUS
<1> QED
  BY <1>1, <1>2, QueueOf DEF Range

LEMMA Dequeued ==
    ASSUME NEW s, IsQueue(s), s # <<>>
    PROVE  /\ IsQueue(Tail(s)) /\ Head(s) \in Range(s) /\ Range(Tail(s)) \subseteq Range(s)
           /\ Len(s) \in Nat /\ Len(s) > 0
           /\ DOMAIN s = 1..Len(s)
           /\ Range(s) = {Head(s)} \cup Range(Tail(s))
<1> DEFINE S == Range(s)
<1>1. s \in Seq(S)
  BY DEF IsQueue
<1> HIDE DEF S
<1>2. /\ Tail(s) \in Seq(S) /\ Head(s) = s[1] /\ Len(s) \in Nat /\ Len(s) > 0
      /\ Len(Tail(s)) = Len(s) - 1
      /\ DOMAIN s = 1..Len(s) /\ DOMAIN Tail(s) = 1..Len(Tail(s))
      /\ \A i \in 1..Len(Tail(s)) : Tail(s)[i] = s[i + 1]
  BY <1>1
<1>3. \A i \in 1..Len(Tail(s)) : i + 1 \in 1..Len(s)
  BY <1>2
<1>4. \A i \in 1..Len(s) : i = 1 \/ (i - 1 \in 1..Len(Tail(s)) /\ s[i] = Tail(s)[i - 1])
  BY <1>2
<1>5. 1 \in 1..Len(s)
  BY <1>2
<1>6. Range(s) = {Head(s)} \cup Range(Tail(s))
  <2> DEFINE t == Tail(s)
             h == Head(s)
  <2>1. /\ Range(s) = {s[i] : i \in 1..Len(s)} /\ Range(t) = {t[i] : i \in 1..Len(t)}
        /\ h = s[1] /\ \A i \in 1..Len(t) : t[i] = s[i + 1]
        /\ \A i \in 1..Len(s) : i = 1 \/ (i - 1 \in 1..Len(t) /\ s[i] = t[i - 1])
    BY <1>2, <1>4 DEF Range
  <2> HIDE DEF t, h
  <2>2. ASSUME NEW x \in Range(s) PROVE x \in {h} \cup Range(t)
    BY <2>1
  <2>3. ASSUME NEW x \in {h} \cup Range(t) PROVE x \in Range(s)
    <3>1. CASE x = h
      BY <2>1, <1>5, <3>1
    <3>2. CASE x \in Range(t)
      <4>1. PICK i \in 1..Len(t) : x = t[i]
        BY <2>1, <3>2
      <4>2. i + 1 \in 1..Len(s)
        BY <1>3 DEF t
      <4> QED
        BY <2>1, <4>1, <4>2
    <3> QED
      BY <2>3, <3>1, <3>2
  <2>4. Range(s) = {h} \cup Range(t)
    BY <2>2, <2>3
  <2> QED
    BY <2>4 DEF t, h
<1> QED
  BY <1>2, <1>6, QueueOf

LEMMA Enqueued ==
    ASSUME NEW s, IsQueue(s), NEW e
    PROVE  /\ IsQueue(Append(s, e)) /\ Range(Append(s, e)) = Range(s) \cup {e}
           /\ DOMAIN s = 1..Len(s) /\ Len(s) \in Nat
           /\ Len(Append(s, e)) = Len(s) + 1
<1> DEFINE S == Range(s) \cup {e}
<1>1. s \in Seq(S) /\ e \in S
  BY DEF IsQueue
<1> HIDE DEF S
<1>2. /\ Append(s, e) \in Seq(S) /\ Len(s) \in Nat
      /\ Len(Append(s, e)) = Len(s) + 1
      /\ DOMAIN s = 1..Len(s) /\ DOMAIN Append(s, e) = 1..Len(s) + 1
      /\ \A i \in 1..Len(s) : Append(s, e)[i] = s[i]
      /\ Append(s, e)[Len(s) + 1] = e
  BY <1>1
<1>3. \A i \in 1..Len(s) + 1 : i \in 1..Len(s) \/ i = Len(s) + 1
  BY <1>2
<1>4. \A i \in 1..Len(s) : i \in 1..Len(s) + 1
  BY <1>2
<1>5. Len(s) + 1 \in 1..Len(s) + 1
  BY <1>2
<1>6. Range(Append(s, e)) = Range(s) \cup {e}
  BY <1>2, <1>3, <1>4, <1>5 DEF Range
<1> QED
  BY <1>2, <1>6, QueueOf

LEMMA Received ==
    ASSUME NEW s, IsQueue(s), NEW n \in 0..Len(s)
    PROVE  IsQueue(SubSeq(s, 1, n)) /\ Range(SubSeq(s, 1, n)) \subseteq Range(s)
<1> DEFINE S == Range(s)
<1>1. s \in Seq(S)
  BY DEF IsQueue
<1> HIDE DEF S
<1>2. Len(s) \in Nat /\ DOMAIN s = 1..Len(s)
  BY <1>1
<1>3. n \in Nat /\ \A i \in 1..n : i \in 1..Len(s)
  BY <1>2
<1>4. \A i \in 1..n : s[i] \in S
  BY <1>1, <1>3
<1>5. SubSeq(s, 1, n) = [i \in 1..n |-> s[i]]
  BY <1>1, <1>2, <1>3
<1>6. SubSeq(s, 1, n) \in Seq(S)
  BY <1>3, <1>4, <1>5, SeqDef
<1>7. Range(SubSeq(s, 1, n)) \subseteq Range(s)
  BY <1>2, <1>3, <1>5 DEF Range
<1> QED
  BY <1>6, <1>7, QueueOf

LEMMA SeqOfNone == SetToSeq({}) = <<>>
<1> DEFINE n == Cardinality({})
           all == [1..n -> {}]
<1>1. n = 0
  BY FS_EmptySet
<1> HIDE DEF n
<1>2. ASSUME NEW f \in all PROVE f = <<>>
  <2>1. f \in Seq({})
    BY <1>1, SeqDef
  <2>2. Len(f) = 0
    BY <1>1, <2>1, LenProperties
  <2> QED
    BY <2>1, <2>2, EmptySeq
<1>3. <<>> \in all /\ IsInjective(<<>>)
  <2>1. <<>> \in Seq({}) /\ Len(<<>>) = 0
    BY EmptySeq
  <2>2. <<>> \in [1..0 -> {}] /\ DOMAIN <<>> = 1..0
    BY <2>1, LenProperties
  <2> QED
    BY <1>1, <2>2 DEF IsInjective
<1>4. SetToSeq({}) \in all
  BY <1>3 DEF SetToSeq, n
<1> QED
  BY <1>2, <1>4

LEMMA SeqOfOne == ASSUME NEW e PROVE SetToSeq({e}) = <<e>>
<1> DEFINE n == Cardinality({e})
           all == [1..n -> {e}]
<1>1. n = 1
  BY FS_Singleton, Zenon
<1> HIDE DEF n
<1>2. <<e>> \in Seq({e}) /\ Len(<<e>>) = 1 /\ <<e>>[1] = e
  OBVIOUS
<1>3. ASSUME NEW f \in all PROVE f = <<e>>
  <2>1. f \in Seq({e}) /\ f \in [1..1 -> {e}]
    BY <1>1, SeqDef
  <2>2. Len(f) = 1
    <3> DEFINE k == Len(f)
    <3>1. k \in Nat /\ 1..k = DOMAIN f /\ DOMAIN f = 1..1
      BY <2>1, LenProperties
    <3> HIDE DEF k
    <3>2. 1 \in 1..k
      BY <3>1
    <3>3. k \in 1..k
      BY <3>1, <3>2
    <3>4. k \in 1..1
      BY <3>1, <3>3
    <3>5. k = 1
      BY <3>1, <3>4
    <3> QED
      BY <3>5 DEF k
  <2>3. \A i \in 1..1 : f[i] = e /\ i = 1
    <3>1. f \in [1..1 -> {e}]
      BY <2>1
    <3>2. ASSUME NEW i \in 1..1 PROVE f[i] = e
      BY <3>1
    <3>3. ASSUME NEW i \in 1..1 PROVE i = 1
      OBVIOUS
    <3> QED
      BY <3>2, <3>3
  <2>4. \A i \in 1..Len(f) : f[i] = <<e>>[i]
    BY <1>2, <2>2, <2>3
  <2> QED
    BY <1>2, <2>1, <2>2, <2>4, SeqEqual
<1>4. <<e>> \in all /\ IsInjective(<<e>>)
  <2>1. <<e>> \in [1..1 -> {e}] /\ DOMAIN <<e>> = 1..1
    BY <1>2, LenProperties
  <2> QED
    BY <1>1, <2>1 DEF IsInjective
<1>5. SetToSeq({e}) \in all
  BY <1>4 DEF SetToSeq, n
<1> QED
  BY <1>3, <1>5

\* The identities that queues of finite length name are finitely many.
LEMMA FiniteIds ==
    ASSUME NEW s, IsQueue(s)
    PROVE  IsFiniteSet({s[i].id : i \in DOMAIN s})
<1> DEFINE T == {s[i].id : i \in DOMAIN s}
           f == [i \in DOMAIN s |-> s[i].id]
<1>1. DOMAIN s = 1..Len(s) /\ Len(s) \in Nat
  BY DEF IsQueue
<1>2. f \in Surjection(DOMAIN s, T)
  BY DEF Surjection
<1>3. IsFiniteSet(DOMAIN s)
  BY <1>1, FS_Interval
<1> QED
  BY <1>2, <1>3, FS_Surjection

\* There is always an identity that is not taken.
LEMMA FreeId ==
    ASSUME NEW S, IsFiniteSet(S)
    PROVE  \E id \in 1..(Cardinality(S) + 1) : id \notin S
<1>1. Cardinality(S) \in Nat
  BY FS_CardinalityType
<1> DEFINE n == Cardinality(S)
<1> HIDE DEF n
<1>2. n \in Nat
  BY <1>1 DEF n
<1>3. IsFiniteSet(1..(n + 1)) /\ Cardinality(1..(n + 1)) = n + 1
  <2>1. 1 \in Int /\ n + 1 \in Int /\ ~(1 > n + 1) /\ (n + 1) - 1 + 1 = n + 1
    BY <1>2
  <2> QED
    BY <2>1, FS_Interval
<1>4. SUFFICES ASSUME 1..(n + 1) \subseteq S PROVE FALSE
  BY DEF n
<1>5. 1..(n + 1) \in SUBSET S
  BY <1>4
<1>6. n + 1 <= Cardinality(S)
  BY <1>3, <1>5, FS_Subset
<1> QED
  BY <1>2, <1>6 DEF n

-----------------------------------------------------------------------------
(* What the client and its packets say of the collections held *)

Fields == {"pending", "requiredRevision", "refreshingRevision", "awaited", "view", "assembly"}
AssemblyFields == {"opened", "counts", "summaries", "countIndex", "deckIndex"}
Shaped(c) == DOMAIN c = Fields /\ DOMAIN c.assembly = AssemblyFields

Listed(d) ==
    DOMAIN d.decks \subseteq Decks /\ IsMap(d.decks) /\ \A deck \in DOMAIN d.decks : d.decks[deck] \in Contents
Kept(h) == \A r \in DOMAIN h : h[r].revision = r /\ Listed(h[r])

\* A reply tells of a collection what was held at the revision it names.
Tells(reply, h) ==
    /\ reply.op \in {"opened", "COUNTS", "DECKS", "deck"} => reply.revision \in DOMAIN h
    /\ reply.op = "opened" => reply = Opened(reply.snapshot, h[reply.revision])
    /\ reply.op = "COUNTS" =>
         reply.entries = PageOf(Owned(h[reply.revision].counts), COUNT_PAGE, reply.index)
    /\ reply.op = "DECKS" =>
         reply.entries = PageOf(h[reply.revision].decks, SUMMARY_PAGE, reply.index)
    /\ reply.op = "deck" => /\ reply.deck \in DOMAIN h[reply.revision].decks
                            /\ reply.content = h[reply.revision].decks[reply.deck]

\* An assembly has the first pages of one collection that was held.
Assembled(a, h) ==
    /\ a.opened.revision \in DOMAIN h
    /\ a.opened = Opened(a.opened.snapshot, h[a.opened.revision])
    /\ a.countIndex \in Nat /\ a.deckIndex \in Nat
    /\ a.counts = Prefix(Owned(h[a.opened.revision].counts), COUNT_PAGE, a.countIndex)
    /\ a.summaries = Prefix(h[a.opened.revision].decks, SUMMARY_PAGE, a.deckIndex)

AssemblyTrue(a, h) == IF a.opened = NoHeader THEN a = NoAssembly ELSE Assembled(a, h)

\* A view is one collection that was held.
Shown(v, h) ==
    v # NoView =>
      /\ v.revision \in DOMAIN h
      /\ v.counts = Owned(h[v.revision].counts)
      /\ v.summaries = h[v.revision].decks /\ v.active = h[v.revision].active

\* A refresh waits for the request it needs the answer of.
Awaits(c) ==
    c.awaited # NoId =>
      /\ c.awaited \in DOMAIN c.pending
      /\ c.pending[c.awaited] = IF c.assembly.opened = NoHeader THEN Open ELSE NextPage(c.assembly)

Extends(g, h) == \A r \in DOMAIN h : r \in DOMAIN g /\ g[r] = h[r]

LEMMA StillTells ==
    ASSUME NEW h, NEW g, Extends(g, h), NEW reply, Tells(reply, h)
    PROVE  Tells(reply, g)
BY DEF Extends, Tells

LEMMA StillAssembled ==
    ASSUME NEW h, NEW g, Extends(g, h), NEW a, AssemblyTrue(a, h)
    PROVE  AssemblyTrue(a, g)
BY DEF Extends, AssemblyTrue, Assembled

LEMMA StillShown ==
    ASSUME NEW h, NEW g, Extends(g, h), NEW v, Shown(v, h)
    PROVE  Shown(v, g)
BY DEF Extends, Shown

LEMMA OpenedIs ==
    ASSUME NEW id, NEW d
    PROVE  /\ Opened(id, d) # NoHeader
           /\ Opened(id, d).op = "opened" /\ Opened(id, d).snapshot = id
           /\ Opened(id, d).revision = d.revision /\ Opened(id, d).active = d.active
           /\ Opened(id, d).countPages = CountPages(d) /\ Opened(id, d).deckPages = DeckPages(d)
<1>1. DOMAIN Opened(id, d) # DOMAIN NoHeader
  <2>1. "op" \in DOMAIN Opened(id, d) /\ "op" \notin DOMAIN NoHeader
    BY DEF Opened, NoHeader
  <2> QED
    BY <2>1
<1> QED
  BY <1>1 DEF Opened

LEMMA OwnedIs ==
    ASSUME NEW counts
    PROVE  Keys(DOMAIN Owned(counts)) /\ IsMap(Owned(counts))
<1> DEFINE S == {code \in Codes : counts[code] > 0}
<1>1. S \in SUBSET Codes /\ Codes \subseteq Int /\ IsFiniteSet(Codes)
  BY KeyAssumption
<1>2. IsFiniteSet(S) /\ S \subseteq Int
  BY <1>1, FS_Subset
<1>3. Owned(counts) = [code \in S |-> counts[code]]
  BY DEF Owned, Restrict
<1> HIDE DEF S
<1> QED
  BY <1>2, <1>3 DEF Keys, IsMap

LEMMA ListedIs ==
    ASSUME NEW d, Listed(d)
    PROVE  Keys(DOMAIN d.decks) /\ IsMap(d.decks)
<1>1. DOMAIN d.decks \in SUBSET Decks /\ Decks \subseteq Int /\ IsFiniteSet(Decks)
  BY KeyAssumption DEF Listed
<1>2. IsFiniteSet(DOMAIN d.decks)
  BY <1>1, FS_Subset
<1> QED
  BY <1>1, <1>2 DEF Keys, Listed

-----------------------------------------------------------------------------
(* The client's operators *)

LEMMA AskIs ==
    ASSUME NEW c, Shaped(c), NEW id, NEW command
    PROVE  LET d == Ask(c, id, command)
           IN /\ Shaped(d) /\ d.pending = Put(c.pending, id, command)
              /\ d.awaited = c.awaited /\ d.view = c.view /\ d.assembly = c.assembly
              /\ d.requiredRevision = c.requiredRevision
              /\ d.refreshingRevision = c.refreshingRevision
BY DEF Ask, Shaped, Fields

LEMMA DiscardIs ==
    ASSUME NEW c, Shaped(c)
    PROVE  LET d == DiscardPending(c)
           IN /\ Shaped(d) /\ d.assembly = NoAssembly
              /\ d.pending = c.pending /\ d.awaited = c.awaited /\ d.view = c.view
              /\ d.requiredRevision = c.requiredRevision
              /\ d.refreshingRevision = c.refreshingRevision
BY DEF DiscardPending, Shaped, Fields, AssemblyFields, NoAssembly

LEMMA AwaitIs ==
    ASSUME NEW c, Shaped(c), NEW id
    PROVE  LET d == [c EXCEPT !.awaited = id]
           IN /\ Shaped(d) /\ d.awaited = id
              /\ d.pending = c.pending /\ d.view = c.view /\ d.assembly = c.assembly
              /\ d.requiredRevision = c.requiredRevision
              /\ d.refreshingRevision = c.refreshingRevision
BY DEF Shaped, Fields

LEMMA FinishIs ==
    ASSUME NEW c, Shaped(c)
    PROVE  LET d == FinishFailed(c)
           IN /\ Shaped(d) /\ d.awaited = NoId /\ d.assembly = NoAssembly
              /\ d.pending = c.pending /\ d.view = c.view
              /\ d.requiredRevision = c.requiredRevision
              /\ d.refreshingRevision = c.refreshingRevision
<1>1. FinishFailed(c) = DiscardPending([c EXCEPT !.awaited = NoId])
  BY DEF FinishFailed
<1> DEFINE e == [c EXCEPT !.awaited = NoId]
<1>2. /\ Shaped(e) /\ e.awaited = NoId
      /\ e.pending = c.pending /\ e.view = c.view
      /\ e.requiredRevision = c.requiredRevision /\ e.refreshingRevision = c.refreshingRevision
  BY AwaitIs
<1> HIDE DEF e
<1>3. /\ Shaped(DiscardPending(e)) /\ DiscardPending(e).assembly = NoAssembly
      /\ DiscardPending(e).pending = e.pending /\ DiscardPending(e).awaited = e.awaited
      /\ DiscardPending(e).view = e.view
      /\ DiscardPending(e).requiredRevision = e.requiredRevision
      /\ DiscardPending(e).refreshingRevision = e.refreshingRevision
  BY <1>2, DiscardIs
<1> QED
  BY <1>1, <1>2, <1>3 DEF e

LEMMA LearnIs ==
    ASSUME NEW c, Shaped(c), NEW reply
    PROVE  LET d == Learn(c, reply)
           IN /\ Shaped(d)
              /\ d.pending = c.pending /\ d.awaited = c.awaited /\ d.view = c.view
              /\ d.assembly = c.assembly /\ d.refreshingRevision = c.refreshingRevision
              /\ d.requiredRevision \in {c.requiredRevision, reply.revision}
BY DEF Learn, Shaped, Fields

LEMMA ForgetIs ==
    ASSUME Shaped(client), NEW id
    PROVE  LET d == Forget(id)
           IN /\ Shaped(d) /\ d.pending = Restrict(client.pending, DOMAIN client.pending \ {id})
              /\ d.awaited = client.awaited /\ d.view = client.view /\ d.assembly = client.assembly
              /\ d.requiredRevision = client.requiredRevision
              /\ d.refreshingRevision = client.refreshingRevision
BY DEF Forget, Shaped, Fields

LEMMA NextPageIs ==
    ASSUME NEW a, a.opened # NoHeader
    PROVE  \/ /\ a.countIndex < a.opened.countPages
              /\ NextPage(a) = PageCommand(a.opened, "COUNTS", a.countIndex)
           \/ /\ ~(a.countIndex < a.opened.countPages) /\ a.deckIndex < a.opened.deckPages
              /\ NextPage(a) = PageCommand(a.opened, "DECKS", a.deckIndex)
           \/ /\ ~(a.countIndex < a.opened.countPages) /\ ~(a.deckIndex < a.opened.deckPages)
              /\ NextPage(a) = NoPage
BY DEF NextPage

LEMMA PageCommandIs ==
    ASSUME NEW opened, NEW kind, NEW index
    PROVE  LET p == PageCommand(opened, kind, index)
           IN /\ p.op = "page" /\ p.snapshot = opened.snapshot /\ p.kind = kind /\ p.index = index
              /\ p # NoPage /\ p # Open
<1>1. PageCommand(opened, kind, index).op = "page" /\ NoPage.op = "none" /\ Open.op = "open"
  BY DEF PageCommand, NoPage, Open
<1> QED
  BY <1>1 DEF PageCommand

\* A view is published when every page of one collection is there.
LEMMA CompleteIs ==
    ASSUME NEW h, Kept(h), NEW a, a.opened # NoHeader, Assembled(a, h), NextPage(a) = NoPage
    PROVE  /\ a.counts = Owned(h[a.opened.revision].counts)
           /\ a.summaries = h[a.opened.revision].decks
           /\ a.opened.active = h[a.opened.revision].active
<1> DEFINE d == h[a.opened.revision]
<1>1. ~(a.countIndex < a.opened.countPages) /\ ~(a.deckIndex < a.opened.deckPages)
  BY NextPageIs, PageCommandIs
<1>2. /\ a.opened = Opened(a.opened.snapshot, d) /\ a.countIndex \in Nat /\ a.deckIndex \in Nat
      /\ a.counts = Prefix(Owned(d.counts), COUNT_PAGE, a.countIndex)
      /\ a.summaries = Prefix(d.decks, SUMMARY_PAGE, a.deckIndex)
      /\ Listed(d)
  BY DEF Assembled, Kept
<1> HIDE DEF d
<1>3. /\ a.opened.countPages = CountPages(d) /\ a.opened.deckPages = DeckPages(d)
      /\ a.opened.active = d.active
  <2> DEFINE id == a.opened.snapshot
  <2> HIDE DEF id
  <2>1. Opened(id, d).countPages = CountPages(d) /\ Opened(id, d).deckPages = DeckPages(d)
        /\ Opened(id, d).active = d.active
    BY OpenedIs
  <2> QED
    BY <1>2, <2>1 DEF id
<1>4. /\ Keys(DOMAIN Owned(d.counts)) /\ IsMap(Owned(d.counts))
      /\ Keys(DOMAIN d.decks) /\ IsMap(d.decks)
  BY <1>2, OwnedIs, ListedIs
<1>5. COUNT_PAGE \in Nat \ {0} /\ SUMMARY_PAGE \in Nat \ {0}
  BY PageAssumption
<1>6. ASSUME NEW K, Keys(K), NEW limit \in Nat \ {0} PROVE Pages(Cardinality(K), limit) \in Int
  <2> DEFINE n == Cardinality(K)
  <2>1. n \in Nat
    BY <1>6, FS_CardinalityType DEF Keys
  <2> HIDE DEF n
  <2>2. Pages(n, limit) \in Int
    BY <2>1 DEF Pages
  <2> QED
    BY <2>2 DEF n
<1>7. CountPages(d) \in Int /\ DeckPages(d) \in Int
  BY <1>4, <1>5, <1>6 DEF CountPages, DeckPages
<1>8. /\ a.countIndex >= Pages(Cardinality(DOMAIN Owned(d.counts)), COUNT_PAGE)
      /\ a.deckIndex >= Pages(Cardinality(DOMAIN d.decks), SUMMARY_PAGE)
  <2>1. a.countIndex >= CountPages(d) /\ a.deckIndex >= DeckPages(d)
    BY <1>1, <1>2, <1>3, <1>7
  <2> QED
    BY <2>1 DEF CountPages, DeckPages
<1>9. Prefix(Owned(d.counts), COUNT_PAGE, a.countIndex) = Owned(d.counts)
  BY <1>2, <1>4, <1>5, <1>8, AllPages
<1>10. Prefix(d.decks, SUMMARY_PAGE, a.deckIndex) = d.decks
  BY <1>2, <1>4, <1>5, <1>8, AllPages
<1> QED
  BY <1>2, <1>3, <1>9, <1>10 DEF d

LEMMA PublishIs ==
    ASSUME NEW h, Kept(h), NEW c, Shaped(c), c.assembly.opened # NoHeader,
           Assembled(c.assembly, h), Shown(c.view, h)
    PROVE  LET d == PublishIfComplete(c)
           IN /\ Shaped(d) /\ AssemblyTrue(d.assembly, h) /\ Shown(d.view, h)
              /\ d.pending = c.pending /\ d.awaited = c.awaited
              /\ d.requiredRevision = c.requiredRevision
              /\ d.refreshingRevision = c.refreshingRevision
              /\ IF NextPage(c.assembly) = NoPage
                 THEN d.view.revision = c.assembly.opened.revision /\ d.assembly = NoAssembly
                 ELSE d.view = c.view /\ d.assembly = c.assembly
<1>1. CASE NextPage(c.assembly) # NoPage
  <2>1. PublishIfComplete(c) = c
    BY <1>1 DEF PublishIfComplete
  <2> QED
    BY <1>1, <2>1 DEF AssemblyTrue
<1>2. CASE NextPage(c.assembly) = NoPage
  <2> DEFINE e == [c EXCEPT !.view = View(c)]
  <2>1. PublishIfComplete(c) = DiscardPending(e)
    BY <1>2 DEF PublishIfComplete
  <2>2. /\ Shaped(e) /\ e.view = View(c) /\ e.pending = c.pending /\ e.awaited = c.awaited
        /\ e.requiredRevision = c.requiredRevision /\ e.refreshingRevision = c.refreshingRevision
    BY DEF Shaped, Fields
  <2>3. View(c).revision = c.assembly.opened.revision /\ Shown(View(c), h)
    <3>1. /\ c.assembly.counts = Owned(h[c.assembly.opened.revision].counts)
          /\ c.assembly.summaries = h[c.assembly.opened.revision].decks
          /\ c.assembly.opened.active = h[c.assembly.opened.revision].active
      BY <1>2, CompleteIs
    <3> QED
      BY <3>1 DEF View, Shown, Assembled
  <2> HIDE DEF e
  <2>4. /\ Shaped(DiscardPending(e)) /\ DiscardPending(e).assembly = NoAssembly
        /\ DiscardPending(e).pending = e.pending /\ DiscardPending(e).awaited = e.awaited
        /\ DiscardPending(e).view = e.view
        /\ DiscardPending(e).requiredRevision = e.requiredRevision
        /\ DiscardPending(e).refreshingRevision = e.refreshingRevision
    BY <2>2, DiscardIs
  <2>5. AssemblyTrue(NoAssembly, h)
    BY DEF AssemblyTrue, NoAssembly
  <2> QED
    BY <1>2, <2>1, <2>2, <2>3, <2>4, <2>5
<1> QED
  BY <1>1, <1>2

LEMMA BeginIs ==
    ASSUME NEW h, Kept(h), NEW c, Shaped(c), Shown(c.view, h),
           NEW header, header.op = "opened", Tells(header, h)
    PROVE  LET d == Begin(c, header)
           IN /\ Shaped(d) /\ AssemblyTrue(d.assembly, h) /\ Shown(d.view, h)
              /\ d.pending = c.pending /\ d.awaited = c.awaited
              /\ d.requiredRevision = c.requiredRevision
              /\ d.refreshingRevision = c.refreshingRevision
              /\ IF d.assembly = NoAssembly THEN d.view.revision = header.revision
                 ELSE d.assembly = [NoAssembly EXCEPT !.opened = header]
<1> DEFINE b == DiscardPending(c)
           e == [b EXCEPT !.assembly.opened = header]
<1>1. Begin(c, header) = PublishIfComplete(e)
  BY DEF Begin
<1>2. /\ Shaped(b) /\ b.assembly = NoAssembly
      /\ b.pending = c.pending /\ b.awaited = c.awaited /\ b.view = c.view
      /\ b.requiredRevision = c.requiredRevision /\ b.refreshingRevision = c.refreshingRevision
  BY DiscardIs
<1> HIDE DEF b
<1>3. /\ Shaped(e) /\ e.assembly = [NoAssembly EXCEPT !.opened = header]
      /\ e.pending = b.pending /\ e.awaited = b.awaited /\ e.view = b.view
      /\ e.requiredRevision = b.requiredRevision /\ e.refreshingRevision = b.refreshingRevision
  BY <1>2 DEF Shaped, Fields, AssemblyFields
<1> HIDE DEF e
<1> DEFINE a == [NoAssembly EXCEPT !.opened = header]
           d == h[header.revision]
<1>4. /\ a.opened = header /\ a.counts = Empty /\ a.summaries = Empty
      /\ a.countIndex = 0 /\ a.deckIndex = 0
  BY DEF NoAssembly
<1> HIDE DEF a
<1>5. header.revision \in DOMAIN h /\ header = Opened(header.snapshot, d) /\ Listed(d)
  BY DEF Tells, Kept
<1> HIDE DEF d
<1>6. header # NoHeader
  BY <1>5, OpenedIs
<1>7. /\ Prefix(Owned(d.counts), COUNT_PAGE, 0) = Empty
      /\ Prefix(d.decks, SUMMARY_PAGE, 0) = Empty
  BY <1>5, OwnedIs, ListedIs, NoPages, PageAssumption
<1>8. Assembled(a, h)
  BY <1>4, <1>5, <1>7 DEF Assembled, d
<1>9. a # NoAssembly
  BY <1>4, <1>6 DEF NoAssembly
<1>10. e.assembly = a /\ e.assembly.opened # NoHeader /\ Assembled(e.assembly, h) /\ Shown(e.view, h)
  BY <1>2, <1>3, <1>4, <1>6, <1>8 DEF a
<1> DEFINE p == PublishIfComplete(e)
<1>11. /\ Shaped(p) /\ AssemblyTrue(p.assembly, h) /\ Shown(p.view, h)
       /\ p.pending = e.pending /\ p.awaited = e.awaited
       /\ p.requiredRevision = e.requiredRevision /\ p.refreshingRevision = e.refreshingRevision
       /\ IF NextPage(e.assembly) = NoPage
          THEN p.view.revision = e.assembly.opened.revision /\ p.assembly = NoAssembly
          ELSE p.view = e.view /\ p.assembly = e.assembly
  BY <1>3, <1>10, PublishIs
<1> HIDE DEF p
<1>12. IF p.assembly = NoAssembly THEN p.view.revision = header.revision ELSE p.assembly = a
  BY <1>4, <1>9, <1>10, <1>11
<1> QED
  BY <1>1, <1>2, <1>3, <1>11, <1>12 DEF p, a

LEMMA AcceptIs ==
    ASSUME NEW h, Kept(h), NEW c, Shaped(c), Shown(c.view, h), c.assembly.opened # NoHeader,
           Assembled(c.assembly, h), NEW page, Tells(page, h), Accepts(c.assembly, page)
    PROVE  LET d == Accept(c, page)
           IN /\ Shaped(d) /\ AssemblyTrue(d.assembly, h) /\ Shown(d.view, h)
              /\ d.pending = c.pending /\ d.awaited = c.awaited
              /\ d.requiredRevision = c.requiredRevision
              /\ d.refreshingRevision = c.refreshingRevision
              /\ IF d.assembly = NoAssembly THEN d.view.revision = c.assembly.opened.revision
                 ELSE /\ d.assembly.opened = c.assembly.opened /\ d.view = c.view
                      /\ NextPage(d.assembly) # NoPage
<1> DEFINE a == c.assembly
           opened == a.opened
           d == h[opened.revision]
           e == IF page.op = "COUNTS"
                THEN [c EXCEPT !.assembly.counts = Joined(page.entries, @), !.assembly.countIndex = @ + 1]
                ELSE [c EXCEPT !.assembly.summaries = Joined(page.entries, @), !.assembly.deckIndex = @ + 1]
<1>1. Accept(c, page) = PublishIfComplete(e)
  BY DEF Accept
<1>2. /\ opened.revision \in DOMAIN h /\ opened = Opened(opened.snapshot, d)
      /\ a.countIndex \in Nat /\ a.deckIndex \in Nat
      /\ a.counts = Prefix(Owned(d.counts), COUNT_PAGE, a.countIndex)
      /\ a.summaries = Prefix(d.decks, SUMMARY_PAGE, a.deckIndex)
      /\ Listed(d)
  BY DEF Assembled, Kept
<1>3. /\ page.revision = opened.revision /\ page.op = NextPage(a).kind
      /\ page.index = NextPage(a).index /\ NextPage(a) # NoPage
  BY DEF Accepts
<1>4. \/ page.op = "COUNTS" /\ page.index = a.countIndex
      \/ page.op = "DECKS" /\ page.index = a.deckIndex
  BY <1>3, NextPageIs, PageCommandIs
<1>5. /\ Shaped(e) /\ e.assembly.opened = opened
      /\ e.pending = c.pending /\ e.awaited = c.awaited /\ e.view = c.view
      /\ e.requiredRevision = c.requiredRevision /\ e.refreshingRevision = c.refreshingRevision
  BY <1>4 DEF Shaped, Fields, AssemblyFields
<1>6. COUNT_PAGE \in Nat \ {0} /\ SUMMARY_PAGE \in Nat \ {0}
  BY PageAssumption
<1>7. Assembled(e.assembly, h)
  <2>1. CASE page.op = "COUNTS" /\ page.index = a.countIndex
    <3>1. /\ e.assembly.counts = Joined(page.entries, a.counts)
          /\ e.assembly.countIndex = a.countIndex + 1
          /\ e.assembly.summaries = a.summaries /\ e.assembly.deckIndex = a.deckIndex
      BY <2>1 DEF Shaped, Fields, AssemblyFields
    <3>2. page.entries = PageOf(Owned(d.counts), COUNT_PAGE, a.countIndex)
      BY <1>3, <2>1 DEF Tells
    <3>3. Joined(page.entries, a.counts) = Prefix(Owned(d.counts), COUNT_PAGE, a.countIndex + 1)
      BY <1>2, <1>6, <3>2, OwnedIs, NextOfPages
    <3> HIDE DEF d, e
    <3> QED
      BY <1>2, <1>5, <3>1, <3>3 DEF Assembled, d
  <2>2. CASE page.op = "DECKS" /\ page.index = a.deckIndex
    <3>1. /\ e.assembly.summaries = Joined(page.entries, a.summaries)
          /\ e.assembly.deckIndex = a.deckIndex + 1
          /\ e.assembly.counts = a.counts /\ e.assembly.countIndex = a.countIndex
      BY <2>2 DEF Shaped, Fields, AssemblyFields
    <3>2. page.entries = PageOf(d.decks, SUMMARY_PAGE, a.deckIndex)
      BY <1>3, <2>2 DEF Tells
    <3>3. Joined(page.entries, a.summaries) = Prefix(d.decks, SUMMARY_PAGE, a.deckIndex + 1)
      BY <1>2, <1>6, <3>2, ListedIs, NextOfPages
    <3> HIDE DEF d, e
    <3> QED
      BY <1>2, <1>5, <3>1, <3>3 DEF Assembled, d
  <2> QED
    BY <1>4, <2>1, <2>2
<1> HIDE DEF e
<1> DEFINE p == PublishIfComplete(e)
<1>8. e.assembly.opened # NoHeader /\ Shown(e.view, h)
  BY <1>5
<1>9. /\ Shaped(p) /\ AssemblyTrue(p.assembly, h) /\ Shown(p.view, h)
      /\ p.pending = e.pending /\ p.awaited = e.awaited
      /\ p.requiredRevision = e.requiredRevision /\ p.refreshingRevision = e.refreshingRevision
      /\ IF NextPage(e.assembly) = NoPage
         THEN p.view.revision = e.assembly.opened.revision /\ p.assembly = NoAssembly
         ELSE p.view = e.view /\ p.assembly = e.assembly
  BY <1>5, <1>7, <1>8, PublishIs
<1>10. NextPage(NoAssembly) = NoPage
  BY DEF NextPage, NoAssembly
<1> HIDE DEF p
<1> QED
  BY <1>1, <1>5, <1>9, <1>10 DEF p

-----------------------------------------------------------------------------
(* The inductive invariant *)

\* Every revision was held once, the last of them is held, and it is what a
\* snapshot has pages of.
ServerTrue ==
    /\ data.revision \in Nat /\ data.revision \in DOMAIN held /\ held[data.revision] = data
    /\ Kept(held) /\ \A r \in DOMAIN held : r \in Nat /\ r <= data.revision
    /\ snapshot # NoSnapshot => online /\ snapshot.data = data
    /\ connection.up => online
    /\ ~online => toServer = <<>>
    /\ connection.generation \in Nat

\* What a request names is what its decoder lets through.
Sound(command) ==
    /\ command.op = "page" => command.kind \in {"COUNTS", "DECKS"}
    /\ command.op = "save" => command.deck \in Decks /\ command.content \in Contents
    /\ command.op \in Transfers =>
         command.amount \in Nat /\ (command.op # "DEPOSIT_ALL" => command.code \in Codes)

\* A reply on the connection that is up tells what was held in this world.
PacketTrue(packet) ==
    /\ packet.connection \in Nat /\ packet.connection <= connection.generation
    /\ packet.connection = connection.generation => connection.up /\ Tells(packet.reply, held)

PacketsTrue ==
    /\ IsQueue(toServer) /\ IsQueue(toClient)
    /\ \A request \in Range(toServer) : Sound(request.command)
    /\ \A packet \in Range(toClient) : PacketTrue(packet)

ClientTrue ==
    /\ Shaped(client) /\ IsFiniteSet(DOMAIN client.pending) /\ NoId \notin DOMAIN client.pending
    /\ AssemblyTrue(client.assembly, held) /\ Shown(client.view, held) /\ Awaits(client)
    /\ DeckOfView
    /\ ~connection.up => /\ client.pending = Empty /\ client.awaited = NoId
                         /\ client.view = NoView /\ client.assembly = NoAssembly
                         /\ handed = NotHanded

CollectionInv == ServerTrue /\ PacketsTrue /\ ClientTrue

LEMMA InitTrue == Init => CollectionInv
<1> SUFFICES ASSUME Init PROVE CollectionInv
  OBVIOUS
<1>1. PICK world \in Worlds : data = world.data
  BY DEF Init
<1>2. /\ data.revision \in Nat
      /\ data.decks \in UNION {[listed -> Contents] : listed \in SUBSET Decks}
  BY <1>1, WorldAssumption
<1>3. Listed(data)
  BY <1>2 DEF Listed, IsMap
<1>4. held = Put(Empty, data.revision, data)
  BY DEF Init
<1>5. DOMAIN held = {data.revision} /\ held[data.revision] = data
  BY <1>4 DEF Put, Empty
<1>6. ServerTrue
  BY <1>2, <1>3, <1>5 DEF Init, ServerTrue, Kept
<1>7. PacketsTrue
  BY EmptyQueue DEF Init, PacketsTrue
<1>8. /\ client = NewClient /\ handed = NotHanded
  BY DEF Init
<1>9. Shaped(client) /\ DOMAIN client.pending = {}
  BY <1>8 DEF NewClient, NoAssembly, Empty, Shaped, Fields, AssemblyFields
<1>10. IsFiniteSet(DOMAIN client.pending)
  BY <1>9, FS_EmptySet
<1>11. AssemblyTrue(client.assembly, held) /\ Shown(client.view, held) /\ Awaits(client)
  BY <1>8 DEF NewClient, NoAssembly, AssemblyTrue, Shown, Awaits
<1>12. DeckOfView
  BY <1>8 DEF DeckOfView
<1>13. /\ client.pending = Empty /\ client.awaited = NoId
       /\ client.view = NoView /\ client.assembly = NoAssembly
  BY <1>8 DEF NewClient
<1>14. ClientTrue
  BY <1>8, <1>9, <1>10, <1>11, <1>12, <1>13 DEF ClientTrue
<1> QED
  BY <1>6, <1>7, <1>14 DEF CollectionInv

-----------------------------------------------------------------------------
(* The server's steps *)

LEMMA ServerLeaves ==
    ASSUME ClientTrue, UNCHANGED <<client, handed, connection>>, Extends(held', held)
    PROVE  ClientTrue'
<1>1. Shaped(client)' /\ IsFiniteSet(DOMAIN client.pending)' /\ Awaits(client)'
  BY DEF ClientTrue, Shaped, Awaits
<1>2. AssemblyTrue(client.assembly, held') /\ Shown(client.view, held')
  BY StillAssembled, StillShown DEF ClientTrue
<1>3. AssemblyTrue(client.assembly, held)' /\ Shown(client.view, held)'
  BY <1>2
<1>4. DeckOfView'
  BY DEF ClientTrue, DeckOfView, Extends
<1> QED
  BY <1>1, <1>3, <1>4 DEF ClientTrue

LEMMA PacketsLeft ==
    ASSUME PacketsTrue, UNCHANGED <<toServer, toClient, connection>>, Extends(held', held)
    PROVE  PacketsTrue'
<1>1. ASSUME NEW packet \in Range(toClient) PROVE PacketTrue(packet)'
  <2>1. PacketTrue(packet)
    BY DEF PacketsTrue
  <2>2. packet.connection = connection.generation => connection.up /\ Tells(packet.reply, held')
    BY <2>1, StillTells DEF PacketTrue
  <2> QED
    BY <2>1, <2>2 DEF PacketTrue
<1> QED
  BY <1>1 DEF PacketsTrue

LEMMA SameHeld == Extends(held, held) /\ (UNCHANGED held => Extends(held', held))
BY DEF Extends

LEMMA RejectedTells ==
    ASSUME NEW error, NEW revision, NEW h
    PROVE  Tells(Rejected(error, revision), h)
BY DEF Tells, Rejected

LEMMA AnswerSends ==
    ASSUME ServerTrue, PacketsTrue, toServer # <<>>, NEW reply, Answer(reply),
           Extends(held', held), Tells(reply, held')
    PROVE  PacketsTrue'
<1>0. PICK packet : packet = [connection |-> connection.generation, id |-> Pending.id, reply |-> reply]
  OBVIOUS
<1>1. UNCHANGED connection /\ toServer' = Tail(toServer)
  BY DEF Answer, netVars
<1>2. IsQueue(toServer') /\ Range(toServer') \subseteq Range(toServer)
  BY <1>1, Dequeued DEF PacketsTrue
<1>3. ASSUME NEW p \in Range(toClient) PROVE PacketTrue(p)'
  <2>1. PacketTrue(p)
    BY DEF PacketsTrue
  <2>2. p.connection = connection.generation => connection.up /\ Tells(p.reply, held')
    BY <2>1, StillTells DEF PacketTrue
  <2> QED
    BY <1>1, <2>1, <2>2 DEF PacketTrue
<1>4. CASE connection.up
  <2>1. toClient' = Append(toClient, packet)
    BY <1>0, <1>4 DEF Answer
  <2>2. packet.connection = connection.generation /\ packet.reply = reply
    BY <1>0
  <2>3. IsQueue(toClient') /\ Range(toClient') = Range(toClient) \cup {packet}
    BY <2>1, Enqueued DEF PacketsTrue
  <2>4. PacketTrue(packet)'
    BY <1>1, <1>4, <2>2 DEF PacketTrue, ServerTrue
  <2> QED
    BY <1>2, <1>3, <2>3, <2>4 DEF PacketsTrue
<1>5. CASE ~connection.up
  <2>1. UNCHANGED toClient
    BY <1>5 DEF Answer
  <2> QED
    BY <1>2, <1>3, <2>1 DEF PacketsTrue
<1> QED
  BY <1>4, <1>5

LEMMA RefuseKeeps ==
    ASSUME CollectionInv, online, toServer # <<>>, UNCHANGED <<client, handed>>,
           NEW reply, Refuse(reply), Tells(reply, held)
    PROVE  CollectionInv'
<1>1. UNCHANGED serverVars /\ Answer(reply) /\ UNCHANGED netVars
  BY DEF Refuse, Answer
<1>2. ServerTrue'
  BY <1>1 DEF CollectionInv, ServerTrue, serverVars, netVars
<1>3. UNCHANGED held /\ Extends(held', held) /\ Tells(reply, held')
  BY <1>1, SameHeld DEF serverVars
<1>4. PacketsTrue'
  BY <1>1, <1>3, AnswerSends DEF CollectionInv
<1>5. ClientTrue'
  BY <1>1, <1>3, ServerLeaves DEF CollectionInv, netVars
<1> QED
  BY <1>2, <1>4, <1>5 DEF CollectionInv

\* A new collection has a revision that nothing was held at before.
LEMMA HeldGrows ==
    ASSUME ServerTrue, online, UNCHANGED netVars,
           NEW new, new.revision = data.revision + 1, Listed(new),
           data' = new, held' = Put(held, new.revision, new),
           snapshot' # NoSnapshot => snapshot'.data = new
    PROVE  ServerTrue' /\ Extends(held', held)
<1>1. data.revision \in Nat /\ new.revision \in Nat
  BY DEF ServerTrue
<1>2. /\ DOMAIN held' = DOMAIN held \cup {new.revision} /\ held'[new.revision] = new
      /\ \A r \in DOMAIN held : r # new.revision => held'[r] = held[r]
  BY DEF Put
<1>3. \A r \in DOMAIN held : r \in Nat /\ r <= data.revision /\ r # new.revision
  BY <1>1 DEF ServerTrue
<1>4. Extends(held', held)
  BY <1>2, <1>3 DEF Extends
<1>5. \A r \in DOMAIN held' : r \in Nat /\ r <= new.revision
  BY <1>1, <1>2, <1>3
<1>6. Kept(held')
  BY <1>2, <1>3 DEF Kept, ServerTrue
<1>7. Kept(held)'
  BY <1>6
<1> QED
  BY <1>1, <1>2, <1>4, <1>5, <1>7 DEF ServerTrue, netVars

LEMMA PersistKeeps ==
    ASSUME CollectionInv, online, UNCHANGED <<client, handed, netVars>>,
           NEW new, new.revision = data.revision + 1, Listed(new), Persist(new)
    PROVE  ServerTrue' /\ ClientTrue' /\ Extends(held', held)
<1>1. ServerTrue' /\ Extends(held', held)
  BY HeldGrows DEF CollectionInv, Persist
<1>2. ClientTrue'
  BY <1>1, ServerLeaves DEF CollectionInv, netVars
<1> QED
  BY <1>1, <1>2

LEMMA BusyKeeps == ASSUME CollectionInv, RefuseBusy, UNCHANGED <<client, handed>> PROVE CollectionInv'
<1>1. /\ online /\ toServer # <<>> /\ Refuse(Rejected("BUSY", data.revision))
  BY DEF RefuseBusy
<1>2. Tells(Rejected("BUSY", data.revision), held)
  BY RejectedTells
<1> QED
  BY <1>1, <1>2, RefuseKeeps

\* What a change comes to is a refusal or the next collection.
Decided(outcome) ==
    \/ \E error : outcome = Rejected(error, data.revision)
    \/ outcome.revision = data.revision + 1 /\ Listed(outcome) /\ ~IsRejected(outcome)

LEMMA RejectedIs == ASSUME NEW error, NEW revision PROVE IsRejected(Rejected(error, revision))
BY DEF IsRejected, Rejected

LEMMA RevisedIs ==
    ASSUME NEW counts, NEW decks, NEW active, DOMAIN decks \subseteq Decks, IsMap(decks),
           \A deck \in DOMAIN decks : decks[deck] \in Contents
    PROVE  Decided(Revised(counts, decks, active))
<1> DEFINE new == Revised(counts, decks, active)
<1>1. new.revision = data.revision + 1 /\ new.decks = decks /\ ~IsRejected(new)
  BY DEF Revised, IsRejected
<1> QED
  BY <1>1 DEF Decided, Listed

LEMMA MutatedIs ==
    ASSUME ServerTrue, NEW command, Sound(command), command.op \in Mutations, NEW verdict
    PROVE  Decided(Mutated(command, verdict))
<1>1. /\ DOMAIN data.decks \subseteq Decks /\ IsMap(data.decks)
      /\ \A deck \in DOMAIN data.decks : data.decks[deck] \in Contents
  BY DEF ServerTrue, Kept, Listed
<1>2. \A error : Decided(Rejected(error, data.revision))
  BY DEF Decided
<1>3. Decided(Unavailable)
  BY <1>2 DEF Unavailable
<1>4. ASSUME NEW active, command.op = "save"
      PROVE  Decided(Revised(data.counts, Put(data.decks, command.deck, command.content), active))
  <2> DEFINE decks == Put(data.decks, command.deck, command.content)
  <2>1. /\ DOMAIN decks \subseteq Decks /\ IsMap(decks)
        /\ \A deck \in DOMAIN decks : decks[deck] \in Contents
    BY <1>1, <1>4 DEF Put, IsMap, Sound
  <2> HIDE DEF decks
  <2>2. Decided(Revised(data.counts, decks, active))
    BY <2>1, RevisedIs
  <2> QED
    BY <2>2 DEF decks
<1>5. ASSUME NEW active
      PROVE  Decided(Revised(data.counts, Restrict(data.decks, DOMAIN data.decks \ {command.deck}), active))
  <2> DEFINE decks == Restrict(data.decks, DOMAIN data.decks \ {command.deck})
  <2>1. /\ DOMAIN decks \subseteq Decks /\ IsMap(decks)
        /\ \A deck \in DOMAIN decks : decks[deck] \in Contents
    BY <1>1 DEF Restrict, IsMap
  <2> HIDE DEF decks
  <2>2. Decided(Revised(data.counts, decks, active))
    BY <2>1, RevisedIs
  <2> QED
    BY <2>2 DEF decks
<1>6. \A active : Decided(Revised(data.counts, data.decks, active))
  BY <1>1, RevisedIs
<1>7. CASE command.op = "save"
  BY <1>3, <1>4, <1>7 DEF Mutated
<1>8. CASE command.op = "delete"
  BY <1>2, <1>3, <1>5, <1>8 DEF Mutated, Deleted
<1>9. CASE command.op = "activate"
  BY <1>2, <1>3, <1>6, <1>9 DEF Mutated
<1>10. CASE command.op = "clearActive"
  BY <1>2, <1>3, <1>6, <1>10 DEF Mutated
<1> QED
  BY <1>7, <1>8, <1>9, <1>10 DEF Mutations

LEMMA ChangedTells ==
    ASSUME NEW new, NEW saved, NEW moved, NEW h
    PROVE  Tells(Changed(new, saved, moved), h)
BY DEF Tells, Changed

LEMMA CommandSound ==
    ASSUME PacketsTrue, toServer # <<>>
    PROVE  Sound(Command)
BY Dequeued DEF PacketsTrue, Command, Pending

LEMMA ChangeKeeps ==
    ASSUME CollectionInv, online, toServer # <<>>, UNCHANGED <<client, handed>>,
           NEW new, new.revision = data.revision + 1, Listed(new), Persist(new),
           NEW saved, NEW moved, Answer(Changed(new, saved, moved))
    PROVE  CollectionInv'
<1>1. UNCHANGED netVars
  BY DEF Answer
<1>2. ServerTrue' /\ ClientTrue' /\ Extends(held', held)
  BY <1>1, PersistKeeps
<1>3. Tells(Changed(new, saved, moved), held')
  BY ChangedTells
<1>4. PacketsTrue'
  BY <1>2, <1>3, AnswerSends DEF CollectionInv
<1> QED
  BY <1>2, <1>4 DEF CollectionInv

LEMMA MutationKeeps ==
    ASSUME CollectionInv, UNCHANGED <<client, handed>>, NEW verdict \in Verdicts, ServeMutation(verdict)
    PROVE  CollectionInv'
<1> DEFINE outcome == IF Command.expected # data.revision THEN Stale ELSE Mutated(Command, verdict)
<1>1. online /\ toServer # <<>> /\ Command.op \in Mutations
  BY DEF ServeMutation, Asked
<1>2. IF IsRejected(outcome) THEN Refuse(outcome)
      ELSE /\ Persist(outcome)
           /\ Answer(Changed(outcome, IF Command.op = "save" THEN Command.content ELSE "none", 0))
  BY DEF ServeMutation
<1>3. Decided(outcome)
  BY <1>1, MutatedIs, CommandSound DEF CollectionInv, Decided, Stale
<1> HIDE DEF outcome
<1>4. CASE IsRejected(outcome)
  <2>1. PICK error : outcome = Rejected(error, data.revision)
    BY <1>3, <1>4 DEF Decided
  <2>2. Tells(outcome, held)
    BY <2>1, RejectedTells
  <2> QED
    BY <1>1, <1>2, <1>4, <2>2, RefuseKeeps
<1>5. CASE ~IsRejected(outcome)
  <2>1. outcome.revision = data.revision + 1 /\ Listed(outcome)
    BY <1>3, <1>5, RejectedIs DEF Decided
  <2> DEFINE saved == IF Command.op = "save" THEN Command.content ELSE "none"
  <2>2. Persist(outcome) /\ Answer(Changed(outcome, saved, 0))
    BY <1>2, <1>5
  <2> HIDE DEF saved
  <2> QED
    BY <1>1, <2>1, <2>2, ChangeKeeps
<1> QED
  BY <1>4, <1>5

LEMMA TransferKeeps ==
    ASSUME CollectionInv, UNCHANGED <<client, handed>>, NEW verdict \in Verdicts, ServeTransfer(verdict)
    PROVE  CollectionInv'
<1> DEFINE outcome == IF Command.expected # data.revision THEN Stale ELSE Transferred(Command, verdict)
<1>1. online /\ toServer # <<>>
  BY DEF ServeTransfer, Asked
<1>2. IF IsRejected(outcome) THEN Refuse(outcome)
      ELSE Persist(outcome.data) /\ Answer(Changed(outcome.data, "none", outcome.plan.moved))
  BY DEF ServeTransfer
<1>3. \/ \E error : outcome = Rejected(error, data.revision)
      \/ /\ ~IsRejected(outcome)
         /\ outcome.data.revision = data.revision + 1 /\ outcome.data.decks = data.decks
  BY DEF Stale, Transferred, Unavailable, Revised, IsRejected
<1> HIDE DEF outcome
<1>4. CASE IsRejected(outcome)
  <2>1. CASE \E error : outcome = Rejected(error, data.revision)
    <3>1. PICK error : outcome = Rejected(error, data.revision)
      BY <2>1
    <3>2. Tells(outcome, held)
      BY <3>1, RejectedTells
    <3> QED
      BY <1>1, <1>2, <1>4, <3>2, RefuseKeeps
  <2> QED
    BY <1>3, <1>4, <2>1
<1>5. CASE ~IsRejected(outcome)
  <2>1. outcome.data.revision = data.revision + 1 /\ outcome.data.decks = data.decks
    BY <1>3, <1>5, RejectedIs
  <2>2. Listed(outcome.data)
    BY <2>1 DEF Listed, CollectionInv, ServerTrue, Kept
  <2>3. Persist(outcome.data) /\ Answer(Changed(outcome.data, "none", outcome.plan.moved))
    BY <1>2, <1>5
  <2> QED
    BY <1>1, <2>1, <2>2, <2>3, ChangeKeeps
<1> QED
  BY <1>4, <1>5

LEMMA OpenKeeps ==
    ASSUME CollectionInv, UNCHANGED <<client, handed>>, NEW verdict \in Verdicts, ServeOpen(verdict)
    PROVE  CollectionInv'
<1>1. online /\ toServer # <<>>
  BY DEF ServeOpen, Asked
<1>2. CASE data.active # NoDeck /\ verdict = "fails"
  <2>1. Refuse(Unavailable)
    BY <1>2 DEF ServeOpen
  <2>2. Tells(Unavailable, held)
    BY RejectedTells DEF Unavailable
  <2> QED
    BY <1>1, <2>1, <2>2, RefuseKeeps
<1>3. CASE ~(data.active # NoDeck /\ verdict = "fails")
  <2> DEFINE cleared == data.active # NoDeck /\ verdict = "ineligible"
             fresh == IF cleared THEN Revised(data.counts, data.decks, NoDeck) ELSE data
             id == FreshSnapshot(SnapshotsNamed)
  <2>1. /\ data' = fresh /\ held' = Put(held, fresh.revision, fresh)
        /\ snapshot' = [id |-> id, data |-> fresh, idle |-> FALSE]
        /\ Answer(Opened(id, fresh))
    BY <1>3 DEF ServeOpen
  <2>2. PICK new : new = fresh
    OBVIOUS
  <2>3. IF cleared THEN new.revision = data.revision + 1 /\ new.decks = data.decks ELSE new = data
    BY <2>2 DEF Revised
  <2>4. Listed(new) /\ Listed(data)
    BY <2>3 DEF Listed, CollectionInv, ServerTrue, Kept
  <2>5. data' = new /\ held' = Put(held, new.revision, new) /\ Answer(Opened(id, new))
    BY <2>1, <2>2
  <2>6. snapshot'.data = new /\ UNCHANGED netVars
    BY <2>1, <2>2 DEF Answer
  <2> HIDE DEF fresh
  <2>7. ServerTrue' /\ Extends(held', held)
    <3>1. CASE cleared
      BY <1>1, <2>3, <2>4, <2>5, <2>6, <3>1, HeldGrows DEF CollectionInv
    <3>2. CASE ~cleared
      <4>1. new = data /\ data.revision \in DOMAIN held /\ held[data.revision] = data
        BY <2>3, <3>2 DEF CollectionInv, ServerTrue
      <4>2. DOMAIN held' = DOMAIN held /\ \A r \in DOMAIN held : held'[r] = held[r]
        BY <2>5, <4>1 DEF Put
      <4>3. Extends(held', held) /\ Kept(held')
        BY <4>2 DEF Extends, Kept, CollectionInv, ServerTrue
      <4>4. Kept(held)'
        BY <4>3
      <4>5. UNCHANGED data /\ held'[data.revision] = data /\ data.revision \in DOMAIN held'
        BY <2>5, <4>1, <4>2
      <4> QED
        BY <1>1, <2>6, <4>1, <4>2, <4>3, <4>4, <4>5 DEF CollectionInv, ServerTrue, netVars
    <3> QED
      BY <3>1, <3>2
  <2> HIDE DEF cleared, id
  <2>8. new.revision \in DOMAIN held' /\ held'[new.revision] = new
    BY <2>5 DEF Put
  <2>9. Tells(Opened(id, new), held')
    <3>1. /\ Opened(id, new).op = "opened" /\ Opened(id, new).snapshot = id
          /\ Opened(id, new).revision = new.revision
      BY OpenedIs
    <3> QED
      BY <2>8, <3>1 DEF Tells
  <2>10. PacketsTrue'
    BY <1>1, <2>5, <2>7, <2>9, AnswerSends DEF CollectionInv
  <2>11. ClientTrue'
    BY <2>6, <2>7, ServerLeaves DEF CollectionInv, netVars
  <2> QED
    BY <2>7, <2>10, <2>11 DEF CollectionInv
<1> QED
  BY <1>2, <1>3

LEMMA PageKeeps == ASSUME CollectionInv, UNCHANGED <<client, handed>>, ServePage PROVE CollectionInv'
<1> DEFINE current == snapshot # NoSnapshot /\ snapshot.id = Command.snapshot
           d == snapshot.data
           entries == IF Command.kind = "COUNTS" THEN PageOf(Owned(d.counts), COUNT_PAGE, Command.index)
                      ELSE PageOf(d.decks, SUMMARY_PAGE, Command.index)
           fresh == current /\ ~snapshot.idle
           listed == Command.index \in 0..(PagesListed(d, Command.kind) - 1)
           page == [op |-> Command.kind, snapshot |-> snapshot.id, revision |-> d.revision,
                    index |-> Command.index, entries |-> entries]
           invalid == Rejected("INVALID", data.revision)
<1>1. online /\ toServer # <<>> /\ Command.op = "page"
  BY DEF ServePage, Asked
<1>2. CASE fresh /\ listed /\ d.revision = data.revision
  <2>1. Refuse(page)
    BY <1>2 DEF ServePage
  <2>2. d.revision \in DOMAIN held /\ held[d.revision] = d
    BY <1>2 DEF CollectionInv, ServerTrue
  <2>3. Command.kind \in {"COUNTS", "DECKS"}
    BY <1>1, CommandSound DEF CollectionInv, Sound
  <2>4. Tells(page, held)
    BY <2>2, <2>3 DEF Tells
  <2> HIDE DEF page
  <2> QED
    BY <1>1, <2>1, <2>4, RefuseKeeps
<1>3. CASE fresh => listed /\ d.revision # data.revision
  <2>1. Answer(Stale) /\ snapshot' \in {snapshot, NoSnapshot} /\ UNCHANGED <<data, slots, held>>
    BY <1>3 DEF ServePage
  <2>2. UNCHANGED netVars
    BY <2>1 DEF Answer
  <2>3. ServerTrue'
    BY <1>1, <2>1, <2>2 DEF CollectionInv, ServerTrue, netVars
  <2>4. Extends(held', held) /\ Tells(Stale, held')
    BY <2>1, SameHeld, RejectedTells DEF Stale
  <2>5. PacketsTrue'
    BY <1>1, <2>1, <2>4, AnswerSends DEF CollectionInv
  <2>6. ClientTrue'
    BY <2>2, <2>4, ServerLeaves DEF CollectionInv, netVars
  <2> QED
    BY <2>3, <2>5, <2>6 DEF CollectionInv
<1>4. CASE fresh /\ ~listed
  <2>1. Refuse(invalid)
    BY <1>4 DEF ServePage
  <2>2. Tells(invalid, held)
    BY RejectedTells
  <2> HIDE DEF invalid
  <2> QED
    BY <1>1, <2>1, <2>2, RefuseKeeps
<1> QED
  BY <1>2, <1>3, <1>4

LEMMA ReadKeeps == ASSUME CollectionInv, UNCHANGED <<client, handed>>, ServeRead PROVE CollectionInv'
<1> DEFINE found == [op |-> "deck", revision |-> data.revision, deck |-> Command.deck,
                     content |-> data.decks[Command.deck]]
           reply == IF Command.deck \in DOMAIN data.decks THEN found
                    ELSE Rejected("NOT_FOUND", data.revision)
<1>1. online /\ toServer # <<>> /\ Refuse(reply)
  BY DEF ServeRead, Asked
<1>2. data.revision \in DOMAIN held /\ held[data.revision] = data
  BY DEF CollectionInv, ServerTrue
<1>3. Command.deck \in DOMAIN data.decks => Tells(found, held)
  BY <1>2 DEF Tells
<1>4. Tells(reply, held)
  BY <1>3, RejectedTells
<1> HIDE DEF reply
<1> QED
  BY <1>1, <1>4, RefuseKeeps

LEMMA ElsewhereKeeps ==
    ASSUME CollectionInv, UNCHANGED <<client, handed>>, ClearedElsewhere PROVE CollectionInv'
<1> DEFINE new == Revised(data.counts, data.decks, NoDeck)
<1>1. /\ online /\ Persist(new) /\ UNCHANGED <<netVars, toServer, toClient>>
  BY DEF ClearedElsewhere
<1>2. new.revision = data.revision + 1 /\ Listed(new)
  BY DEF Revised, CollectionInv, ServerTrue, Kept, Listed
<1> HIDE DEF new
<1>3. ServerTrue' /\ ClientTrue' /\ Extends(held', held)
  BY <1>1, <1>2, PersistKeeps
<1>4. PacketsTrue'
  BY <1>1, <1>3, PacketsLeft DEF CollectionInv, netVars
<1> QED
  BY <1>3, <1>4 DEF CollectionInv

\* Steps of the server that leave the collection and the packets alone.
LEMMA QuietKeeps ==
    ASSUME CollectionInv, UNCHANGED <<client, handed>>,
           UNCHANGED <<data, held, netVars, toServer, toClient>>,
           snapshot' # NoSnapshot => snapshot # NoSnapshot /\ snapshot'.data = snapshot.data
    PROVE  CollectionInv'
<1>1. ServerTrue'
  BY DEF CollectionInv, ServerTrue, netVars
<1>2. Extends(held', held)
  BY SameHeld
<1>3. PacketsTrue'
  BY <1>2, PacketsLeft DEF CollectionInv, netVars
<1>4. ClientTrue'
  BY <1>2, ServerLeaves DEF CollectionInv, netVars
<1> QED
  BY <1>1, <1>3, <1>4 DEF CollectionInv

LEMMA LogoutKeeps ==
    ASSUME CollectionInv, UNCHANGED <<client, handed>>, Logout PROVE CollectionInv'
<1>1. /\ ~connection.up /\ ~online' /\ snapshot' = NoSnapshot /\ toServer' = <<>>
      /\ UNCHANGED <<data, held, connection, toClient>>
  BY DEF Logout
<1>2. ServerTrue'
  BY <1>1 DEF CollectionInv, ServerTrue
<1>3. Extends(held', held)
  BY <1>1, SameHeld
<1>4. PacketsTrue'
  <2>1. IsQueue(toServer)' /\ Range(toServer') = {}
    BY <1>1, EmptyQueue
  <2>2. \A packet \in Range(toClient) : PacketTrue(packet)'
    BY <1>1 DEF CollectionInv, PacketsTrue, PacketTrue
  <2> QED
    BY <1>1, <2>1, <2>2 DEF CollectionInv, PacketsTrue
<1>5. ClientTrue'
  BY <1>1, <1>3, ServerLeaves DEF CollectionInv
<1> QED
  BY <1>2, <1>4, <1>5 DEF CollectionInv

LEMMA ServerKeeps == ASSUME CollectionInv, ServerStep PROVE CollectionInv'
<1>0. UNCHANGED <<client, handed>>
  BY DEF ServerStep
<1>1. CASE Serve
  BY <1>0, <1>1, BusyKeeps, MutationKeeps, TransferKeeps, OpenKeeps, PageKeeps, ReadKeeps DEF Serve
<1>2. CASE ClearedElsewhere
  BY <1>0, <1>2, ElsewhereKeeps
<1>3. CASE IdlePasses
  <2>1. /\ UNCHANGED <<data, held, netVars, toServer, toClient>>
        /\ snapshot # NoSnapshot /\ snapshot' = [snapshot EXCEPT !.idle = TRUE]
    BY <1>3 DEF IdlePasses
  <2>2. snapshot'.data = snapshot.data
    BY <2>1
  <2> QED
    BY <1>0, <2>1, <2>2, QuietKeeps
<1>4. CASE Logout
  BY <1>0, <1>4, LogoutKeeps
<1>5. ASSUME NEW code \in Codes, NEW count \in Amounts, Grant(code, count) PROVE CollectionInv'
  <2>1. UNCHANGED <<data, snapshot, held, netVars, toServer, toClient>>
    BY <1>5 DEF Grant
  <2> QED
    BY <1>0, <2>1, QuietKeeps
<1> QED
  BY <1>1, <1>2, <1>3, <1>4, <1>5 DEF ServerStep

-----------------------------------------------------------------------------
(* The client's steps *)

LEMMA FreshIs ==
    ASSUME CollectionInv
    PROVE  FreshId \notin Named /\ FreshId \in Nat \ {0} /\ FreshId \notin DOMAIN client.pending
<1>1. /\ IsFiniteSet(DOMAIN client.pending) /\ IsQueue(toServer) /\ IsQueue(toClient)
  BY DEF CollectionInv, ClientTrue, PacketsTrue
<1>2. IsFiniteSet(Named)
  <2> DEFINE A == DOMAIN client.pending
             B == {toServer[i].id : i \in DOMAIN toServer}
             C == {toClient[i].id : i \in DOMAIN toClient}
  <2>1. IsFiniteSet(A) /\ IsFiniteSet(B) /\ IsFiniteSet(C)
    BY <1>1, FiniteIds
  <2> HIDE DEF A, B, C
  <2>2. IsFiniteSet(A \cup B)
    BY <2>1, FS_Union
  <2>3. IsFiniteSet((A \cup B) \cup C)
    BY <2>1, <2>2, FS_Union
  <2> QED
    BY <2>3 DEF Named, A, B, C
<1>3. Cardinality(Named) \in Nat
  BY <1>2, FS_CardinalityType
<1>4. \E id \in 1..(Cardinality(Named) + 1) : id \notin Named
  BY <1>2, FreeId
<1>5. FreshId \in 1..(Cardinality(Named) + 1) /\ FreshId \notin Named
  BY <1>4 DEF FreshId
<1>6. FreshId \in Nat \ {0}
  BY <1>3, <1>5
<1> QED
  BY <1>5, <1>6 DEF Named

\* A step of the client makes one request at most.
LEMMA StepSends ==
    ASSUME IsQueue(toServer), NEW c, ClientStep(c), NEW id,
           DOMAIN c.pending \subseteq DOMAIN client.pending \cup {id}
    PROVE  /\ client' = c
           /\ IF id \in DOMAIN c.pending \ DOMAIN client.pending
              THEN toServer' = Append(toServer, [id |-> id, command |-> c.pending[id]])
              ELSE UNCHANGED toServer
<1> DEFINE new == DOMAIN c.pending \ DOMAIN client.pending
           sent == {[id |-> i, command |-> c.pending[i]] : i \in new}
<1>1. client' = c /\ toServer' = toServer \o SetToSeq(sent)
  BY DEF ClientStep
<1>2. CASE id \in new
  <2>1. new = {id}
    BY <1>2
  <2> DEFINE e == [id |-> id, command |-> c.pending[id]]
  <2>2. sent = {e}
    BY <2>1
  <2> HIDE DEF e, new, sent
  <2>3. SetToSeq(sent) = <<e>>
    BY <2>2, SeqOfOne
  <2>4. toServer \o <<e>> = Append(toServer, e)
    BY DEF IsQueue
  <2> QED
    BY <1>1, <1>2, <2>3, <2>4 DEF e, new
<1>3. CASE id \notin new
  <2>1. sent = {}
    BY <1>3
  <2> HIDE DEF new, sent
  <2>2. SetToSeq(sent) = <<>>
    BY <2>1, SeqOfNone
  <2>3. toServer \o <<>> = toServer
    BY DEF IsQueue
  <2> QED
    BY <1>1, <1>3, <2>2, <2>3 DEF new
<1> QED
  BY <1>2, <1>3

\* What the client becomes, with one identity for the next request.
Ready(c, id, h) ==
    /\ Shaped(c) /\ AssemblyTrue(c.assembly, h) /\ Shown(c.view, h) /\ Awaits(c)
    /\ DOMAIN c.pending \subseteq DOMAIN client.pending \cup {id}
    /\ id \in DOMAIN c.pending => Sound(c.pending[id])

LEMMA ClientKeeps ==
    ASSUME CollectionInv, connection.up, UNCHANGED <<serverVars, netVars>>,
           NEW c, ClientStep(c), NEW id, Ready(c, id, held), id \notin DOMAIN client.pending \cup {NoId},
           IsQueue(toClient'), Range(toClient') \subseteq Range(toClient), DeckOfView'
    PROVE  CollectionInv'
<1>1. /\ client' = c
      /\ IF id \in DOMAIN c.pending \ DOMAIN client.pending
         THEN toServer' = Append(toServer, [id |-> id, command |-> c.pending[id]])
         ELSE UNCHANGED toServer
  BY StepSends DEF CollectionInv, PacketsTrue, Ready
<1>2. IsQueue(toServer') /\ \A request \in Range(toServer') : Sound(request.command)
  <2>1. CASE id \in DOMAIN c.pending \ DOMAIN client.pending
    <3> DEFINE e == [id |-> id, command |-> c.pending[id]]
    <3>1. Sound(e.command)
      BY <2>1 DEF Ready
    <3>2. toServer' = Append(toServer, e)
      BY <1>1, <2>1
    <3> HIDE DEF e
    <3>3. IsQueue(toServer') /\ Range(toServer') = Range(toServer) \cup {e}
      BY <3>2, Enqueued DEF CollectionInv, PacketsTrue
    <3> QED
      BY <3>1, <3>3 DEF CollectionInv, PacketsTrue
  <2>2. CASE id \notin DOMAIN c.pending \ DOMAIN client.pending
    BY <1>1, <2>2 DEF CollectionInv, PacketsTrue
  <2> QED
    BY <2>1, <2>2
<1>3. ServerTrue'
  BY DEF CollectionInv, ServerTrue, serverVars, netVars
<1>4. ASSUME NEW packet \in Range(toClient') PROVE PacketTrue(packet)'
  BY <1>4 DEF CollectionInv, PacketsTrue, PacketTrue, serverVars, netVars
<1>5. PacketsTrue'
  BY <1>2, <1>4 DEF PacketsTrue
<1>6. IsFiniteSet(DOMAIN c.pending)
  <2>1. IsFiniteSet(DOMAIN client.pending \cup {id})
    BY FS_AddElement DEF CollectionInv, ClientTrue
  <2>2. DOMAIN c.pending \in SUBSET (DOMAIN client.pending \cup {id})
    BY DEF Ready
  <2> QED
    BY <2>1, <2>2, FS_Subset
<1>7. /\ Shaped(client') /\ IsFiniteSet(DOMAIN client'.pending) /\ Awaits(client')
      /\ NoId \notin DOMAIN client'.pending
      /\ AssemblyTrue(client'.assembly, held) /\ Shown(client'.view, held)
  BY <1>1, <1>6 DEF CollectionInv, ClientTrue, Ready
<1>8. /\ Shaped(client)' /\ IsFiniteSet(DOMAIN client.pending)' /\ Awaits(client)'
      /\ AssemblyTrue(client.assembly, held)' /\ Shown(client.view, held)'
      /\ (NoId \notin DOMAIN client.pending)'
  BY <1>7 DEF serverVars
<1>9. ClientTrue'
  BY <1>8 DEF ClientTrue, netVars
<1> QED
  BY <1>3, <1>5, <1>9 DEF CollectionInv

LEMMA DeckStays ==
    ASSUME CollectionInv, UNCHANGED <<serverVars, handed>>
    PROVE  DeckOfView'
BY DEF CollectionInv, ClientTrue, DeckOfView, serverVars

LEMMA AskReady ==
    ASSUME CollectionInv, NEW id, id \notin DOMAIN client.pending, NEW command, Sound(command)
    PROVE  Ready(Ask(client, id, command), id, held)
<1> DEFINE d == Ask(client, id, command)
<1>1. /\ Shaped(client) /\ AssemblyTrue(client.assembly, held) /\ Shown(client.view, held)
      /\ Awaits(client)
  BY DEF CollectionInv, ClientTrue
<1>2. /\ Shaped(d) /\ d.pending = Put(client.pending, id, command)
      /\ d.awaited = client.awaited /\ d.view = client.view /\ d.assembly = client.assembly
  BY <1>1, AskIs
<1> HIDE DEF d
<1>3. /\ DOMAIN d.pending = DOMAIN client.pending \cup {id} /\ d.pending[id] = command
      /\ \A i \in DOMAIN client.pending : d.pending[i] = client.pending[i]
  BY <1>2 DEF Put
<1>4. Awaits(d)
  BY <1>1, <1>2, <1>3 DEF Awaits
<1>5. Ready(d, id, held)
  BY <1>1, <1>2, <1>3, <1>4 DEF Ready
<1> QED
  BY <1>5 DEF d

\* A client whose refresh, if any, awaits a request.
LEMMA RefreshIs ==
    ASSUME NEW c, Shaped(c), NEW id, NEW h, AssemblyTrue(c.assembly, h), Awaits(c),
           id \notin DOMAIN c.pending
    PROVE  LET d == Refresh(c, id)
           IN /\ Shaped(d) /\ AssemblyTrue(d.assembly, h) /\ Awaits(d) /\ d.view = c.view
              /\ d.requiredRevision = c.requiredRevision
              /\ \/ d = c
                 \/ /\ d.awaited = id /\ d.assembly = NoAssembly
                    /\ d.refreshingRevision = c.requiredRevision
                    /\ d.pending = Put(c.pending, id, Open)
<1>1. CASE c.awaited # NoId /\ c.refreshingRevision >= c.requiredRevision
  <2>1. Refresh(c, id) = c
    BY <1>1 DEF Refresh
  <2> QED
    BY <2>1
<1>2. CASE ~(c.awaited # NoId /\ c.refreshingRevision >= c.requiredRevision)
  <2> DEFINE b == [c EXCEPT !.awaited = id, !.refreshingRevision = c.requiredRevision]
             e == DiscardPending(b)
             d == Ask(e, id, Open)
  <2>1. Refresh(c, id) = d
    BY <1>2 DEF Refresh
  <2>2. /\ Shaped(b) /\ b.awaited = id /\ b.refreshingRevision = c.requiredRevision
        /\ b.pending = c.pending /\ b.view = c.view /\ b.requiredRevision = c.requiredRevision
    BY DEF Shaped, Fields
  <2> HIDE DEF b
  <2>3. /\ Shaped(e) /\ e.assembly = NoAssembly
        /\ e.pending = b.pending /\ e.awaited = b.awaited /\ e.view = b.view
        /\ e.requiredRevision = b.requiredRevision /\ e.refreshingRevision = b.refreshingRevision
    BY <2>2, DiscardIs
  <2> HIDE DEF e
  <2>4. /\ Shaped(d) /\ d.pending = Put(e.pending, id, Open)
        /\ d.awaited = e.awaited /\ d.view = e.view /\ d.assembly = e.assembly
        /\ d.requiredRevision = e.requiredRevision /\ d.refreshingRevision = e.refreshingRevision
    BY <2>3, AskIs
  <2> HIDE DEF d
  <2>5. id \in DOMAIN d.pending /\ d.pending[id] = Open
    BY <2>4 DEF Put
  <2>6. NoAssembly.opened = NoHeader
    BY DEF NoAssembly
  <2>7. Awaits(d) /\ AssemblyTrue(d.assembly, h)
    BY <2>2, <2>3, <2>4, <2>5, <2>6 DEF Awaits, AssemblyTrue
  <2> QED
    BY <2>1, <2>2, <2>3, <2>4, <2>7
<1> QED
  BY <1>1, <1>2

LEMMA PullPageIs ==
    ASSUME NEW c, Shaped(c), NEW id, NEW h, AssemblyTrue(c.assembly, h)
    PROVE  LET d == PullPage(c, id)
           IN /\ Shaped(d) /\ d.assembly = c.assembly /\ Awaits(d) /\ d.view = c.view
              /\ d.requiredRevision = c.requiredRevision
              /\ d.refreshingRevision = c.refreshingRevision
              /\ IF NextPage(c.assembly) = NoPage THEN d.awaited = NoId /\ d.pending = c.pending
                 ELSE d.awaited = id /\ d.pending = Put(c.pending, id, NextPage(c.assembly))
<1> DEFINE page == NextPage(c.assembly)
<1>1. CASE page = NoPage
  <2>1. PullPage(c, id) = [c EXCEPT !.awaited = NoId]
    BY <1>1 DEF PullPage
  <2> DEFINE d == [c EXCEPT !.awaited = NoId]
  <2>2. /\ Shaped(d) /\ d.awaited = NoId
        /\ d.pending = c.pending /\ d.view = c.view /\ d.assembly = c.assembly
        /\ d.requiredRevision = c.requiredRevision /\ d.refreshingRevision = c.refreshingRevision
    BY AwaitIs
  <2> HIDE DEF d
  <2>3. Awaits(d)
    BY <2>2 DEF Awaits
  <2> QED
    BY <1>1, <2>1, <2>2, <2>3 DEF d
<1>2. CASE page # NoPage
  <2> DEFINE b == [c EXCEPT !.awaited = id]
             d == Ask(b, id, page)
  <2>1. PullPage(c, id) = d
    BY <1>2 DEF PullPage
  <2>2. /\ Shaped(b) /\ b.awaited = id
        /\ b.pending = c.pending /\ b.view = c.view /\ b.assembly = c.assembly
        /\ b.requiredRevision = c.requiredRevision /\ b.refreshingRevision = c.refreshingRevision
    BY AwaitIs
  <2> HIDE DEF b, page
  <2>3. /\ Shaped(d) /\ d.pending = Put(b.pending, id, page)
        /\ d.awaited = b.awaited /\ d.view = b.view /\ d.assembly = b.assembly
        /\ d.requiredRevision = b.requiredRevision /\ d.refreshingRevision = b.refreshingRevision
    BY <2>2, AskIs
  <2> HIDE DEF d
  <2>4. id \in DOMAIN d.pending /\ d.pending[id] = page
    BY <2>3 DEF Put
  <2>5. c.assembly.opened # NoHeader
    BY <1>2 DEF page, NextPage
  <2>6. Awaits(d)
    BY <2>2, <2>3, <2>4, <2>5 DEF Awaits, page
  <2> QED
    BY <1>2, <2>1, <2>2, <2>3, <2>6 DEF page
<1> QED
  BY <1>1, <1>2

\* A page asked for is of one of the two kinds.
LEMMA NextPageSound == ASSUME NEW a PROVE Sound(NextPage(a))
<1>1. CASE a.opened = NoHeader
  BY <1>1 DEF NextPage, NoPage, Sound, Transfers
<1>2. CASE a.opened # NoHeader
  <2>1. Sound(NoPage)
    BY DEF NoPage, Sound, Transfers
  <2> QED
    BY <1>2, <2>1, NextPageIs, PageCommandIs DEF Sound, Transfers
<1> QED
  BY <1>1, <1>2

LEMMA OpenIs == Sound(Open) /\ Open.op = "open"
BY DEF Sound, Open, Transfers

\* The refresh goes on with what it got.
LEMMA PullReady ==
    ASSUME NEW c, Shaped(c), AssemblyTrue(c.assembly, held), Shown(c.view, held), NEW id,
           id \notin DOMAIN client.pending, DOMAIN c.pending \subseteq DOMAIN client.pending
    PROVE  Ready(PullPage(c, id), id, held)
<1> DEFINE d == PullPage(c, id)
           page == NextPage(c.assembly)
<1>1. /\ Shaped(d) /\ d.assembly = c.assembly /\ Awaits(d) /\ d.view = c.view
      /\ IF page = NoPage THEN d.awaited = NoId /\ d.pending = c.pending
         ELSE d.awaited = id /\ d.pending = Put(c.pending, id, page)
  BY PullPageIs
<1>2. Sound(page)
  BY NextPageSound
<1> HIDE DEF d, page
<1>3. /\ DOMAIN d.pending \subseteq DOMAIN client.pending \cup {id}
      /\ id \in DOMAIN d.pending => Sound(d.pending[id])
  <2>1. CASE page = NoPage
    BY <1>1, <2>1
  <2>2. CASE page # NoPage
    <3>1. DOMAIN d.pending = DOMAIN c.pending \cup {id} /\ d.pending[id] = page
      BY <1>1, <2>2 DEF Put
    <3> QED
      BY <1>2, <3>1
  <2> QED
    BY <2>1, <2>2
<1>4. Ready(d, id, held)
  BY <1>1, <1>3 DEF Ready
<1> QED
  BY <1>4 DEF d

LEMMA FailReady ==
    ASSUME NEW c, Shaped(c), Shown(c.view, held), NEW id,
           id \notin DOMAIN client.pending, DOMAIN c.pending \subseteq DOMAIN client.pending
    PROVE  Ready(FinishFailed(c), id, held)
<1> DEFINE d == FinishFailed(c)
<1>1. /\ Shaped(d) /\ d.awaited = NoId /\ d.assembly = NoAssembly
      /\ d.pending = c.pending /\ d.view = c.view
  BY FinishIs
<1> HIDE DEF d
<1>2. Awaits(d) /\ AssemblyTrue(NoAssembly, held)
  BY <1>1 DEF Awaits, AssemblyTrue, NoAssembly
<1>3. Ready(d, id, held)
  BY <1>1, <1>2 DEF Ready
<1> QED
  BY <1>3 DEF d

LEMMA PulledReady ==
    ASSUME CollectionInv, NEW c, Shaped(c), c.assembly = client.assembly, c.view = client.view,
           NEW id, id \notin DOMAIN client.pending, DOMAIN c.pending \subseteq DOMAIN client.pending,
           NEW command, NEW reply, Tells(reply, held), Matches(command, reply),
           command = IF client.assembly.opened = NoHeader THEN Open ELSE NextPage(client.assembly)
    PROVE  Ready(Pulled(c, command, reply, id), id, held)
<1>1. AssemblyTrue(c.assembly, held) /\ Shown(c.view, held) /\ Kept(held)
  BY DEF CollectionInv, ClientTrue, ServerTrue
<1>2. Ready(FinishFailed(c), id, held)
  BY <1>1, FailReady
<1>3. CASE reply.op # "rejected" /\ command = Open
  <2>1. reply.op = "opened"
    BY <1>3, OpenIs DEF Matches, Mutations, Transfers
  <2>2. PICK b : b = [c EXCEPT !.refreshingRevision = reply.revision]
    OBVIOUS
  <2>3. Shaped(b) /\ b.view = c.view /\ b.pending = c.pending
    BY <2>2 DEF Shaped, Fields
  <2>4. Shown(b.view, held)
    BY <1>1, <2>3
  <2> DEFINE e == Begin(b, reply)
  <2>5. Pulled(c, command, reply, id) \in {FinishFailed(c), PullPage(e, id)}
    BY <1>3, <2>2 DEF Pulled
  <2>6. Kept(held) /\ Shaped(b) /\ Shown(b.view, held) /\ reply.op = "opened" /\ Tells(reply, held)
    BY <1>1, <2>1, <2>3, <2>4
  <2>7. Shaped(e) /\ AssemblyTrue(e.assembly, held) /\ Shown(e.view, held) /\ e.pending = b.pending
    <3> DEFINE D(d) ==
                 /\ Shaped(d) /\ AssemblyTrue(d.assembly, held) /\ Shown(d.view, held)
                 /\ d.pending = b.pending /\ d.awaited = b.awaited
                 /\ d.requiredRevision = b.requiredRevision
                 /\ d.refreshingRevision = b.refreshingRevision
                 /\ IF d.assembly = NoAssembly THEN d.view.revision = reply.revision
                    ELSE d.assembly = [NoAssembly EXCEPT !.opened = reply]
    <3>1. D(e)
      BY ONLY <2>6, BeginIs
    <3> QED
      BY <3>1
  <2> HIDE DEF e
  <2>8. Ready(PullPage(e, id), id, held)
    BY <2>3, <2>7, PullReady
  <2> QED
    BY <1>2, <2>5, <2>8
<1>4. CASE reply.op # "rejected" /\ command # Open
  <2> DEFINE e == Accept(c, reply)
  <2>1. \/ Pulled(c, command, reply, id) = FinishFailed(c)
        \/ Accepts(c.assembly, reply) /\ Pulled(c, command, reply, id) = PullPage(e, id)
    BY <1>4 DEF Pulled
  <2>2. CASE Accepts(c.assembly, reply) /\ Pulled(c, command, reply, id) = PullPage(e, id)
    <3>1. c.assembly.opened # NoHeader /\ Assembled(c.assembly, held)
      BY <1>1, <1>4 DEF AssemblyTrue
    <3>2. Shaped(e) /\ AssemblyTrue(e.assembly, held) /\ Shown(e.view, held) /\ e.pending = c.pending
      BY <1>1, <2>2, <3>1, AcceptIs
    <3> HIDE DEF e
    <3>3. Ready(PullPage(e, id), id, held)
      BY <3>2, PullReady
    <3> QED
      BY <2>2, <3>3
  <2> QED
    BY <1>2, <2>1, <2>2
<1>5. CASE reply.op = "rejected"
  <2>1. Pulled(c, command, reply, id) = FinishFailed(c)
    BY <1>5 DEF Pulled
  <2> QED
    BY <1>2, <2>1
<1> QED
  BY <1>3, <1>4, <1>5

\* The client without a request that was not the refresh's.
LEMMA OthersReady ==
    ASSUME CollectionInv, NEW c, Shaped(c), c.assembly = client.assembly, c.view = client.view,
           c.awaited = client.awaited, NEW old, client.awaited # old,
           c.pending = Restrict(client.pending, DOMAIN client.pending \ {old}),
           NEW id, id \notin DOMAIN client.pending
    PROVE  /\ Awaits(c) /\ Ready(c, id, held) /\ Ready(Refresh(c, id), id, held)
<1>1. AssemblyTrue(c.assembly, held) /\ Shown(c.view, held) /\ Awaits(client)
  BY DEF CollectionInv, ClientTrue
<1>2. /\ DOMAIN c.pending = DOMAIN client.pending \ {old}
      /\ \A i \in DOMAIN c.pending : c.pending[i] = client.pending[i]
  BY DEF Restrict
<1>3. Awaits(c)
  BY <1>1, <1>2 DEF Awaits
<1>4. Ready(c, id, held)
  BY <1>1, <1>2, <1>3 DEF Ready
<1> DEFINE d == Refresh(c, id)
<1>5. /\ Shaped(d) /\ AssemblyTrue(d.assembly, held) /\ Awaits(d) /\ d.view = c.view
      /\ \/ d = c
         \/ d.pending = Put(c.pending, id, Open)
  BY <1>1, <1>2, <1>3, RefreshIs
<1> HIDE DEF d
<1>6. Ready(d, id, held)
  <2>1. CASE d = c
    BY <1>4, <2>1
  <2>2. CASE d.pending = Put(c.pending, id, Open)
    <3>1. DOMAIN d.pending = DOMAIN c.pending \cup {id} /\ d.pending[id] = Open
      BY <2>2 DEF Put
    <3> QED
      BY <1>1, <1>2, <1>5, <3>1, OpenIs DEF Ready
  <2> QED
    BY <1>5, <2>1, <2>2
<1> QED
  BY <1>3, <1>4, <1>6 DEF d

LEMMA FreshNow ==
    ASSUME CollectionInv
    PROVE  FreshId \notin DOMAIN client.pending /\ FreshId \notin DOMAIN client.pending \cup {NoId}
BY FreshIs DEF NoId

\* Whatever completes a request, the client becomes ready for the next.
LEMMA CompleteSteps ==
    ASSUME CollectionInv, UNCHANGED <<serverVars, netVars>>,
           NEW id \in DOMAIN client.pending, NEW reply, Tells(reply, held), Complete(id, reply)
    PROVE  DeckOfView' /\ \E d : ClientStep(d) /\ Ready(d, FreshId, held)
<1> DEFINE command == client.pending[id]
           f == Forget(id)
           c == Learn(f, reply)
           reads == command.op = "read" /\ reply.op = "deck"
<1>0. PICK new : new = FreshId
  OBVIOUS
<1>1. new \notin DOMAIN client.pending
  BY <1>0, FreshIs
<1>2. Shaped(client) /\ Shown(client.view, held) /\ Awaits(client)
  BY DEF CollectionInv, ClientTrue
<1>3. /\ Shaped(f) /\ f.pending = Restrict(client.pending, DOMAIN client.pending \ {id})
      /\ f.awaited = client.awaited /\ f.view = client.view /\ f.assembly = client.assembly
  BY <1>2, ForgetIs
<1>4. /\ ~Matches(command, reply) =>
           ClientStep(IF id = client.awaited THEN FinishFailed(f) ELSE f) /\ UNCHANGED handed
      /\ Matches(command, reply) /\ id = client.awaited =>
           ClientStep(Pulled(c, command, reply, new)) /\ UNCHANGED handed
      /\ Matches(command, reply) /\ id # client.awaited /\ reads /\ DeckFits(c, command, reply) =>
           /\ ClientStep(c)
           /\ handed' = [revision |-> c.view.revision, deck |-> command.deck, content |-> reply.content]
      /\ Matches(command, reply) /\ id # client.awaited /\ ~(reads /\ DeckFits(c, command, reply)) =>
           ClientStep(IF reads THEN Refresh(c, new) ELSE c) /\ UNCHANGED handed
  BY <1>0 DEF Complete
<1> HIDE DEF f
<1>5. /\ Shaped(c) /\ c.pending = f.pending /\ c.awaited = f.awaited /\ c.view = f.view
      /\ c.assembly = f.assembly
  BY <1>3, LearnIs
<1> HIDE DEF c
<1>6. DOMAIN f.pending \subseteq DOMAIN client.pending
  BY <1>3 DEF Restrict
<1>7. UNCHANGED handed => DeckOfView'
  BY DeckStays
<1>8. CASE ~Matches(command, reply)
  <2>1. CASE id = client.awaited
    <3>1. Ready(FinishFailed(f), new, held)
      BY <1>1, <1>2, <1>3, <1>6, FailReady
    <3> QED
      BY <1>0, <1>4, <1>7, <1>8, <2>1, <3>1
  <2>2. CASE id # client.awaited
    <3>1. Ready(f, new, held)
      BY <1>1, <1>3, <2>2, OthersReady
    <3> QED
      BY <1>0, <1>4, <1>7, <1>8, <2>2, <3>1
  <2> QED
    BY <2>1, <2>2
<1>9. CASE Matches(command, reply) /\ id = client.awaited
  <2>1. client.awaited # NoId
    BY <1>9 DEF CollectionInv, ClientTrue
  <2>2. command = IF client.assembly.opened = NoHeader THEN Open ELSE NextPage(client.assembly)
    BY <1>2, <1>9, <2>1 DEF Awaits
  <2> HIDE DEF command
  <2>3. Ready(Pulled(c, command, reply, new), new, held)
    BY <1>1, <1>3, <1>5, <1>6, <1>9, <2>2, PulledReady
  <2> QED
    BY <1>0, <1>4, <1>7, <1>9, <2>3
<1>10. CASE Matches(command, reply) /\ id # client.awaited
  <2>1. Ready(c, new, held) /\ Ready(Refresh(c, new), new, held)
    BY <1>1, <1>3, <1>5, <1>10, OthersReady
  <2>2. CASE reads /\ DeckFits(c, command, reply)
    <3>1. DeckOfView'
      <4>1. /\ c.view.revision = reply.revision /\ command.deck = reply.deck
            /\ handed' = [revision |-> c.view.revision, deck |-> command.deck, content |-> reply.content]
        BY <1>4, <1>10, <2>2 DEF DeckFits
      <4>2. /\ reply.revision \in DOMAIN held /\ reply.deck \in DOMAIN held[reply.revision].decks
            /\ reply.content = held[reply.revision].decks[reply.deck]
        BY <2>2 DEF Tells
      <4>3. handed'.revision = reply.revision /\ handed'.deck = reply.deck
            /\ handed'.content = reply.content
        BY <4>1
      <4> QED
        BY <4>2, <4>3 DEF DeckOfView, serverVars
    <3> QED
      BY <1>0, <1>4, <1>10, <2>1, <2>2, <3>1
  <2>3. CASE ~(reads /\ DeckFits(c, command, reply))
    BY <1>0, <1>4, <1>7, <1>10, <2>1, <2>3
  <2> QED
    BY <2>2, <2>3
<1> QED
  BY <1>8, <1>9, <1>10

LEMMA CompleteKeeps ==
    ASSUME CollectionInv, connection.up, UNCHANGED <<serverVars, netVars>>,
           IsQueue(toClient'), Range(toClient') \subseteq Range(toClient),
           NEW id \in DOMAIN client.pending, NEW reply, Tells(reply, held), Complete(id, reply)
    PROVE  CollectionInv'
<1>1. PICK new : new = FreshId
  OBVIOUS
<1>2. PICK d : ClientStep(d) /\ Ready(d, new, held)
  BY <1>1, CompleteSteps
<1>3. DeckOfView'
  BY CompleteSteps
<1>4. new \notin DOMAIN client.pending \cup {NoId}
  BY <1>1, FreshNow
<1> QED
  BY <1>2, <1>3, <1>4, ClientKeeps

LEMMA RequestKeeps ==
    ASSUME CollectionInv, NEW command, Sound(command), Request(command)
    PROVE  CollectionInv'
<1>0. PICK new : new = FreshId
  OBVIOUS
<1>1. /\ connection.up /\ ClientStep(Ask(client, new, command))
      /\ UNCHANGED <<serverVars, netVars>> /\ UNCHANGED toClient /\ UNCHANGED handed
  BY <1>0 DEF Request
<1>2. new \notin DOMAIN client.pending /\ new \notin DOMAIN client.pending \cup {NoId}
  BY <1>0, FreshNow
<1>3. Ready(Ask(client, new, command), new, held)
  BY <1>2, AskReady
<1>4. IsQueue(toClient') /\ Range(toClient') \subseteq Range(toClient)
  BY <1>1 DEF CollectionInv, PacketsTrue
<1>5. DeckOfView'
  BY <1>1, DeckStays
<1> QED
  BY <1>1, <1>2, <1>3, <1>4, <1>5, ClientKeeps

\* What a player asks for is a list or a change.
LEMMA CommandsAre ==
    ASSUME Edit \/ Move \/ \E deck \in Decks : ReadDeck(deck)
    PROVE  \E command : Request(command) /\ Sound(command) /\ command.op # "open"
<1> DEFINE Other(command) == Sound(command) /\ command.op # "open"
<1>1. CASE \E deck \in Decks : ReadDeck(deck)
  <2>1. PICK deck \in Decks : ReadDeck(deck)
    BY <1>1
  <2>2. Other([op |-> "read", deck |-> deck])
    BY DEF Sound, Transfers
  <2> QED
    BY <2>1, <2>2 DEF ReadDeck
<1>2. CASE Edit
  <2>1. PICK expected \in Expected, deck \in Decks, content \in Contents :
          \/ Change([op |-> "save", expected |-> expected, deck |-> deck, content |-> content])
          \/ \E op \in {"delete", "activate"} :
               Change([op |-> op, expected |-> expected, deck |-> deck])
          \/ Change([op |-> "clearActive", expected |-> expected])
    BY <1>2 DEF Edit
  <2>2. Other([op |-> "save", expected |-> expected, deck |-> deck, content |-> content])
    BY DEF Sound, Transfers
  <2>3. \A op \in {"delete", "activate"} : Other([op |-> op, expected |-> expected, deck |-> deck])
    BY DEF Sound, Transfers
  <2>4. Other([op |-> "clearActive", expected |-> expected])
    BY DEF Sound, Transfers
  <2> QED
    BY <2>1, <2>2, <2>3, <2>4 DEF Change
<1>3. CASE Move
  <2>1. PICK expected \in Expected, code \in Codes, amount \in Amounts \cap 1..MAX_AMOUNT :
          \/ \E op \in {"DEPOSIT", "WITHDRAW"} :
               Change([op |-> op, expected |-> expected, code |-> code, amount |-> amount])
          \/ Change([op |-> "DEPOSIT_ALL", expected |-> expected, code |-> NoCard, amount |-> 0])
    BY <1>3 DEF Move
  <2>0. amount \in Nat
    BY SlotAssumption
  <2>2. \A op \in {"DEPOSIT", "WITHDRAW"} :
          Other([op |-> op, expected |-> expected, code |-> code, amount |-> amount])
    BY <2>0 DEF Sound, Transfers
  <2>3. Other([op |-> "DEPOSIT_ALL", expected |-> expected, code |-> NoCard, amount |-> 0])
    BY DEF Sound, Transfers
  <2> QED
    BY <2>1, <2>2, <2>3 DEF Change
<1> QED
  BY <1>1, <1>2, <1>3

LEMMA DeckRequestsKeep ==
    ASSUME CollectionInv, Edit \/ Move \/ \E deck \in Decks : ReadDeck(deck)
    PROVE  CollectionInv'
BY CommandsAre, RequestKeeps

LEMMA WantReady ==
    ASSUME CollectionInv, NEW new, new \notin DOMAIN client.pending
    PROVE  Ready(Refresh(client, new), new, held)
<1>1. /\ Shaped(client) /\ AssemblyTrue(client.assembly, held) /\ Shown(client.view, held)
      /\ Awaits(client)
  BY DEF CollectionInv, ClientTrue
<1> DEFINE d == Refresh(client, new)
<1>2. /\ Shaped(d) /\ AssemblyTrue(d.assembly, held) /\ Awaits(d) /\ d.view = client.view
      /\ d = client \/ d.pending = Put(client.pending, new, Open)
  BY <1>1, RefreshIs
<1> HIDE DEF d
<1>3. /\ DOMAIN d.pending \subseteq DOMAIN client.pending \cup {new}
      /\ new \in DOMAIN d.pending => Sound(d.pending[new])
  <2>1. CASE d = client
    BY <2>1
  <2>2. CASE d.pending = Put(client.pending, new, Open)
    <3>1. DOMAIN d.pending = DOMAIN client.pending \cup {new} /\ d.pending[new] = Open
      BY <2>2 DEF Put
    <3> QED
      BY <3>1, OpenIs
  <2> QED
    BY <1>2, <2>1, <2>2
<1>4. Ready(d, new, held)
  BY <1>1, <1>2, <1>3 DEF Ready
<1> QED
  BY <1>4 DEF d

LEMMA WantViewKeeps == ASSUME CollectionInv, WantView PROVE CollectionInv'
<1>0. PICK new : new = FreshId
  OBVIOUS
<1>1. /\ connection.up /\ ClientStep(Refresh(client, new))
      /\ UNCHANGED <<serverVars, netVars>> /\ UNCHANGED toClient /\ UNCHANGED handed
  BY <1>0 DEF WantView
<1>2. new \notin DOMAIN client.pending /\ new \notin DOMAIN client.pending \cup {NoId}
  BY <1>0, FreshNow
<1>3. Ready(Refresh(client, new), new, held)
  BY <1>2, WantReady
<1>4. IsQueue(toClient') /\ Range(toClient') \subseteq Range(toClient)
  BY <1>1 DEF CollectionInv, PacketsTrue
<1>5. DeckOfView'
  BY <1>1, DeckStays
<1> QED
  BY <1>1, <1>2, <1>3, <1>4, <1>5, ClientKeeps

LEMMA TimeoutKeeps ==
    ASSUME CollectionInv, NEW id \in DOMAIN client.pending, Timeout(id)
    PROVE  CollectionInv'
<1> DEFINE f == Forget(id)
<1>0. PICK new : new = FreshId
  OBVIOUS
<1>1. /\ client' = IF id = client.awaited THEN FinishFailed(f) ELSE f
      /\ UNCHANGED <<serverVars, netVars>> /\ UNCHANGED <<toServer, toClient>> /\ UNCHANGED handed
  BY DEF Timeout
<1>2. new \notin DOMAIN client.pending
  BY <1>0, FreshNow
<1>3. Shaped(client) /\ Shown(client.view, held)
  BY DEF CollectionInv, ClientTrue
<1>4. /\ Shaped(f) /\ f.pending = Restrict(client.pending, DOMAIN client.pending \ {id})
      /\ f.awaited = client.awaited /\ f.view = client.view /\ f.assembly = client.assembly
  BY <1>3, ForgetIs
<1> HIDE DEF f
<1>5. DOMAIN f.pending \subseteq DOMAIN client.pending
  BY <1>4 DEF Restrict
<1>6. Ready(client', new, held) /\ client'.pending = f.pending
  <2>1. CASE id = client.awaited
    <3>1. Ready(FinishFailed(f), new, held) /\ FinishFailed(f).pending = f.pending
      BY <1>2, <1>3, <1>4, <1>5, FailReady, FinishIs
    <3> QED
      BY <1>1, <2>1, <3>1
  <2>2. CASE id # client.awaited
    <3>1. Ready(f, new, held)
      BY <1>2, <1>4, <2>2, OthersReady
    <3> QED
      BY <1>1, <2>2, <3>1
  <2> QED
    BY <2>1, <2>2
<1>7. IsFiniteSet(DOMAIN f.pending)
  <2>1. DOMAIN f.pending \in SUBSET DOMAIN client.pending /\ IsFiniteSet(DOMAIN client.pending)
    BY <1>5 DEF CollectionInv, ClientTrue
  <2> QED
    BY <2>1, FS_Subset
<1>8. connection.up
  BY DEF CollectionInv, ClientTrue, Empty
<1>9. DeckOfView'
  BY <1>1, DeckStays
<1>10. ServerTrue' /\ PacketsTrue'
  <2>1. ServerTrue'
    BY <1>1 DEF CollectionInv, ServerTrue, serverVars, netVars
  <2>2. \A packet \in Range(toClient') : PacketTrue(packet)'
    BY <1>1 DEF CollectionInv, PacketsTrue, PacketTrue, serverVars, netVars
  <2> QED
    BY <1>1, <2>1, <2>2 DEF CollectionInv, PacketsTrue
<1>11. /\ Shaped(client') /\ IsFiniteSet(DOMAIN client'.pending) /\ Awaits(client')
       /\ NoId \notin DOMAIN client'.pending
       /\ AssemblyTrue(client'.assembly, held) /\ Shown(client'.view, held)
  BY <1>5, <1>6, <1>7 DEF Ready, CollectionInv, ClientTrue
<1>12. /\ Shaped(client)' /\ IsFiniteSet(DOMAIN client.pending)' /\ Awaits(client)'
       /\ (NoId \notin DOMAIN client.pending)'
       /\ AssemblyTrue(client.assembly, held)' /\ Shown(client.view, held)'
  BY <1>1, <1>11 DEF serverVars
<1>13. ClientTrue'
  BY <1>1, <1>8, <1>9, <1>12 DEF ClientTrue, netVars
<1> QED
  BY <1>10, <1>13 DEF CollectionInv

LEMMA ReceiveKeeps == ASSUME CollectionInv, Receive PROVE CollectionInv'
<1>1. PICK packet : packet = Head(toClient)
  OBVIOUS
<1>2. /\ toClient # <<>> /\ toClient' = Tail(toClient) /\ UNCHANGED <<serverVars, netVars>>
      /\ IF /\ connection.up /\ packet.connection = connection.generation
            /\ packet.id \in DOMAIN client.pending
         THEN Complete(packet.id, packet.reply)
         ELSE UNCHANGED <<client, toServer, disturbed, handed>>
  BY <1>1 DEF Receive
<1>3. /\ IsQueue(toClient') /\ Range(toClient') \subseteq Range(toClient)
      /\ packet \in Range(toClient)
  BY <1>1, <1>2, Dequeued DEF CollectionInv, PacketsTrue
<1>4. CASE /\ connection.up /\ packet.connection = connection.generation
           /\ packet.id \in DOMAIN client.pending
  <2>1. Tells(packet.reply, held)
    BY <1>3, <1>4 DEF CollectionInv, PacketsTrue, PacketTrue
  <2>2. Complete(packet.id, packet.reply)
    BY <1>2, <1>4
  <2> QED
    BY <1>2, <1>3, <1>4, <2>1, <2>2, CompleteKeeps
<1>5. CASE UNCHANGED <<client, toServer, disturbed, handed>>
  <2>1. ServerTrue'
    BY <1>2 DEF CollectionInv, ServerTrue, serverVars, netVars
  <2>2. \A p \in Range(toClient') : PacketTrue(p)'
    BY <1>2, <1>3 DEF CollectionInv, PacketsTrue, PacketTrue, serverVars, netVars
  <2>3. PacketsTrue'
    BY <1>3, <1>5, <2>2 DEF CollectionInv, PacketsTrue
  <2>4. Extends(held', held) /\ connection' = connection
    BY <1>2, SameHeld DEF serverVars, netVars
  <2>5. ClientTrue'
    BY <1>5, <2>4, ServerLeaves DEF CollectionInv
  <2> QED
    BY <2>1, <2>3, <2>5 DEF CollectionInv
<1> QED
  BY <1>2, <1>4, <1>5

LEMMA ResetIs ==
    ASSUME Shaped(client)
    PROVE  LET c == Reset(client)
           IN /\ Shaped(c) /\ c.pending = Empty /\ c.awaited = NoId
              /\ c.view = NoView /\ c.assembly = NoAssembly
BY DEF Reset, Shaped, Fields, AssemblyFields, NoAssembly

\* A client that was reset says nothing, of whatever is held.
LEMMA ResetKeeps ==
    ASSUME CollectionInv, client' = Reset(client), handed' = NotHanded
    PROVE  ClientTrue'
<1>1. Shaped(client)
  BY DEF CollectionInv, ClientTrue
<1>2. /\ Shaped(client') /\ client'.pending = Empty /\ client'.awaited = NoId
      /\ client'.view = NoView /\ client'.assembly = NoAssembly
  BY <1>1, ResetIs
<1>3. DOMAIN client'.pending = {}
  BY <1>2 DEF Empty
<1>4. IsFiniteSet(DOMAIN client'.pending)
  BY <1>3, FS_EmptySet
<1>5. AssemblyTrue(client'.assembly, held') /\ Shown(client'.view, held') /\ Awaits(client')
  BY <1>2 DEF AssemblyTrue, NoAssembly, Shown, Awaits
<1>6. DeckOfView'
  BY DEF DeckOfView
<1> QED
  BY <1>2, <1>3, <1>4, <1>5, <1>6 DEF ClientTrue

LEMMA DisconnectKeeps == ASSUME CollectionInv, Disconnect PROVE CollectionInv'
<1>1. PICK received \in 0..Len(toClient) : toClient' = SubSeq(toClient, 1, received)
  BY DEF Disconnect
<1>2. /\ connection' = [up |-> FALSE, generation |-> connection.generation + 1]
      /\ client' = Reset(client) /\ handed' = NotHanded
      /\ UNCHANGED <<serverVars, online, toServer>>
  BY DEF Disconnect
<1>3. connection'.up = FALSE /\ connection'.generation = connection.generation + 1
  BY <1>2
<1>4. ServerTrue'
  BY <1>2, <1>3 DEF CollectionInv, ServerTrue, serverVars
<1>5. IsQueue(toClient') /\ Range(toClient') \subseteq Range(toClient)
  BY <1>1, Received DEF CollectionInv, PacketsTrue
<1>6. ASSUME NEW packet \in Range(toClient') PROVE PacketTrue(packet)'
  <2>1. packet.connection \in Nat /\ packet.connection <= connection.generation
    BY <1>5, <1>6 DEF CollectionInv, PacketsTrue, PacketTrue
  <2>2. connection.generation \in Nat
    BY DEF CollectionInv, ServerTrue
  <2> QED
    BY <1>3, <2>1, <2>2 DEF PacketTrue
<1>7. PacketsTrue'
  BY <1>2, <1>5, <1>6 DEF CollectionInv, PacketsTrue
<1>8. ClientTrue'
  BY <1>2, ResetKeeps
<1> QED
  BY <1>4, <1>7, <1>8 DEF CollectionInv

LEMMA ConnectKeeps ==
    ASSUME CollectionInv, NEW world \in Worlds \cup {[data |-> data, slots |-> slots]}, Connect(world)
    PROVE  CollectionInv'
<1>1. PICK new : new = world.data
  OBVIOUS
<1>2. /\ ~connection.up /\ ~online /\ online'
      /\ connection' = [up |-> TRUE, generation |-> connection.generation + 1]
      /\ client' = Reset(client) /\ data' = new /\ held' = Put(Empty, new.revision, new)
      /\ UNCHANGED <<snapshot, toServer, toClient, handed>>
  BY <1>1 DEF Connect
<1>3. new.revision \in Nat /\ Listed(new)
  <2>1. CASE world \in Worlds
    <3>1. /\ new.revision \in Nat
          /\ new.decks \in UNION {[listed -> Contents] : listed \in SUBSET Decks}
      BY <1>1, <2>1, WorldAssumption
    <3> QED
      BY <3>1 DEF Listed, IsMap
  <2>2. CASE world = [data |-> data, slots |-> slots]
    <3>1. new = data
      BY <1>1, <2>2
    <3> QED
      BY <3>1 DEF CollectionInv, ServerTrue, Kept
  <2> QED
    BY <2>1, <2>2
<1>4. DOMAIN held' = {new.revision} /\ held'[new.revision] = new
  BY <1>2 DEF Put, Empty
<1>5. connection'.up /\ connection'.generation = connection.generation + 1
  BY <1>2
<1>6. ServerTrue'
  <2>1. snapshot' = NoSnapshot /\ connection'.generation \in Nat
    BY <1>2, <1>5 DEF CollectionInv, ServerTrue
  <2>2. Kept(held')
    BY <1>3, <1>4 DEF Kept
  <2>3. \A r \in DOMAIN held' : r \in Nat /\ r <= data'.revision
    BY <1>2, <1>3, <1>4
  <2> QED
    BY <1>2, <1>3, <1>4, <2>1, <2>2, <2>3 DEF ServerTrue
<1>7. ASSUME NEW packet \in Range(toClient) PROVE PacketTrue(packet)'
  <2>1. packet.connection \in Nat /\ packet.connection <= connection.generation
    BY <1>7 DEF CollectionInv, PacketsTrue, PacketTrue
  <2>2. connection.generation \in Nat
    BY DEF CollectionInv, ServerTrue
  <2> QED
    BY <1>5, <2>1, <2>2 DEF PacketTrue
<1>8. PacketsTrue'
  BY <1>2, <1>7 DEF CollectionInv, PacketsTrue
<1>9. handed' = NotHanded
  BY <1>2 DEF CollectionInv, ClientTrue
<1>10. ClientTrue'
  BY <1>2, <1>9, ResetKeeps
<1> QED
  BY <1>6, <1>8, <1>10 DEF CollectionInv

LEMMA IdleKeeps == ASSUME CollectionInv, UNCHANGED vars PROVE CollectionInv'
<1>1. UNCHANGED <<client, handed>> /\ UNCHANGED <<data, held, netVars, toServer, toClient>>
      /\ UNCHANGED snapshot
  BY DEF vars, serverVars
<1> QED
  BY <1>1, QuietKeeps

LEMMA NextKeepsCollection == CollectionInv /\ [Next]_vars => CollectionInv'
<1> SUFFICES ASSUME CollectionInv, [Next]_vars PROVE CollectionInv'
  OBVIOUS
<1>1. CASE ServerStep
  BY <1>1, ServerKeeps
<1>2. CASE Edit \/ Move \/ \E deck \in Decks : ReadDeck(deck)
  BY <1>2, DeckRequestsKeep
<1>3. CASE WantView
  BY <1>3, WantViewKeeps
<1>4. ASSUME NEW id \in DOMAIN client.pending, Timeout(id) PROVE CollectionInv'
  BY <1>4, TimeoutKeeps
<1>5. CASE Receive
  BY <1>5, ReceiveKeeps
<1>6. CASE Disconnect
  BY <1>6, DisconnectKeeps
<1>7. ASSUME NEW world \in Worlds \cup {[data |-> data, slots |-> slots]}, Connect(world)
      PROVE  CollectionInv'
  BY <1>7, ConnectKeeps
<1>8. CASE UNCHANGED vars
  BY <1>8, IdleKeeps
<1> QED
  BY <1>1, <1>2, <1>3, <1>4, <1>5, <1>6, <1>7, <1>8 DEF Next

-----------------------------------------------------------------------------
(* A refresh that nothing disturbs *)

\* The active list is one of the lists.
ActiveTrue == data.active \in DOMAIN data.decks \cup {NoDeck}

Telling == {"changed", "deck", "rejected"}

\* The client is told of no revision that is yet to come.
KnownTrue ==
    /\ client.requiredRevision \in Nat /\ client.requiredRevision <= data.revision
    /\ \A packet \in Range(toClient) :
         packet.connection = connection.generation /\ packet.reply.op \in Telling
           => packet.reply.revision \in Nat /\ packet.reply.revision <= data.revision

\* What the server is to answer a request of the refresh.
Answered(command) ==
    IF command = Open THEN Opened(snapshot.id, data)
    ELSE [op |-> command.kind, snapshot |-> snapshot.id, revision |-> data.revision, index |-> command.index,
          entries |-> IF command.kind = "COUNTS" THEN PageOf(Owned(data.counts), COUNT_PAGE, command.index)
                      ELSE PageOf(data.decks, SUMMARY_PAGE, command.index)]

\* The request to open a snapshot is still in its queue, behind those of earlier refreshes.
Waiting ==
    /\ client.assembly.opened = NoHeader
    /\ \E i \in DOMAIN toServer :
         /\ toServer[i].id = client.awaited /\ toServer[i].command = Open
         /\ \A j \in DOMAIN toServer :
              /\ j # i => toServer[j].id # client.awaited
              /\ j > i => toServer[j].command.op # "open"
    /\ \A packet \in Range(toClient) : packet.id # client.awaited

\* The snapshot of the refresh is there, and nothing in a queue is to replace it.
Served ==
    /\ snapshot # NoSnapshot /\ ~snapshot.idle
    /\ \A request \in Range(toServer) :
         /\ request.command.op # "open"
         /\ request.id = client.awaited => request.command = client.pending[client.awaited]
    /\ \A packet \in Range(toClient) :
         packet.id = client.awaited => packet.reply = Answered(client.pending[client.awaited])
    /\ client.assembly.opened # NoHeader =>
         /\ client.assembly.opened = Opened(snapshot.id, data)
         /\ client.refreshingRevision = data.revision
         /\ NextPage(client.assembly) # NoPage

\* A refresh that was not disturbed is at its request to open, or at its snapshot.
Followed == client.awaited # NoId /\ ~disturbed => Waiting \/ Served

RefreshTrue == ActiveTrue /\ KnownTrue /\ Followed
RefreshInv == CollectionInv /\ RefreshTrue

LEMMA TailIs ==
    ASSUME NEW s, IsQueue(s), s # <<>>
    PROVE  /\ Len(s) \in Nat /\ Len(s) > 0 /\ DOMAIN s = 1..Len(s) /\ Head(s) = s[1]
           /\ DOMAIN Tail(s) = 1..(Len(s) - 1)
           /\ \A i \in 1..(Len(s) - 1) : i + 1 \in 1..Len(s) /\ Tail(s)[i] = s[i + 1]
<1> DEFINE S == Range(s)
<1>1. s \in Seq(S)
  BY DEF IsQueue
<1> HIDE DEF S
<1>2. /\ Len(s) \in Nat /\ Len(s) > 0 /\ DOMAIN s = 1..Len(s) /\ Head(s) = s[1]
      /\ DOMAIN Tail(s) = 1..(Len(s) - 1)
      /\ \A i \in 1..(Len(s) - 1) : Tail(s)[i] = s[i + 1]
  BY <1>1
<1> QED
  BY <1>2

LEMMA AppendIs ==
    ASSUME NEW s, IsQueue(s), NEW e
    PROVE  /\ Len(s) \in Nat /\ DOMAIN s = 1..Len(s)
           /\ DOMAIN Append(s, e) = 1..(Len(s) + 1)
           /\ \A i \in 1..Len(s) : i \in 1..(Len(s) + 1) /\ Append(s, e)[i] = s[i]
           /\ Append(s, e)[Len(s) + 1] = e
<1> DEFINE S == Range(s) \cup {e}
<1>1. s \in Seq(S) /\ e \in S
  BY DEF IsQueue
<1> HIDE DEF S
<1>2. /\ Len(s) \in Nat /\ DOMAIN s = 1..Len(s)
      /\ DOMAIN Append(s, e) = 1..(Len(s) + 1)
      /\ \A i \in 1..Len(s) : Append(s, e)[i] = s[i]
      /\ Append(s, e)[Len(s) + 1] = e
  BY <1>1
<1> QED
  BY <1>2

\* A refresh asks to open a snapshot and for pages of it, and for nothing else.
LEMMA AwaitedIs ==
    ASSUME CollectionInv, client.awaited # NoId
    PROVE  /\ connection.up /\ client.awaited \in DOMAIN client.pending
           /\ client.pending[client.awaited].op \in {"open", "page", "none"}
           /\ client.pending[client.awaited] = Open => client.assembly.opened = NoHeader
           /\ client.pending[client.awaited] # Open =>
                /\ client.assembly.opened # NoHeader
                /\ client.pending[client.awaited] = NextPage(client.assembly)
<1> DEFINE a == client.assembly
           command == client.pending[client.awaited]
<1>1. /\ connection.up /\ client.awaited \in DOMAIN client.pending
      /\ command = IF a.opened = NoHeader THEN Open ELSE NextPage(a)
  BY DEF CollectionInv, ClientTrue, Awaits
<1> HIDE DEF a, command
<1>2. Open.op = "open" /\ NoPage.op = "none" /\ NoPage # Open
  BY DEF Open, NoPage
<1>3. a.opened # NoHeader => NextPage(a).op \in {"page", "none"} /\ NextPage(a) # Open
  BY <1>2, NextPageIs, PageCommandIs
<1> QED
  BY <1>1, <1>2, <1>3 DEF a, command

-----------------------------------------------------------------------------
(* The refresh while the server steps *)

LEMMA AnswerQueues ==
    ASSUME CollectionInv, toServer # <<>>, NEW reply, Answer(reply)
    PROVE  /\ toServer' = Tail(toServer) /\ Range(toServer') \subseteq Range(toServer)
           /\ Pending \in Range(toServer) /\ UNCHANGED connection
           /\ \A packet \in Range(toClient') :
                \/ packet \in Range(toClient)
                \/ packet.id = Pending.id /\ packet.reply = reply
<1>1. toServer' = Tail(toServer) /\ UNCHANGED connection
  BY DEF Answer, netVars
<1>2. IsQueue(toServer) /\ IsQueue(toClient)
  BY DEF CollectionInv, PacketsTrue
<1>3. Range(Tail(toServer)) \subseteq Range(toServer) /\ Pending \in Range(toServer)
  BY <1>2, Dequeued DEF Pending
<1>4. ASSUME NEW packet \in Range(toClient')
      PROVE  packet \in Range(toClient) \/ (packet.id = Pending.id /\ packet.reply = reply)
  <2> DEFINE e == [connection |-> connection.generation, id |-> Pending.id, reply |-> reply]
  <2>1. e.id = Pending.id /\ e.reply = reply
    OBVIOUS
  <2>2. toClient' \in {toClient, Append(toClient, e)}
    BY DEF Answer
  <2> HIDE DEF e
  <2>3. Range(Append(toClient, e)) = Range(toClient) \cup {e}
    BY <1>2, Enqueued
  <2> QED
    BY <1>4, <2>1, <2>2, <2>3
<1> QED
  BY <1>1, <1>3, <1>4

LEMMA AnswerKnown ==
    ASSUME RefreshInv, toServer # <<>>, NEW reply, Answer(reply), UNCHANGED client,
           data'.revision \in Nat, data.revision <= data'.revision,
           reply.op \in Telling => reply.revision \in Nat /\ reply.revision <= data'.revision
    PROVE  KnownTrue'
<1>1. data.revision \in Nat
  BY DEF RefreshInv, CollectionInv, ServerTrue
<1>2. /\ UNCHANGED connection
      /\ \A packet \in Range(toClient') :
           packet \in Range(toClient) \/ (packet.id = Pending.id /\ packet.reply = reply)
  BY AnswerQueues DEF RefreshInv
<1>3. client.requiredRevision \in Nat /\ client.requiredRevision <= data'.revision
  BY <1>1 DEF RefreshInv, RefreshTrue, KnownTrue
<1>4. ASSUME NEW packet \in Range(toClient'),
             packet.connection = connection.generation, packet.reply.op \in Telling
      PROVE  packet.reply.revision \in Nat /\ packet.reply.revision <= data'.revision
  <2>1. CASE packet \in Range(toClient)
    <3>1. packet.reply.revision \in Nat /\ packet.reply.revision <= data.revision
      BY <1>4, <2>1 DEF RefreshInv, RefreshTrue, KnownTrue
    <3> QED
      BY <1>1, <3>1
  <2>2. CASE packet.reply = reply
    BY <1>4, <2>2
  <2> QED
    BY <1>2, <1>4, <2>1, <2>2
<1> QED
  BY <1>2, <1>3, <1>4 DEF KnownTrue

\* The requests in front of the refresh's are served.
LEMMA WaitingStays ==
    ASSUME CollectionInv, Waiting, toServer # <<>>, NEW reply, Answer(reply), UNCHANGED client,
           Pending.id # client.awaited
    PROVE  Waiting'
<1>1. /\ toServer' = Tail(toServer)
      /\ \A packet \in Range(toClient') : packet \in Range(toClient) \/ packet.id = Pending.id
  BY AnswerQueues
<1>2. PICK i \in DOMAIN toServer :
        /\ toServer[i].id = client.awaited /\ toServer[i].command = Open
        /\ \A j \in DOMAIN toServer :
             /\ j # i => toServer[j].id # client.awaited
             /\ j > i => toServer[j].command.op # "open"
  BY DEF Waiting
<1> DEFINE n == Len(toServer)
           t == Tail(toServer)
<1>3. /\ n \in Nat /\ n > 0 /\ DOMAIN toServer = 1..n /\ Pending = toServer[1]
      /\ DOMAIN t = 1..(n - 1)
      /\ \A k \in 1..(n - 1) : k + 1 \in 1..n /\ t[k] = toServer[k + 1]
  BY TailIs DEF CollectionInv, PacketsTrue, Pending
<1> HIDE DEF n, t
<1>4. i \in 1..n /\ i # 1
  BY <1>2, <1>3
<1>5. i - 1 \in 1..(n - 1) /\ (i - 1) + 1 = i
  BY <1>3, <1>4
<1>6. t[i - 1].id = client.awaited /\ t[i - 1].command = Open
  BY <1>2, <1>3, <1>5
<1>7. ASSUME NEW j \in 1..(n - 1)
      PROVE  /\ j # i - 1 => t[j].id # client.awaited
             /\ j > i - 1 => t[j].command.op # "open"
  <2>1. /\ j + 1 \in 1..n /\ t[j] = toServer[j + 1]
        /\ j # i - 1 => j + 1 # i
        /\ j > i - 1 => j + 1 > i
    BY <1>3, <1>4, <1>7
  <2> QED
    BY <1>2, <1>3, <2>1
<1>8. \A packet \in Range(toClient') : packet.id # client.awaited
  BY <1>1 DEF Waiting
<1>9. /\ client'.assembly.opened = NoHeader /\ toServer' = t /\ client'.awaited = client.awaited
  BY <1>1 DEF Waiting, t
<1>10. \E k \in DOMAIN t :
         /\ t[k].id = client.awaited /\ t[k].command = Open
         /\ \A j \in DOMAIN t :
              /\ j # k => t[j].id # client.awaited
              /\ j > k => t[j].command.op # "open"
  BY <1>3, <1>5, <1>6, <1>7
<1> QED
  BY <1>8, <1>9, <1>10 DEF Waiting

\* The refresh's request to open is the next to be served.
LEMMA WaitingEnds ==
    ASSUME CollectionInv, Waiting, toServer # <<>>, Pending.id = client.awaited
    PROVE  /\ Command = Open
           /\ \A request \in Range(Tail(toServer)) :
                request.id # client.awaited /\ request.command.op # "open"
<1>1. PICK i \in DOMAIN toServer :
        /\ toServer[i].id = client.awaited /\ toServer[i].command = Open
        /\ \A j \in DOMAIN toServer :
             /\ j # i => toServer[j].id # client.awaited
             /\ j > i => toServer[j].command.op # "open"
  BY DEF Waiting
<1> DEFINE n == Len(toServer)
           t == Tail(toServer)
<1>2. /\ n \in Nat /\ n > 0 /\ DOMAIN toServer = 1..n /\ Pending = toServer[1]
      /\ DOMAIN t = 1..(n - 1)
      /\ \A k \in 1..(n - 1) : k + 1 \in 1..n /\ t[k] = toServer[k + 1]
  BY TailIs DEF CollectionInv, PacketsTrue, Pending
<1> HIDE DEF n, t
<1>3. 1 \in DOMAIN toServer
  BY <1>2
<1>4. i = 1
  BY <1>1, <1>2, <1>3
<1>5. ASSUME NEW k \in 1..(n - 1)
      PROVE  t[k].id # client.awaited /\ t[k].command.op # "open"
  <2>1. k + 1 \in DOMAIN toServer /\ k + 1 # 1 /\ k + 1 > 1 /\ t[k] = toServer[k + 1]
    BY <1>2, <1>5
  <2> QED
    BY <1>1, <1>4, <2>1
<1>6. \A request \in Range(t) : request.id # client.awaited /\ request.command.op # "open"
  BY <1>2, <1>5 DEF Range
<1> QED
  BY <1>1, <1>2, <1>4, <1>6 DEF Command, t

\* A request is served that leaves the snapshot of the refresh alone.
LEMMA ServedStays ==
    ASSUME CollectionInv, Served, toServer # <<>>, NEW reply, Answer(reply),
           UNCHANGED <<client, data, snapshot>>,
           Pending.id = client.awaited => reply = Answered(client.pending[client.awaited])
    PROVE  Served'
<1>1. /\ Range(toServer') \subseteq Range(toServer)
      /\ \A packet \in Range(toClient') :
           packet \in Range(toClient) \/ (packet.id = Pending.id /\ packet.reply = reply)
  BY AnswerQueues
<1>2. \A command : Answered(command)' = Answered(command)
  BY DEF Answered
<1>3. \A packet \in Range(toClient') :
        packet.id = client.awaited => packet.reply = Answered(client.pending[client.awaited])
  BY <1>1 DEF Served
<1>4. \A packet \in Range(toClient') :
        packet.id = client'.awaited => packet.reply = Answered(client.pending[client.awaited])'
  BY <1>2, <1>3
<1> QED
  BY <1>1, <1>4 DEF Served

\* A request that is not one of a refresh is answered and changes nothing.
LEMMA OtherFollowed ==
    ASSUME RefreshInv, toServer # <<>>, NEW reply, Refuse(reply), UNCHANGED <<client, disturbed>>,
           Command.op \notin {"open", "page", "none"}
    PROVE  Followed'
<1>1. Answer(reply) /\ UNCHANGED <<data, snapshot>>
  BY DEF Refuse, serverVars
<1> SUFFICES ASSUME client.awaited # NoId, ~disturbed PROVE Waiting' \/ Served'
  BY DEF Followed
<1>2. CollectionInv /\ (Waiting \/ Served)
  BY DEF RefreshInv, RefreshTrue, Followed
<1>3. client.pending[client.awaited].op \in {"open", "page", "none"} /\ Open.op = "open"
  BY <1>2, AwaitedIs, OpenIs
<1>4. CASE Waiting
  <2>1. Pending.id # client.awaited
    BY <1>2, <1>3, <1>4, WaitingEnds
  <2> QED
    BY <1>1, <1>2, <1>4, <2>1, WaitingStays
<1>5. CASE Served
  <2>1. Pending \in Range(toServer)
    BY <1>1, <1>2, AnswerQueues
  <2>2. Pending.id # client.awaited
    BY <1>3, <1>5, <2>1 DEF Served, Command
  <2> QED
    BY <1>1, <1>2, <1>5, <2>2, ServedStays
<1> QED
  BY <1>2, <1>4, <1>5

LEMMA RefuseRefresh ==
    ASSUME RefreshInv, toServer # <<>>, NEW reply, Refuse(reply), UNCHANGED client,
           reply.op \in Telling => reply.revision \in Nat /\ reply.revision <= data.revision
    PROVE  ActiveTrue' /\ KnownTrue'
<1>1. Answer(reply) /\ UNCHANGED data
  BY DEF Refuse, serverVars
<1>2. ActiveTrue'
  BY <1>1 DEF RefreshInv, RefreshTrue, ActiveTrue
<1>3. data'.revision \in Nat /\ data.revision <= data'.revision
  BY <1>1 DEF RefreshInv, CollectionInv, ServerTrue
<1> QED
  BY <1>1, <1>2, <1>3, AnswerKnown

LEMMA RejectedKnown ==
    ASSUME RefreshInv, NEW error
    PROVE  LET reply == Rejected(error, data.revision)
           IN reply.op \in Telling => reply.revision \in Nat /\ reply.revision <= data.revision
<1>1. data.revision \in Nat /\ data.revision <= data.revision
  BY DEF RefreshInv, CollectionInv, ServerTrue
<1> QED
  BY <1>1 DEF Rejected

LEMMA BusyRefresh == ASSUME RefreshInv, RefuseBusy, UNCHANGED client PROVE RefreshTrue'
<1>1. toServer # <<>> /\ Refuse(Rejected("BUSY", data.revision)) /\ disturbed'
  BY DEF RefuseBusy
<1>2. ActiveTrue' /\ KnownTrue'
  BY <1>1, RejectedKnown, RefuseRefresh
<1> QED
  BY <1>1, <1>2 DEF RefreshTrue, Followed

\* A change that is made leaves the active list one of the lists.
LEMMA MutatedActive ==
    ASSUME ActiveTrue, NEW command, command.op \in Mutations, NEW verdict,
           ~IsRejected(Mutated(command, verdict))
    PROVE  LET new == Mutated(command, verdict) IN new.active \in DOMAIN new.decks \cup {NoDeck}
<1> DEFINE D(new) == IsRejected(new) \/ new.active \in DOMAIN new.decks \cup {NoDeck}
<1>1. \A error : D(Rejected(error, data.revision))
  BY RejectedIs
<1>2. D(Unavailable)
  BY <1>1 DEF Unavailable
<1>3. ASSUME NEW counts, NEW decks, NEW active, active \in DOMAIN decks \cup {NoDeck}
      PROVE  D(Revised(counts, decks, active))
  BY <1>3 DEF Revised
<1> HIDE DEF D
<1>4. CASE command.op = "save"
  <2> DEFINE decks == Put(data.decks, command.deck, command.content)
  <2>1. DOMAIN decks = DOMAIN data.decks \cup {command.deck}
    BY DEF Put
  <2> HIDE DEF decks
  <2>2. \A active \in DOMAIN data.decks \cup {NoDeck} : D(Revised(data.counts, decks, active))
    BY <1>3, <2>1
  <2>3. data.active \in DOMAIN data.decks \cup {NoDeck}
        /\ Reviewed(data.active, verdict) \in DOMAIN data.decks \cup {NoDeck}
    BY DEF ActiveTrue, Reviewed
  <2>4. \/ Mutated(command, verdict) = Unavailable
        \/ Mutated(command, verdict) = Revised(data.counts, decks, data.active)
        \/ Mutated(command, verdict) = Revised(data.counts, decks, Reviewed(data.active, verdict))
    BY <1>4 DEF Mutated, decks
  <2>5. D(Mutated(command, verdict))
    BY <1>2, <2>2, <2>3, <2>4
  <2> QED
    BY <2>5 DEF D
<1>5. CASE command.op = "delete"
  <2> DEFINE decks == Restrict(data.decks, DOMAIN data.decks \ {command.deck})
             active == IF command.deck = data.active THEN NoDeck ELSE data.active
  <2>1. active \in DOMAIN decks \cup {NoDeck}
    BY DEF Restrict, ActiveTrue
  <2> HIDE DEF decks, active
  <2>2. D(Revised(data.counts, decks, active))
    BY <1>3, <2>1
  <2>3. \/ Mutated(command, verdict) = Rejected("NOT_FOUND", data.revision)
        \/ Mutated(command, verdict) = Unavailable
        \/ Mutated(command, verdict) = Revised(data.counts, decks, active)
    BY <1>5 DEF Mutated, Deleted, decks, active
  <2>4. D(Mutated(command, verdict))
    BY <1>1, <1>2, <2>2, <2>3
  <2> QED
    BY <2>4 DEF D
<1>6. CASE command.op = "activate"
  <2>1. command.deck \in DOMAIN data.decks => D(Revised(data.counts, data.decks, command.deck))
    BY <1>3
  <2>2. \/ Mutated(command, verdict) = Rejected("NOT_FOUND", data.revision)
        \/ Mutated(command, verdict) = Unavailable
        \/ Mutated(command, verdict) = Rejected("INELIGIBLE", data.revision)
        \/ /\ command.deck \in DOMAIN data.decks
           /\ Mutated(command, verdict) = Revised(data.counts, data.decks, command.deck)
    BY <1>6 DEF Mutated
  <2>3. D(Mutated(command, verdict))
    BY <1>1, <1>2, <2>1, <2>2
  <2> QED
    BY <2>3 DEF D
<1>7. CASE command.op = "clearActive"
  <2>1. D(Revised(data.counts, data.decks, NoDeck))
    BY <1>3
  <2>2. \/ Mutated(command, verdict) = Unavailable
        \/ Mutated(command, verdict) = Revised(data.counts, data.decks, NoDeck)
    BY <1>7 DEF Mutated
  <2>3. D(Mutated(command, verdict))
    BY <1>2, <2>1, <2>2
  <2> QED
    BY <2>3 DEF D
<1> QED
  BY <1>4, <1>5, <1>6, <1>7 DEF Mutations

\* A change disturbs the refresh, and is told with the revision it makes.
LEMMA ChangeRefresh ==
    ASSUME RefreshInv, toServer # <<>>, UNCHANGED client,
           NEW new, new.revision = data.revision + 1, new.active \in DOMAIN new.decks \cup {NoDeck},
           Persist(new), NEW saved, NEW moved, Answer(Changed(new, saved, moved))
    PROVE  RefreshTrue'
<1>1. data' = new /\ disturbed'
  BY DEF Persist
<1>2. data.revision \in Nat
  BY DEF RefreshInv, CollectionInv, ServerTrue
<1> DEFINE reply == Changed(new, saved, moved)
<1>3. reply.revision = new.revision
  BY DEF Changed
<1> HIDE DEF reply
<1>4. /\ data'.revision \in Nat /\ data.revision <= data'.revision
      /\ reply.revision \in Nat /\ reply.revision <= data'.revision
  BY <1>1, <1>2, <1>3
<1>5. KnownTrue'
  BY <1>4, AnswerKnown DEF reply
<1> QED
  BY <1>1, <1>5 DEF RefreshTrue, ActiveTrue, Followed

LEMMA MutationRefresh ==
    ASSUME RefreshInv, UNCHANGED client, NEW verdict \in Verdicts, ServeMutation(verdict)
    PROVE  RefreshTrue'
<1> DEFINE outcome == IF Command.expected # data.revision THEN Stale ELSE Mutated(Command, verdict)
<1>1. toServer # <<>> /\ Command.op \in Mutations
  BY DEF ServeMutation, Asked
<1>2. IF IsRejected(outcome) THEN Refuse(outcome) /\ UNCHANGED disturbed
      ELSE /\ Persist(outcome)
           /\ Answer(Changed(outcome, IF Command.op = "save" THEN Command.content ELSE "none", 0))
  BY DEF ServeMutation
<1>3. CollectionInv /\ ServerTrue /\ PacketsTrue /\ ActiveTrue
  BY DEF RefreshInv, RefreshTrue, CollectionInv
<1>4. Decided(outcome)
  BY <1>1, <1>3, MutatedIs, CommandSound DEF Decided, Stale
<1>5. ~IsRejected(outcome) => outcome.active \in DOMAIN outcome.decks \cup {NoDeck}
  BY <1>1, <1>3, MutatedActive, RejectedIs DEF Stale
<1> HIDE DEF outcome
<1>6. CASE IsRejected(outcome)
  <2>1. PICK error : outcome = Rejected(error, data.revision)
    BY <1>4, <1>6 DEF Decided
  <2>2. Command.op \notin {"open", "page", "none"}
    BY <1>1 DEF Mutations
  <2>3. ActiveTrue' /\ KnownTrue'
    BY <1>1, <1>2, <1>6, <2>1, RejectedKnown, RefuseRefresh
  <2>4. Followed'
    BY <1>1, <1>2, <1>6, <2>2, OtherFollowed
  <2> QED
    BY <2>3, <2>4 DEF RefreshTrue
<1>7. CASE ~IsRejected(outcome)
  <2>1. outcome.revision = data.revision + 1
    BY <1>4, <1>7, RejectedIs DEF Decided
  <2> DEFINE saved == IF Command.op = "save" THEN Command.content ELSE "none"
  <2>2. Persist(outcome) /\ Answer(Changed(outcome, saved, 0))
    BY <1>2, <1>7
  <2> HIDE DEF saved
  <2> QED
    BY <1>1, <1>5, <1>7, <2>1, <2>2, ChangeRefresh
<1> QED
  BY <1>6, <1>7

LEMMA TransferRefresh ==
    ASSUME RefreshInv, UNCHANGED client, NEW verdict \in Verdicts, ServeTransfer(verdict)
    PROVE  RefreshTrue'
<1> DEFINE outcome == IF Command.expected # data.revision THEN Stale ELSE Transferred(Command, verdict)
<1>1. toServer # <<>> /\ Command.op \in Transfers
  BY DEF ServeTransfer, Asked
<1>2. IF IsRejected(outcome) THEN Refuse(outcome) /\ UNCHANGED disturbed
      ELSE Persist(outcome.data) /\ Answer(Changed(outcome.data, "none", outcome.plan.moved))
  BY DEF ServeTransfer
<1>3. \/ \E error : outcome = Rejected(error, data.revision)
      \/ /\ ~IsRejected(outcome)
         /\ outcome.data.revision = data.revision + 1 /\ outcome.data.decks = data.decks
         /\ outcome.data.active \in {data.active, NoDeck}
  BY DEF Stale, Transferred, Unavailable, Revised, Reviewed, IsRejected
<1> HIDE DEF outcome
<1>4. CASE IsRejected(outcome)
  <2>1. CASE \E error : outcome = Rejected(error, data.revision)
    <3>1. PICK error : outcome = Rejected(error, data.revision)
      BY <2>1
    <3>2. Command.op \notin {"open", "page", "none"}
      BY <1>1 DEF Transfers
    <3>3. ActiveTrue' /\ KnownTrue'
      BY <1>1, <1>2, <1>4, <3>1, RejectedKnown, RefuseRefresh
    <3>4. Followed'
      BY <1>1, <1>2, <1>4, <3>2, OtherFollowed
    <3> QED
      BY <3>3, <3>4 DEF RefreshTrue
  <2> QED
    BY <1>3, <1>4, <2>1
<1>5. CASE ~IsRejected(outcome)
  <2> DEFINE new == outcome.data
             moved == outcome.plan.moved
  <2>1. new.revision = data.revision + 1 /\ new.decks = data.decks /\ new.active \in {data.active, NoDeck}
    BY <1>3, <1>5, RejectedIs
  <2>2. new.active \in DOMAIN new.decks \cup {NoDeck}
    BY <2>1 DEF RefreshInv, RefreshTrue, ActiveTrue
  <2>3. Persist(new) /\ Answer(Changed(new, "none", moved))
    BY <1>2, <1>5
  <2> HIDE DEF new, moved
  <2> QED
    BY <1>1, <2>1, <2>2, <2>3, ChangeRefresh
<1> QED
  BY <1>4, <1>5

LEMMA OpenRefresh ==
    ASSUME RefreshInv, UNCHANGED client, NEW verdict \in Verdicts, ServeOpen(verdict)
    PROVE  RefreshTrue'
<1>1. toServer # <<>> /\ Command.op = "open"
  BY DEF ServeOpen, Asked
<1>2. CASE data.active # NoDeck /\ verdict = "fails"
  <2>1. Refuse(Unavailable) /\ disturbed'
    BY <1>2 DEF ServeOpen
  <2>2. ActiveTrue' /\ KnownTrue'
    BY <1>1, <2>1, RejectedKnown, RefuseRefresh DEF Unavailable
  <2> QED
    BY <2>1, <2>2 DEF RefreshTrue, Followed
<1>3. CASE ~(data.active # NoDeck /\ verdict = "fails")
  <2> DEFINE cleared == data.active # NoDeck /\ verdict = "ineligible"
             fresh == IF cleared THEN Revised(data.counts, data.decks, NoDeck) ELSE data
  <2>1. PICK id : id = FreshSnapshot(SnapshotsNamed)
    OBVIOUS
  <2>2. /\ data' = fresh /\ snapshot' = [id |-> id, data |-> fresh, idle |-> FALSE]
        /\ disturbed' = (disturbed \/ cleared) /\ Answer(Opened(id, fresh))
    BY <1>3, <2>1 DEF ServeOpen
  <2>3. PICK new : new = fresh
    OBVIOUS
  <2>4. IF cleared THEN new.revision = data.revision + 1 /\ new.active = NoDeck ELSE new = data
    BY <2>3 DEF Revised
  <2>5. /\ data' = new /\ snapshot' = [id |-> id, data |-> new, idle |-> FALSE]
        /\ disturbed' = (disturbed \/ cleared) /\ Answer(Opened(id, new))
    BY <2>2, <2>3
  <2> HIDE DEF fresh, cleared
  <2>6. snapshot'.id = id /\ snapshot'.idle = FALSE /\ snapshot' # NoSnapshot
    <3>1. snapshot'.id = id /\ snapshot'.idle = FALSE /\ DOMAIN snapshot' = {"id", "data", "idle"}
      BY <2>5
    <3>2. "data" \notin DOMAIN NoSnapshot
      BY DEF NoSnapshot
    <3> QED
      BY <3>1, <3>2
  <2>7. ActiveTrue'
    BY <2>4, <2>5 DEF RefreshInv, RefreshTrue, ActiveTrue
  <2>8. KnownTrue'
    <3>1. data.revision \in Nat
      BY DEF RefreshInv, CollectionInv, ServerTrue
    <3>2. data'.revision \in Nat /\ data.revision <= data'.revision
      BY <2>4, <2>5, <3>1
    <3>3. Opened(id, new).op \notin Telling
      BY OpenedIs DEF Telling
    <3> QED
      BY <1>1, <2>5, <3>2, <3>3, AnswerKnown
  <2>9. Followed'
    <3> SUFFICES ASSUME client.awaited # NoId, ~disturbed, ~cleared PROVE Waiting' \/ Served'
      BY <2>5 DEF Followed
    <3>1. new = data /\ UNCHANGED data
      BY <2>4, <2>5
    <3>2. CollectionInv /\ (Waiting \/ Served)
      BY DEF RefreshInv, RefreshTrue, Followed
    <3>3. /\ toServer' = Tail(toServer) /\ Pending \in Range(toServer)
          /\ \A packet \in Range(toClient') :
               packet \in Range(toClient) \/ (packet.id = Pending.id /\ packet.reply = Opened(id, new))
      BY <1>1, <2>5, <3>2, AnswerQueues
    <3>4. Waiting
      BY <1>1, <3>2, <3>3 DEF Served, Command
    <3>5. CASE Pending.id # client.awaited
      BY <1>1, <2>5, <3>2, <3>4, <3>5, WaitingStays
    <3>6. CASE Pending.id = client.awaited
      <4>1. \A request \in Range(toServer') :
              request.id # client.awaited /\ request.command.op # "open"
        BY <1>1, <3>2, <3>3, <3>4, <3>6, WaitingEnds
      <4>2. client.pending[client.awaited] = Open
        BY <3>2, <3>4, AwaitedIs DEF Waiting
      <4>3. Answered(Open)' = Opened(id, new)
        BY <2>5, <2>6 DEF Answered
      <4>4. \A packet \in Range(toClient') :
              packet.id = client.awaited => packet.reply = Opened(id, new)
        BY <3>3, <3>4 DEF Waiting
      <4>5. \A packet \in Range(toClient') :
              packet.id = client'.awaited => packet.reply = Answered(client.pending[client.awaited])'
        BY <4>2, <4>3, <4>4
      <4> QED
        BY <2>6, <3>4, <4>1, <4>5 DEF Served, Waiting
    <3> QED
      BY <3>5, <3>6
  <2> QED
    BY <2>7, <2>8, <2>9 DEF RefreshTrue
<1> QED
  BY <1>2, <1>3

\* What the server has is among what it held.
LEMMA HeldNow == ASSUME CollectionInv PROVE held[data.revision] = data /\ Listed(data) /\ data.revision \in Nat
BY DEF CollectionInv, ServerTrue, Kept

LEMMA PagesInt == ASSUME NEW K, Keys(K), NEW limit \in Nat \ {0} PROVE Pages(Cardinality(K), limit) \in Nat
<1> DEFINE n == Cardinality(K)
<1>1. n \in Nat
  BY FS_CardinalityType DEF Keys
<1> HIDE DEF n
<1>2. n \div limit \in Nat
  BY <1>1, DivIs
<1>3. Pages(n, limit) \in Nat
  BY <1>2 DEF Pages
<1> QED
  BY <1>3 DEF n

\* The page a refresh waits for is one of its snapshot.
LEMMA AwaitedPageListed ==
    ASSUME CollectionInv, Served, client.assembly.opened # NoHeader
    PROVE  LET command == NextPage(client.assembly)
           IN command.index \in 0..(PagesListed(data, command.kind) - 1)
<1> DEFINE a == client.assembly
           opened == a.opened
           command == NextPage(a)
<1>1. opened = Opened(snapshot.id, data) /\ command # NoPage
  BY DEF Served
<1>2. opened.countPages = CountPages(data) /\ opened.deckPages = DeckPages(data)
  BY <1>1, OpenedIs
<1>3. a.countIndex \in Nat /\ a.deckIndex \in Nat
  BY <1>1 DEF CollectionInv, ClientTrue, AssemblyTrue, Assembled
<1>4. CountPages(data) \in Nat /\ DeckPages(data) \in Nat
  BY HeldNow, OwnedIs, ListedIs, PagesInt, PageAssumption DEF CountPages, DeckPages
<1>5. \/ /\ a.countIndex < opened.countPages /\ command = PageCommand(opened, "COUNTS", a.countIndex)
      \/ /\ a.deckIndex < opened.deckPages /\ command = PageCommand(opened, "DECKS", a.deckIndex)
  BY <1>1, NextPageIs
<1>6. \A kind, index : /\ PageCommand(opened, kind, index).kind = kind
                       /\ PageCommand(opened, kind, index).index = index
  BY PageCommandIs
<1> HIDE DEF a, opened, command
<1>7. \/ command.kind = "COUNTS" /\ command.index \in 0..(CountPages(data) - 1)
      \/ command.kind = "DECKS" /\ command.index \in 0..(DeckPages(data) - 1)
  BY <1>2, <1>3, <1>4, <1>5, <1>6
<1>8. command.index \in 0..(PagesListed(data, command.kind) - 1)
  BY <1>7 DEF PagesListed
<1> QED
  BY <1>8 DEF a, command

LEMMA PageRefresh == ASSUME RefreshInv, UNCHANGED client, ServePage PROVE RefreshTrue'
<1> DEFINE current == snapshot # NoSnapshot /\ snapshot.id = Command.snapshot
           d == snapshot.data
           entries == IF Command.kind = "COUNTS" THEN PageOf(Owned(d.counts), COUNT_PAGE, Command.index)
                      ELSE PageOf(d.decks, SUMMARY_PAGE, Command.index)
           fresh == current /\ ~snapshot.idle
           listed == Command.index \in 0..(PagesListed(d, Command.kind) - 1)
           page == [op |-> Command.kind, snapshot |-> snapshot.id, revision |-> d.revision,
                    index |-> Command.index, entries |-> entries]
           kept == fresh /\ (listed => d.revision = data.revision)
           told == IF listed THEN page ELSE Rejected("INVALID", data.revision)
<1>0. CollectionInv
  BY DEF RefreshInv
<1>1. toServer # <<>> /\ Command.op = "page" /\ UNCHANGED disturbed
  BY DEF ServePage, Asked
<1>2. IF kept THEN Refuse(told)
      ELSE /\ Answer(Stale) /\ snapshot' = IF current THEN NoSnapshot ELSE snapshot
           /\ UNCHANGED <<data, slots, held>>
  BY DEF ServePage
<1>3. PICK reply : /\ reply = IF kept THEN told ELSE Stale
                   /\ Answer(reply) /\ UNCHANGED data
  BY <1>2 DEF Refuse, serverVars
<1>4. kept => UNCHANGED snapshot
  BY <1>2 DEF Refuse, serverVars
<1>5. ActiveTrue'
  BY <1>3 DEF RefreshInv, RefreshTrue, ActiveTrue
<1>6. KnownTrue'
  <2>1. data'.revision \in Nat /\ data.revision <= data'.revision
    BY <1>3 DEF RefreshInv, CollectionInv, ServerTrue
  <2>2. Command.kind \in {"COUNTS", "DECKS"}
    BY <1>0, <1>1, CommandSound DEF CollectionInv, Sound
  <2>3. reply.op \in Telling => reply.revision \in Nat /\ reply.revision <= data'.revision
    <3>1. CASE kept /\ listed
      BY <1>3, <2>2, <3>1 DEF Telling
    <3>2. CASE ~kept
      BY <1>3, <2>1, <3>2, RejectedKnown DEF Stale
    <3>3. CASE kept /\ ~listed
      BY <1>3, <2>1, <3>3, RejectedKnown
    <3> QED
      BY <3>1, <3>2, <3>3
  <2> QED
    BY <1>1, <1>3, <2>1, <2>3, AnswerKnown
<1>7. Followed'
  <2> SUFFICES ASSUME client.awaited # NoId, ~disturbed PROVE Waiting' \/ Served'
    BY <1>1 DEF Followed
  <2>1. Waiting \/ Served
    BY DEF RefreshInv, RefreshTrue, Followed
  <2>2. CASE Waiting
    <3>1. Pending.id # client.awaited
      BY <1>0, <1>1, <2>2, WaitingEnds, OpenIs
    <3> QED
      BY <1>0, <1>1, <1>3, <2>2, <3>1, WaitingStays
  <2>3. CASE Served
    <3>1. /\ snapshot # NoSnapshot /\ ~snapshot.idle /\ d = data
          /\ \A request \in Range(toServer) :
               request.id = client.awaited => request.command = client.pending[client.awaited]
      BY <1>0, <2>3 DEF Served, CollectionInv, ServerTrue
    <3>2. UNCHANGED snapshot
      BY <1>2, <1>4, <3>1 DEF Refuse, serverVars
    <3>3. ASSUME Pending.id = client.awaited PROVE reply = Answered(client.pending[client.awaited])
      <4>1. Command = client.pending[client.awaited]
        BY <1>0, <1>1, <1>3, <3>1, <3>3, AnswerQueues DEF Command
      <4>2. Command # Open
        BY <1>1, OpenIs
      <4>3. /\ client.assembly.opened # NoHeader /\ Command = NextPage(client.assembly)
        BY <1>0, <4>1, <4>2, AwaitedIs
      <4>4. Command.snapshot = client.assembly.opened.snapshot
        <5>1. NoPage.op = "none"
          BY DEF NoPage
        <5> QED
          BY <1>1, <4>3, <5>1, NextPageIs, PageCommandIs
      <4>5. client.assembly.opened = Opened(snapshot.id, data)
        BY <2>3, <4>3 DEF Served
      <4>6. Opened(snapshot.id, data).snapshot = snapshot.id
        BY OpenedIs
      <4>7. kept /\ listed
        BY <1>0, <2>3, <3>1, <4>3, <4>4, <4>5, <4>6, AwaitedPageListed
      <4>8. reply = page
        BY <1>3, <4>7
      <4> QED
        BY <3>1, <4>1, <4>2, <4>8 DEF Answered
    <3> QED
      BY <1>0, <1>1, <1>3, <2>3, <3>2, <3>3, ServedStays
  <2> QED
    BY <2>1, <2>2, <2>3
<1> QED
  BY <1>5, <1>6, <1>7 DEF RefreshTrue

LEMMA ReadRefresh == ASSUME RefreshInv, UNCHANGED client, ServeRead PROVE RefreshTrue'
<1> DEFINE found == [op |-> "deck", revision |-> data.revision, deck |-> Command.deck,
                     content |-> data.decks[Command.deck]]
           reply == IF Command.deck \in DOMAIN data.decks THEN found
                    ELSE Rejected("NOT_FOUND", data.revision)
<1>1. toServer # <<>> /\ Refuse(reply) /\ UNCHANGED disturbed /\ Command.op = "read"
  BY DEF ServeRead, Asked
<1>2. data.revision \in Nat /\ data.revision <= data.revision
  BY DEF RefreshInv, CollectionInv, ServerTrue
<1>3. reply.op \in Telling => reply.revision \in Nat /\ reply.revision <= data.revision
  BY <1>2, RejectedKnown
<1> HIDE DEF reply
<1>4. ActiveTrue' /\ KnownTrue'
  BY <1>1, <1>3, RefuseRefresh
<1>5. Followed'
  BY <1>1, OtherFollowed
<1> QED
  BY <1>4, <1>5 DEF RefreshTrue

\* Steps that leave the client and the queues alone.
LEMMA QuietRefresh ==
    ASSUME RefreshInv, UNCHANGED <<client, connection, toClient>>, UNCHANGED data,
           \/ disturbed' \/ client.awaited = NoId
           \/ UNCHANGED <<disturbed, snapshot, toServer>>
    PROVE  RefreshTrue'
<1>1. ActiveTrue' /\ KnownTrue'
  BY DEF RefreshInv, RefreshTrue, ActiveTrue, KnownTrue
<1>2. CASE UNCHANGED <<disturbed, snapshot, toServer>>
  <2>1. Waiting => Waiting'
    BY <1>2 DEF Waiting
  <2>2. Served => Served'
    BY <1>2 DEF Served, Answered
  <2>3. Followed'
    BY <1>2, <2>1, <2>2 DEF RefreshInv, RefreshTrue, Followed
  <2> QED
    BY <1>1, <2>3 DEF RefreshTrue
<1> QED
  BY <1>1, <1>2 DEF RefreshTrue, Followed

LEMMA ServerRefresh == ASSUME RefreshInv, ServerStep PROVE RefreshTrue'
<1>0. UNCHANGED client
  BY DEF ServerStep
<1>1. CASE Serve
  BY <1>0, <1>1, BusyRefresh, MutationRefresh, TransferRefresh, OpenRefresh, PageRefresh, ReadRefresh
     DEF Serve
<1>2. CASE ClearedElsewhere
  <2> DEFINE new == Revised(data.counts, data.decks, NoDeck)
  <2>1. data' = new /\ disturbed' /\ UNCHANGED <<netVars, toClient>>
    BY <1>2 DEF ClearedElsewhere, Persist
  <2>2. new.active = NoDeck /\ new.revision = data.revision + 1
    BY DEF Revised
  <2> HIDE DEF new
  <2>3. data.revision \in Nat
    BY DEF RefreshInv, CollectionInv, ServerTrue
  <2>4. \A r \in Nat : r <= data.revision => r <= data'.revision
    BY <2>1, <2>2, <2>3
  <2>5. KnownTrue'
    BY <1>0, <2>1, <2>4 DEF RefreshInv, RefreshTrue, KnownTrue, netVars
  <2> QED
    BY <2>1, <2>2, <2>5 DEF RefreshTrue, ActiveTrue, Followed
<1>3. CASE IdlePasses
  <2>1. UNCHANGED <<data, connection, toClient>> /\ disturbed'
    BY <1>3 DEF IdlePasses, netVars
  <2> QED
    BY <1>0, <2>1, QuietRefresh
<1>4. CASE Logout
  <2>1. UNCHANGED <<data, connection, toClient>> /\ ~connection.up
    BY <1>4 DEF Logout
  <2>2. client.awaited = NoId
    BY <2>1 DEF RefreshInv, CollectionInv, ClientTrue
  <2> QED
    BY <1>0, <2>1, <2>2, QuietRefresh
<1>5. ASSUME NEW code \in Codes, NEW count \in Amounts, Grant(code, count) PROVE RefreshTrue'
  <2>1. UNCHANGED <<data, connection, toClient, disturbed, snapshot, toServer>>
    BY <1>5 DEF Grant, netVars
  <2> QED
    BY <1>0, <2>1, QuietRefresh
<1> QED
  BY <1>1, <1>2, <1>3, <1>4, <1>5 DEF ServerStep

-----------------------------------------------------------------------------
(* The refresh while the client steps *)

LEMMA StepDisturbs ==
    ASSUME NEW c, ClientStep(c),
           \/ c.awaited \notin DOMAIN c.pending \ DOMAIN client.pending
           \/ c.pending[c.awaited] # Open
    PROVE  disturbed' <=> disturbed
BY DEF ClientStep

\* A fresh identity is named nowhere.
LEMMA FreshNamed ==
    ASSUME CollectionInv
    PROVE  /\ \A request \in Range(toServer) : request.id # FreshId
           /\ \A packet \in Range(toClient) : packet.id # FreshId
           /\ FreshId \notin DOMAIN client.pending /\ FreshId # NoId /\ FreshId # client.awaited
<1>1. FreshId \notin Named /\ FreshId \in Nat \ {0} /\ FreshId \notin DOMAIN client.pending
  BY FreshIs
<1>2. client.awaited # NoId => client.awaited \in DOMAIN client.pending
  BY AwaitedIs
<1>3. FreshId # NoId
  BY <1>1 DEF NoId
<1> QED
  BY <1>1, <1>2, <1>3 DEF Named, Range

LEMMA ClientKnown ==
    ASSUME RefreshInv, UNCHANGED <<data, connection>>, Range(toClient') \subseteq Range(toClient),
           client'.requiredRevision \in Nat, client'.requiredRevision <= data.revision
    PROVE  ActiveTrue' /\ KnownTrue'
BY DEF RefreshInv, RefreshTrue, ActiveTrue, KnownTrue

\* The client goes on with its refresh, and may make another request.
LEMMA GoesOn ==
    ASSUME RefreshInv, UNCHANGED <<data, snapshot>>, Range(toClient') \subseteq Range(toClient),
           client'.awaited = client.awaited, client'.assembly = client.assembly,
           client'.refreshingRevision = client.refreshingRevision,
           client.awaited # NoId => client'.pending[client.awaited] = client.pending[client.awaited],
           disturbed => disturbed', NEW request,
           \/ UNCHANGED toServer
           \/ /\ toServer' = Append(toServer, request)
              /\ request.id # client.awaited /\ request.command.op # "open"
    PROVE  Followed'
<1> SUFFICES ASSUME client.awaited # NoId, ~disturbed PROVE Waiting' \/ Served'
  BY DEF Followed
<1>1. CollectionInv /\ (Waiting \/ Served)
  BY DEF RefreshInv, RefreshTrue, Followed
<1>2. IsQueue(toServer)
  BY <1>1 DEF CollectionInv, PacketsTrue
<1>3. CASE Waiting
  <2>1. PICK i \in DOMAIN toServer :
          /\ toServer[i].id = client.awaited /\ toServer[i].command = Open
          /\ \A j \in DOMAIN toServer :
               /\ j # i => toServer[j].id # client.awaited
               /\ j > i => toServer[j].command.op # "open"
    BY <1>3 DEF Waiting
  <2>2. CASE UNCHANGED toServer
    BY <1>3, <2>2 DEF Waiting
  <2>3. CASE /\ toServer' = Append(toServer, request)
             /\ request.id # client.awaited /\ request.command.op # "open"
    <3> DEFINE n == Len(toServer)
               t == Append(toServer, request)
    <3>1. /\ n \in Nat /\ DOMAIN toServer = 1..n /\ DOMAIN t = 1..(n + 1)
          /\ \A k \in 1..n : k \in 1..(n + 1) /\ t[k] = toServer[k]
          /\ t[n + 1] = request
      BY <1>2, AppendIs
    <3> HIDE DEF n, t
    <3>2. \A k \in 1..(n + 1) : k \in 1..n \/ k = n + 1
      BY <3>1
    <3>3. i \in DOMAIN t /\ t[i].id = client.awaited /\ t[i].command = Open
      BY <2>1, <3>1
    <3>4. ASSUME NEW j \in DOMAIN t
          PROVE  /\ j # i => t[j].id # client.awaited
                 /\ j > i => t[j].command.op # "open"
      BY <2>1, <2>3, <3>1, <3>2
    <3> QED
      BY <1>3, <2>3, <3>3, <3>4 DEF Waiting, t
  <2> QED
    BY <2>2, <2>3
<1>4. CASE Served
  <2>1. /\ \A r \in Range(toServer') :
             /\ r.command.op # "open"
             /\ r.id = client.awaited => r.command = client.pending[client.awaited]
    <3>1. Range(Append(toServer, request)) = Range(toServer) \cup {request}
      BY <1>2, Enqueued
    <3> QED
      BY <1>4, <3>1 DEF Served
  <2>2. \A command : Answered(command)' = Answered(command)
    BY DEF Answered
  <2>3. \A packet \in Range(toClient') :
          packet.id = client'.awaited => packet.reply = Answered(client.pending[client.awaited])'
    BY <1>4, <2>2 DEF Served
  <2>4. \A r \in Range(toServer') :
          /\ r.command.op # "open"
          /\ r.id = client'.awaited => r.command = client'.pending[client'.awaited]
    BY <2>1
  <2> QED
    BY <1>4, <2>3, <2>4 DEF Served
<1> QED
  BY <1>1, <1>3, <1>4

\* A refresh begins, at the end of the queue.
LEMMA Begun ==
    ASSUME CollectionInv, NEW id, id = FreshId, Range(toClient') \subseteq Range(toClient),
           client'.awaited = id, client'.assembly = NoAssembly,
           toServer' = Append(toServer, [id |-> id, command |-> Open])
    PROVE  Followed'
<1> DEFINE e == [id |-> id, command |-> Open]
           n == Len(toServer)
           t == Append(toServer, e)
<1>1. /\ n \in Nat /\ DOMAIN toServer = 1..n /\ DOMAIN t = 1..(n + 1)
      /\ \A k \in 1..n : t[k] = toServer[k]
      /\ t[n + 1] = e
  BY AppendIs DEF CollectionInv, PacketsTrue
<1>2. e.id = id /\ e.command = Open
  OBVIOUS
<1>3. toServer' = t
  OBVIOUS
<1> HIDE DEF e, n, t
<1>4. /\ \A k \in 1..(n + 1) : k # n + 1 => k \in 1..n
      /\ \A k \in 1..(n + 1) : ~(k > n + 1)
      /\ n + 1 \in 1..(n + 1)
  BY <1>1
<1>5. /\ \A request \in Range(toServer) : request.id # id
      /\ \A packet \in Range(toClient') : packet.id # id
  BY FreshNamed
<1>6. \A k \in 1..n : toServer[k].id # id
  BY <1>1, <1>5 DEF Range
<1>7. \E i \in DOMAIN t :
        /\ t[i].id = id /\ t[i].command = Open
        /\ \A j \in DOMAIN t :
             /\ j # i => t[j].id # id
             /\ j > i => t[j].command.op # "open"
  <2>1. n + 1 \in DOMAIN t /\ t[n + 1].id = id /\ t[n + 1].command = Open
    BY <1>1, <1>2, <1>4
  <2>2. ASSUME NEW j \in DOMAIN t
        PROVE  /\ j # n + 1 => t[j].id # id
               /\ j > n + 1 => t[j].command.op # "open"
    BY <1>1, <1>4, <1>6
  <2> QED
    BY <2>1, <2>2
<1>8. client'.assembly.opened = NoHeader
  BY DEF NoAssembly
<1> QED
  BY <1>3, <1>5, <1>7, <1>8 DEF Followed, Waiting

LEMMA RequestRefresh ==
    ASSUME RefreshInv, NEW command, command.op # "open", Request(command)
    PROVE  RefreshTrue'
<1>0. PICK new : new = FreshId
  OBVIOUS
<1>1. /\ ClientStep(Ask(client, new, command))
      /\ UNCHANGED <<data, snapshot, connection, toClient>>
  BY <1>0 DEF Request, serverVars, netVars
<1>2. CollectionInv /\ Shaped(client) /\ IsQueue(toServer)
  BY DEF RefreshInv, CollectionInv, ClientTrue, PacketsTrue
<1>3. new \notin DOMAIN client.pending /\ new # NoId /\ new # client.awaited
  BY <1>0, <1>2, FreshNamed
<1> DEFINE c == Ask(client, new, command)
<1>4. /\ c.pending = Put(client.pending, new, command) /\ c.awaited = client.awaited
      /\ c.assembly = client.assembly /\ c.requiredRevision = client.requiredRevision
      /\ c.refreshingRevision = client.refreshingRevision
  BY <1>2, AskIs
<1> HIDE DEF c
<1>5. /\ DOMAIN c.pending = DOMAIN client.pending \cup {new} /\ c.pending[new] = command
      /\ \A k \in DOMAIN client.pending : c.pending[k] = client.pending[k]
  BY <1>3, <1>4 DEF Put
<1>6. client' = c /\ toServer' = Append(toServer, [id |-> new, command |-> command])
  BY <1>1, <1>2, <1>3, <1>5, StepSends DEF c
<1>7. disturbed' <=> disturbed
  BY <1>1, <1>3, <1>4, <1>5, StepDisturbs DEF c
<1>8. ActiveTrue' /\ KnownTrue'
  BY <1>1, <1>4, <1>6, ClientKnown DEF RefreshInv, RefreshTrue, KnownTrue
<1>9. Followed'
  <2>1. PICK request : request = [id |-> new, command |-> command]
    OBVIOUS
  <2>2. request.id # client.awaited /\ request.command.op # "open"
    BY <1>3, <2>1
  <2>3. client.awaited # NoId => client'.pending[client.awaited] = client.pending[client.awaited]
    BY <1>2, <1>5, <1>6, AwaitedIs
  <2>4. toServer' = Append(toServer, request)
    BY <1>6, <2>1
  <2>5. Range(toClient') \subseteq Range(toClient)
    BY <1>1
  <2> QED
    BY <1>1, <1>4, <1>6, <1>7, <2>2, <2>3, <2>4, <2>5, GoesOn
<1> QED
  BY <1>8, <1>9 DEF RefreshTrue

\* A client goes on to its refresh, which may be one that begins.
LEMMA RefreshFollowed ==
    ASSUME RefreshInv, NEW id, id = FreshId, UNCHANGED <<data, snapshot, connection>>,
           Range(toClient') \subseteq Range(toClient),
           NEW c, Shaped(c), Awaits(c), c.awaited = client.awaited, c.assembly = client.assembly,
           c.refreshingRevision = client.refreshingRevision,
           c.requiredRevision \in Nat, c.requiredRevision <= data.revision,
           DOMAIN c.pending \subseteq DOMAIN client.pending,
           client.awaited # NoId => c.pending[client.awaited] = client.pending[client.awaited],
           NEW d, d \in {c, Refresh(c, id)}, ClientStep(d)
    PROVE  RefreshTrue'
<1>1. CollectionInv /\ IsQueue(toServer) /\ AssemblyTrue(c.assembly, held)
  BY DEF RefreshInv, CollectionInv, ClientTrue, PacketsTrue
<1>2. id \notin DOMAIN client.pending /\ id # NoId /\ id # client.awaited
  BY <1>1, FreshNamed
<1>3. /\ d.requiredRevision = c.requiredRevision
      /\ \/ d = c
         \/ /\ d.awaited = id /\ d.assembly = NoAssembly
            /\ d.pending = Put(c.pending, id, Open)
  <2>1. id \notin DOMAIN c.pending
    BY <1>2
  <2> DEFINE r == Refresh(c, id)
  <2>2. /\ r.requiredRevision = c.requiredRevision
        /\ \/ r = c
           \/ /\ r.awaited = id /\ r.assembly = NoAssembly
              /\ r.pending = Put(c.pending, id, Open)
    BY <1>1, <2>1, RefreshIs
  <2> QED
    BY <2>2
<1>4. CASE d = c
  <2>1. client' = c /\ UNCHANGED toServer
    BY <1>1, <1>2, <1>4, StepSends
  <2>2. ActiveTrue' /\ KnownTrue'
    BY <2>1, ClientKnown
  <2>3. disturbed' <=> disturbed
    BY <1>4, StepDisturbs
  <2>4. Followed'
    BY <2>1, <2>3, GoesOn
  <2> QED
    BY <2>2, <2>4 DEF RefreshTrue
<1>5. CASE /\ d.awaited = id /\ d.assembly = NoAssembly /\ d.pending = Put(c.pending, id, Open)
  <2>1. DOMAIN d.pending = DOMAIN c.pending \cup {id} /\ d.pending[id] = Open
    BY <1>5 DEF Put
  <2>2. client' = d /\ toServer' = Append(toServer, [id |-> id, command |-> Open])
    BY <1>1, <1>2, <2>1, StepSends
  <2>3. ActiveTrue' /\ KnownTrue'
    BY <1>3, <2>2, ClientKnown
  <2>4. Followed'
    BY <1>1, <1>5, <2>2, Begun
  <2> QED
    BY <2>3, <2>4 DEF RefreshTrue
<1> QED
  BY <1>3, <1>4, <1>5

LEMMA WantViewRefresh == ASSUME RefreshInv, WantView PROVE RefreshTrue'
<1>0. PICK new : new = FreshId
  OBVIOUS
<1>1. /\ ClientStep(Refresh(client, new))
      /\ UNCHANGED <<data, snapshot, connection, toClient>>
  BY <1>0 DEF WantView, serverVars, netVars
<1>2. Shaped(client) /\ Awaits(client)
  BY DEF RefreshInv, CollectionInv, ClientTrue
<1>3. client.requiredRevision \in Nat /\ client.requiredRevision <= data.revision
  BY DEF RefreshInv, RefreshTrue, KnownTrue
<1>4. PICK d : d = Refresh(client, new)
  OBVIOUS
<1>5. UNCHANGED <<data, snapshot, connection>> /\ Range(toClient') \subseteq Range(toClient)
  BY <1>1
<1> QED
  BY <1>0, <1>1, <1>2, <1>3, <1>4, <1>5, RefreshFollowed

LEMMA TimeoutRefresh ==
    ASSUME RefreshInv, NEW id \in DOMAIN client.pending, Timeout(id)
    PROVE  RefreshTrue'
<1>1. /\ client' = IF id = client.awaited THEN FinishFailed(Forget(id)) ELSE Forget(id)
      /\ UNCHANGED <<data, connection, toClient>> /\ disturbed'
  BY DEF Timeout, serverVars, netVars
<1>2. Shaped(client)
  BY DEF RefreshInv, CollectionInv, ClientTrue
<1> DEFINE f == Forget(id)
<1>3. Shaped(f) /\ f.requiredRevision = client.requiredRevision
  BY <1>2, ForgetIs
<1> HIDE DEF f
<1>4. FinishFailed(f).requiredRevision = f.requiredRevision
  BY <1>3, FinishIs
<1>5. client'.requiredRevision = client.requiredRevision
  BY <1>1, <1>3, <1>4 DEF f
<1>6. ActiveTrue' /\ KnownTrue'
  BY <1>1, <1>5, ClientKnown DEF RefreshInv, RefreshTrue, KnownTrue
<1> QED
  BY <1>1, <1>6 DEF RefreshTrue, Followed

-----------------------------------------------------------------------------
(* The answers to a refresh *)

\* Nothing that is shown is newer than what the server has, and an active list is listed.
LEMMA BeginsNow ==
    ASSUME CollectionInv, ActiveTrue, NEW id, NEW c, c.view = client.view
    PROVE  Begins(c, Opened(id, data))
<1> DEFINE header == Opened(id, data)
<1>1. /\ header.revision = data.revision /\ header.active = data.active
      /\ header.deckPages = DeckPages(data)
  BY OpenedIs
<1> HIDE DEF header
<1>2. c.view # NoView => header.revision >= c.view.revision
  BY <1>1 DEF CollectionInv, ClientTrue, Shown, ServerTrue
<1>3. header.active # NoDeck => header.deckPages > 0
  <2> SUFFICES ASSUME data.active # NoDeck PROVE DeckPages(data) > 0
    BY <1>1
  <2> DEFINE K == DOMAIN data.decks
             size == Cardinality(K)
  <2>1. K # {} /\ IsFiniteSet(K)
    BY HeldNow, ListedIs DEF ActiveTrue, Keys
  <2> HIDE DEF K
  <2>2. size \in Nat /\ size # 0
    BY <2>1, FS_CardinalityType, FS_EmptySet
  <2> HIDE DEF size
  <2>3. SUMMARY_PAGE \in Nat \ {0}
    BY PageAssumption
  <2> DEFINE q == size \div SUMMARY_PAGE
             r == size % SUMMARY_PAGE
  <2>4. q \in Nat /\ r \in Nat /\ size = SUMMARY_PAGE * q + r
    BY <2>2, <2>3, DivIs
  <2>5. q = 0 => SUMMARY_PAGE * q = 0
    BY <2>3
  <2>6. Pages(size, SUMMARY_PAGE) = q + (IF r = 0 THEN 0 ELSE 1)
    BY DEF Pages
  <2> HIDE DEF q, r
  <2>7. Pages(size, SUMMARY_PAGE) > 0
    BY <2>2, <2>4, <2>5, <2>6
  <2> QED
    BY <2>7 DEF DeckPages, size, K
<1> QED
  BY <1>2, <1>3 DEF Begins, header

\* A page says nothing that the pages before it said, and the last leaves nothing out.
LEMMA PageFits ==
    ASSUME NEW map, IsMap(map), Keys(DOMAIN map), NEW limit \in Nat \ {0}, NEW n \in Nat,
           n < Pages(Cardinality(DOMAIN map), limit)
    PROVE  LET page == PageOf(map, limit, n)
               pages == Pages(Cardinality(DOMAIN map), limit)
           IN /\ FullPage(Cardinality(DOMAIN page), limit, n, pages)
              /\ DOMAIN page \cap DOMAIN Prefix(map, limit, n) = {}
              /\ n = pages - 1 => DOMAIN map \subseteq DOMAIN page \cup DOMAIN Prefix(map, limit, n)
<1> DEFINE page == PageOf(map, limit, n)
           before == Prefix(map, limit, n)
           pages == Pages(Cardinality(DOMAIN map), limit)
<1>1. FullPage(Cardinality(DOMAIN page), limit, n, pages)
  BY PageSize
<1>2. DOMAIN page \cap DOMAIN before = {}
  <2>1. ASSUME NEW key \in DOMAIN map
        PROVE  ~(Rank(key, DOMAIN map) \div limit = n /\ Rank(key, DOMAIN map) \div limit < n)
    OBVIOUS
  <2> QED
    BY <2>1 DEF PageOf, Prefix, Restrict
<1>3. n = pages - 1 => DOMAIN map \subseteq DOMAIN page \cup DOMAIN before
  <2> SUFFICES ASSUME n = pages - 1 PROVE DOMAIN map \subseteq DOMAIN page \cup DOMAIN before
    OBVIOUS
  <2>1. Joined(page, before) = Prefix(map, limit, n + 1)
    BY NextOfPages
  <2>2. n + 1 >= pages
    BY PagesInt
  <2>3. Prefix(map, limit, n + 1) = map
    BY <2>2, AllPages
  <2>4. DOMAIN Joined(page, before) = DOMAIN page \cup DOMAIN before
    BY DEF Joined
  <2> QED
    BY <2>1, <2>3, <2>4
<1> QED
  BY <1>1, <1>2, <1>3

\* The page the server answers with is the one the client is to accept.
LEMMA AcceptsNow ==
    ASSUME CollectionInv, ActiveTrue, Served, client.assembly.opened # NoHeader
    PROVE  LET a == client.assembly
               reply == Answered(NextPage(a))
           IN /\ Accepts(a, reply) /\ reply.op # "rejected" /\ reply.op \notin Telling
              /\ Matches(NextPage(a), reply)
<1> DEFINE a == client.assembly
           command == NextPage(a)
           reply == Answered(command)
           opened == a.opened
           owned == Owned(data.counts)
           decks == data.decks
<1>1. /\ held[data.revision] = data /\ Listed(data)
      /\ opened = Opened(snapshot.id, data) /\ command # NoPage
  BY HeldNow DEF Served
<1>2. /\ opened.revision = data.revision /\ opened.active = data.active /\ opened.snapshot = snapshot.id
      /\ opened.countPages = CountPages(data) /\ opened.deckPages = DeckPages(data)
  BY <1>1, OpenedIs
<1>3. /\ a.countIndex \in Nat /\ a.deckIndex \in Nat
      /\ a.counts = Prefix(owned, COUNT_PAGE, a.countIndex)
      /\ a.summaries = Prefix(decks, SUMMARY_PAGE, a.deckIndex)
  BY <1>1, <1>2 DEF CollectionInv, ClientTrue, AssemblyTrue, Assembled
<1>4. \/ /\ a.countIndex < opened.countPages /\ command = PageCommand(opened, "COUNTS", a.countIndex)
      \/ /\ a.deckIndex < opened.deckPages /\ command = PageCommand(opened, "DECKS", a.deckIndex)
  BY <1>1, NextPageIs
<1>5. /\ Keys(DOMAIN owned) /\ IsMap(owned) /\ Keys(DOMAIN decks) /\ IsMap(decks)
  BY <1>1, OwnedIs, ListedIs
<1>6. COUNT_PAGE \in Nat \ {0} /\ SUMMARY_PAGE \in Nat \ {0}
  BY PageAssumption
<1>7. command # Open /\ command.snapshot = snapshot.id /\ command.op = "page"
  BY <1>2, <1>4, PageCommandIs
<1>8. /\ reply.op = command.kind /\ reply.snapshot = snapshot.id /\ reply.revision = data.revision
      /\ reply.index = command.index
      /\ reply.entries = IF command.kind = "COUNTS" THEN PageOf(owned, COUNT_PAGE, command.index)
                         ELSE PageOf(decks, SUMMARY_PAGE, command.index)
  BY <1>7 DEF Answered
<1>9. /\ command.kind \in {"COUNTS", "DECKS"}
      /\ command.kind = "COUNTS" => a.countIndex < CountPages(data) /\ command.index = a.countIndex
      /\ command.kind = "DECKS" => a.deckIndex < DeckPages(data) /\ command.index = a.deckIndex
  <2> HIDE DEF reply, a, command, opened
  <2>1. \A kind, index : /\ PageCommand(opened, kind, index).kind = kind
                        /\ PageCommand(opened, kind, index).index = index
    BY PageCommandIs
  <2>2. CASE a.countIndex < opened.countPages /\ command = PageCommand(opened, "COUNTS", a.countIndex)
    <3>1. command.kind = "COUNTS" /\ command.index = a.countIndex
      BY <2>1, <2>2
    <3> QED
      BY <1>2, <2>2, <3>1
  <2>3. CASE a.deckIndex < opened.deckPages /\ command = PageCommand(opened, "DECKS", a.deckIndex)
    <3>1. command.kind = "DECKS" /\ command.index = a.deckIndex
      BY <2>1, <2>3
    <3> QED
      BY <1>2, <2>3, <3>1
  <2> QED
    BY <1>4, <2>2, <2>3
<1> DEFINE keys == DOMAIN reply.entries
           size == Cardinality(keys)
<1>10. ASSUME reply.op = "COUNTS"
       PROVE  FullPage(size, COUNT_PAGE, reply.index, opened.countPages) /\ keys \cap DOMAIN a.counts = {}
  <2> HIDE DEF reply, a, command, opened
  <2>1. a.countIndex < CountPages(data) /\ command.index = a.countIndex
    BY <1>8, <1>9, <1>10
  <2>2. reply.entries = PageOf(owned, COUNT_PAGE, a.countIndex)
    BY <1>8, <1>10, <2>1
  <2> HIDE DEF owned
  <2> QED
    BY <1>2, <1>3, <1>5, <1>6, <1>8, <2>1, <2>2, PageFits DEF CountPages, owned
<1>11. ASSUME reply.op # "COUNTS"
       PROVE  /\ FullPage(size, SUMMARY_PAGE, reply.index, opened.deckPages)
              /\ keys \cap DOMAIN a.summaries = {}
              /\ reply.index = opened.deckPages - 1 =>
                   opened.active \in keys \cup DOMAIN a.summaries \cup {NoDeck}
  <2> HIDE DEF reply, a, command, opened
  <2>1. a.deckIndex < DeckPages(data) /\ command.index = a.deckIndex
    BY <1>8, <1>9, <1>11
  <2>2. reply.entries = PageOf(decks, SUMMARY_PAGE, a.deckIndex)
    BY <1>8, <1>11, <2>1
  <2>3. data.active \in DOMAIN decks \cup {NoDeck}
    BY DEF ActiveTrue
  <2> HIDE DEF decks
  <2>4. /\ FullPage(size, SUMMARY_PAGE, a.deckIndex, DeckPages(data))
        /\ keys \cap DOMAIN a.summaries = {}
        /\ a.deckIndex = DeckPages(data) - 1 => DOMAIN decks \subseteq keys \cup DOMAIN a.summaries
    BY <1>3, <1>5, <1>6, <2>1, <2>2, PageFits DEF DeckPages, decks
  <2> QED
    BY <1>2, <1>8, <2>1, <2>3, <2>4
<1> HIDE DEF reply, a, command, opened, keys, size
<1>12. Accepts(a, reply)
  BY <1>1, <1>2, <1>7, <1>8, <1>10, <1>11 DEF Accepts, command, opened, keys, size
<1>13. reply.op # "rejected" /\ reply.op \notin Telling /\ Matches(command, reply)
  BY <1>7, <1>8, <1>9 DEF Matches, Telling
<1> QED
  BY <1>12, <1>13 DEF a, command, reply

LEMMA LearnsNothing ==
    ASSUME NEW c, NEW reply, reply.op \notin Telling
    PROVE  Learn(c, reply) = c
BY DEF Learn, Telling

\* The answer of a refresh that was not disturbed takes it on, or to its end.
LEMMA PulledFollows ==
    ASSUME RefreshInv, ~disturbed, client.awaited # NoId, NEW reply,
           \E packet \in Range(toClient) : packet.id = client.awaited /\ packet.reply = reply,
           NEW id, NEW f, Shaped(f), f.assembly = client.assembly, f.view = client.view,
           f.requiredRevision = client.requiredRevision,
           f.refreshingRevision = client.refreshingRevision,
           NEW command, command = client.pending[client.awaited],
           NEW d, d = Pulled(Learn(f, reply), command, reply, id)
    PROVE  /\ Served /\ Matches(command, reply) /\ d.requiredRevision = client.requiredRevision
           /\ \/ /\ d.awaited = NoId /\ d.pending = f.pending
                 /\ d.assembly = NoAssembly => d.view # NoView /\ d.view.revision = data.revision
              \/ /\ d.awaited = id /\ d.assembly.opened # NoHeader
                 /\ d.assembly.opened = Opened(snapshot.id, data)
                 /\ d.refreshingRevision = data.revision
                 /\ NextPage(d.assembly) # NoPage
                 /\ d.pending = Put(f.pending, id, NextPage(d.assembly))
<1>1. /\ CollectionInv /\ ActiveTrue /\ KnownTrue
      /\ AssemblyTrue(client.assembly, held) /\ Shown(client.view, held) /\ Kept(held)
  BY DEF RefreshInv, RefreshTrue, CollectionInv, ClientTrue, ServerTrue
<1>2. Served /\ reply = Answered(command)
  BY DEF RefreshInv, RefreshTrue, Followed, Waiting, Served
<1>3. data.revision \in Nat /\ client.requiredRevision \in Nat /\ client.requiredRevision <= data.revision
  BY <1>1, HeldNow DEF KnownTrue
<1>4. \A v : v.revision = data.revision => v # NoView
  BY <1>3 DEF NoView
<1>5. CASE command = Open
  <2>1. reply = Opened(snapshot.id, data)
    BY <1>2, <1>5 DEF Answered
  <2>2. reply.op = "opened" /\ reply.revision = data.revision /\ reply # NoHeader
    BY <2>1, OpenedIs
  <2>3. Learn(f, reply) = f
    BY <2>2, LearnsNothing DEF Telling
  <2>4. PICK b : b = [f EXCEPT !.refreshingRevision = reply.revision]
    OBVIOUS
  <2>5. /\ Shaped(b) /\ b.view = f.view /\ b.pending = f.pending
        /\ b.requiredRevision = f.requiredRevision /\ b.refreshingRevision = data.revision
    BY <2>2, <2>4 DEF Shaped, Fields
  <2>6. Begins(f, reply)
    BY <1>1, <2>1, BeginsNow
  <2> DEFINE e == Begin(b, reply)
  <2>7. d = PullPage(e, id)
    BY <1>3, <1>5, <2>2, <2>3, <2>4, <2>6 DEF Pulled
  <2>8. Tells(reply, held)
    BY <1>1, <2>1, <2>2, OpenedIs, HeldNow DEF Tells, CollectionInv, ServerTrue
  <2>9. Kept(held) /\ Shaped(b) /\ Shown(b.view, held) /\ reply.op = "opened" /\ Tells(reply, held)
    BY <1>1, <2>2, <2>5, <2>8
  <2>10. /\ Shaped(e) /\ AssemblyTrue(e.assembly, held) /\ e.pending = b.pending
         /\ e.requiredRevision = b.requiredRevision /\ e.refreshingRevision = b.refreshingRevision
         /\ IF e.assembly = NoAssembly THEN e.view.revision = reply.revision
            ELSE e.assembly = [NoAssembly EXCEPT !.opened = reply]
    <3> DEFINE D(x) ==
                 /\ Shaped(x) /\ AssemblyTrue(x.assembly, held) /\ Shown(x.view, held)
                 /\ x.pending = b.pending /\ x.awaited = b.awaited
                 /\ x.requiredRevision = b.requiredRevision
                 /\ x.refreshingRevision = b.refreshingRevision
                 /\ IF x.assembly = NoAssembly THEN x.view.revision = reply.revision
                    ELSE x.assembly = [NoAssembly EXCEPT !.opened = reply]
    <3>1. D(e)
      BY ONLY <2>9, BeginIs
    <3> QED
      BY <3>1
  <2> HIDE DEF e
  <2>11. /\ d.assembly = e.assembly /\ d.view = e.view
         /\ d.requiredRevision = e.requiredRevision /\ d.refreshingRevision = e.refreshingRevision
         /\ IF NextPage(e.assembly) = NoPage THEN d.awaited = NoId /\ d.pending = e.pending
            ELSE d.awaited = id /\ d.pending = Put(e.pending, id, NextPage(e.assembly))
    BY <2>7, <2>10, PullPageIs
  <2>12. PICK first : first = [NoAssembly EXCEPT !.opened = reply]
    OBVIOUS
  <2>17. "opened" \in DOMAIN NoAssembly
    BY DEF NoAssembly
  <2>18. first.opened = reply
    BY <2>12, <2>17
  <2>16. NextPage(NoAssembly) = NoPage
    BY DEF NextPage, NoAssembly
  <2>13. Matches(command, reply)
    BY <1>5, <2>2, OpenIs DEF Matches
  <2>14. d.assembly = NoAssembly => d.view # NoView /\ d.view.revision = data.revision
    BY <1>4, <2>2, <2>10, <2>11
  <2>15. d.assembly # NoAssembly =>
           d.assembly.opened # NoHeader /\ d.assembly.opened = Opened(snapshot.id, data)
    <3> SUFFICES ASSUME d.assembly # NoAssembly
                 PROVE  d.assembly.opened # NoHeader /\ d.assembly.opened = Opened(snapshot.id, data)
      OBVIOUS
    <3>1. d.assembly = first
      BY <2>10, <2>11, <2>12
    <3> QED
      BY <2>1, <2>2, <2>18, <3>1
  <2> QED
    BY <1>2, <2>5, <2>10, <2>11, <2>16, <2>13, <2>14, <2>15
<1>6. CASE command # Open
  <2>1. client.assembly.opened # NoHeader /\ command = NextPage(client.assembly)
    BY <1>1, <1>6, AwaitedIs
  <2>2. Accepts(f.assembly, reply) /\ reply.op # "rejected" /\ reply.op \notin Telling
        /\ Matches(command, reply)
    BY <1>1, <1>2, <2>1, AcceptsNow
  <2>3. Learn(f, reply) = f
    BY <2>2, LearnsNothing
  <2>4. /\ f.assembly.opened = Opened(snapshot.id, data) /\ f.refreshingRevision = data.revision
    BY <1>2, <2>1 DEF Served
  <2>5. f.assembly.opened.revision = data.revision
    BY <2>4, OpenedIs
  <2>6. f.assembly.opened # NoHeader /\ Assembled(f.assembly, held) /\ Shown(f.view, held)
    BY <1>1, <2>1 DEF AssemblyTrue
  <2> DEFINE e == Accept(f, reply)
  <2>7. d = PullPage(e, id)
    BY <1>3, <1>6, <2>2, <2>3, <2>4 DEF Pulled
  <2>8. Tells(reply, held)
    <3>1. PICK packet \in Range(toClient) : packet.id = client.awaited /\ packet.reply = reply
      OBVIOUS
    <3>2. command.kind \in {"COUNTS", "DECKS"}
      <4>1. NextPage(client.assembly) # NoPage
        BY <1>2, <2>1 DEF Served
      <4> QED
        BY <2>1, <4>1, NextPageIs, PageCommandIs
    <3>3. data.revision \in DOMAIN held /\ held[data.revision] = data
      BY <1>1 DEF CollectionInv, ServerTrue
    <3> QED
      BY <1>2, <1>6, <3>2, <3>3 DEF Answered, Tells
  <2>9. /\ Shaped(e) /\ AssemblyTrue(e.assembly, held) /\ e.pending = f.pending
        /\ e.requiredRevision = f.requiredRevision /\ e.refreshingRevision = f.refreshingRevision
        /\ IF e.assembly = NoAssembly THEN e.view.revision = f.assembly.opened.revision
           ELSE /\ e.assembly.opened = f.assembly.opened
                /\ NextPage(e.assembly) # NoPage
    BY <1>1, <2>2, <2>6, <2>8, AcceptIs
  <2> HIDE DEF e
  <2>10. /\ d.assembly = e.assembly /\ d.view = e.view
         /\ d.requiredRevision = e.requiredRevision /\ d.refreshingRevision = e.refreshingRevision
         /\ IF NextPage(e.assembly) = NoPage THEN d.awaited = NoId /\ d.pending = e.pending
            ELSE d.awaited = id /\ d.pending = Put(e.pending, id, NextPage(e.assembly))
    BY <2>7, <2>9, PullPageIs
  <2>11. NextPage(NoAssembly) = NoPage
    BY DEF NextPage, NoAssembly
  <2>12. d.assembly = NoAssembly => d.view # NoView /\ d.view.revision = data.revision
    BY <1>4, <2>5, <2>9, <2>10
  <2>13. d.assembly # NoAssembly =>
           d.assembly.opened # NoHeader /\ d.assembly.opened = Opened(snapshot.id, data)
    BY <2>4, <2>6, <2>9, <2>10
  <2> QED
    BY <1>2, <2>2, <2>4, <2>9, <2>10, <2>11, <2>12, <2>13
<1> QED
  BY <1>5, <1>6

EndsWell == RefreshEnds => disturbed' \/ (client'.view # NoView /\ client'.view.revision = data.revision)

\* Whatever the reply, the refresh goes on to a page or ends.
LEMMA PulledGoes ==
    ASSUME CollectionInv, NEW c, Shaped(c), c.assembly = client.assembly, c.view = client.view,
           NEW id, NEW command, NEW reply, Tells(reply, held), Matches(command, reply),
           command = IF client.assembly.opened = NoHeader THEN Open ELSE NextPage(client.assembly)
    PROVE  LET d == Pulled(c, command, reply, id)
           IN /\ d.requiredRevision = c.requiredRevision
              /\ \/ d.awaited = NoId /\ d.pending = c.pending
                 \/ \E page : page # Open /\ d.awaited = id /\ d.pending = Put(c.pending, id, page)
<1> DEFINE Goes(d) == /\ d.requiredRevision = c.requiredRevision
                      /\ \/ d.awaited = NoId /\ d.pending = c.pending
                         \/ \E page : page # Open /\ d.awaited = id /\ d.pending = Put(c.pending, id, page)
<1>1. AssemblyTrue(c.assembly, held) /\ Shown(c.view, held) /\ Kept(held)
  BY DEF CollectionInv, ClientTrue, ServerTrue
<1>2. Goes(FinishFailed(c))
  <2> DEFINE d == FinishFailed(c)
  <2>1. d.requiredRevision = c.requiredRevision /\ d.awaited = NoId /\ d.pending = c.pending
    BY FinishIs
  <2> HIDE DEF d
  <2>2. Goes(d)
    BY <2>1
  <2> QED
    BY <2>2 DEF d
<1>3. ASSUME NEW e, Shaped(e), AssemblyTrue(e.assembly, held), e.pending = c.pending,
             e.requiredRevision = c.requiredRevision
      PROVE  Goes(PullPage(e, id))
  <2> DEFINE d == PullPage(e, id)
             page == NextPage(e.assembly)
  <2>1. /\ d.requiredRevision = e.requiredRevision
        /\ IF page = NoPage THEN d.awaited = NoId /\ d.pending = e.pending
           ELSE d.awaited = id /\ d.pending = Put(e.pending, id, page)
    BY <1>3, PullPageIs
  <2>2. page # Open
    <3>1. CASE e.assembly.opened = NoHeader
      BY <3>1 DEF NextPage, NoPage, Open
    <3>2. CASE e.assembly.opened # NoHeader
      BY <3>2, NextPageIs, PageCommandIs DEF NoPage, Open
    <3> QED
      BY <3>1, <3>2
  <2> HIDE DEF d, page
  <2>3. Goes(d)
    BY <1>3, <2>1, <2>2
  <2> QED
    BY <2>3 DEF d
<1>4. CASE reply.op # "rejected" /\ command = Open
  <2>1. reply.op = "opened"
    BY <1>4, OpenIs DEF Matches, Mutations, Transfers
  <2>2. PICK b : b = [c EXCEPT !.refreshingRevision = reply.revision]
    OBVIOUS
  <2>3. /\ Shaped(b) /\ b.view = c.view /\ b.pending = c.pending
        /\ b.requiredRevision = c.requiredRevision
    BY <2>2 DEF Shaped, Fields
  <2> DEFINE e == Begin(b, reply)
  <2>4. Pulled(c, command, reply, id) \in {FinishFailed(c), PullPage(e, id)}
    BY <1>4, <2>2 DEF Pulled
  <2>5. Kept(held) /\ Shaped(b) /\ Shown(b.view, held) /\ reply.op = "opened" /\ Tells(reply, held)
    BY <1>1, <2>1, <2>3
  <2>6. /\ Shaped(e) /\ AssemblyTrue(e.assembly, held) /\ e.pending = b.pending
        /\ e.requiredRevision = b.requiredRevision
    <3> DEFINE D(x) ==
                 /\ Shaped(x) /\ AssemblyTrue(x.assembly, held) /\ Shown(x.view, held)
                 /\ x.pending = b.pending /\ x.awaited = b.awaited
                 /\ x.requiredRevision = b.requiredRevision
                 /\ x.refreshingRevision = b.refreshingRevision
                 /\ IF x.assembly = NoAssembly THEN x.view.revision = reply.revision
                    ELSE x.assembly = [NoAssembly EXCEPT !.opened = reply]
    <3>1. D(e)
      BY ONLY <2>5, BeginIs
    <3> QED
      BY <3>1
  <2> HIDE DEF e, Goes
  <2>7. Goes(PullPage(e, id))
    BY <1>3, <2>3, <2>6
  <2>8. Goes(Pulled(c, command, reply, id))
    BY <1>2, <2>4, <2>7
  <2> QED
    BY <2>8 DEF Goes
<1>5. CASE reply.op # "rejected" /\ command # Open
  <2> DEFINE e == Accept(c, reply)
  <2>1. \/ Pulled(c, command, reply, id) = FinishFailed(c)
        \/ Accepts(c.assembly, reply) /\ Pulled(c, command, reply, id) = PullPage(e, id)
    BY <1>5 DEF Pulled
  <2>2. ASSUME Accepts(c.assembly, reply)
        PROVE  /\ Shaped(e) /\ AssemblyTrue(e.assembly, held) /\ e.pending = c.pending
               /\ e.requiredRevision = c.requiredRevision
    <3>1. c.assembly.opened # NoHeader /\ Assembled(c.assembly, held)
      BY <1>1, <1>5 DEF AssemblyTrue
    <3> QED
      BY <1>1, <2>2, <3>1, AcceptIs
  <2> HIDE DEF e, Goes
  <2>3. Goes(Pulled(c, command, reply, id))
    BY <1>2, <1>3, <2>1, <2>2
  <2> QED
    BY <2>3 DEF Goes
<1>6. CASE reply.op = "rejected"
  <2>1. Pulled(c, command, reply, id) = FinishFailed(c)
    BY <1>6 DEF Pulled
  <2> QED
    BY <1>2, <2>1
<1> QED
  BY <1>4, <1>5, <1>6

\* What a reply tells of is no newer than what the server has.
LEMMA LearnsKnown ==
    ASSUME RefreshInv, NEW packet \in Range(toClient), packet.connection = connection.generation,
           NEW f, Shaped(f), f.requiredRevision = client.requiredRevision
    PROVE  LET c == Learn(f, packet.reply)
           IN c.requiredRevision \in Nat /\ c.requiredRevision <= data.revision
<1> DEFINE reply == packet.reply
           c == Learn(f, reply)
<1>1. f.requiredRevision \in Nat /\ f.requiredRevision <= data.revision
  BY DEF RefreshInv, RefreshTrue, KnownTrue
<1>2. reply.op \in Telling => reply.revision \in Nat /\ reply.revision <= data.revision
  BY DEF RefreshInv, RefreshTrue, KnownTrue
<1> HIDE DEF reply
<1>3. c.requiredRevision \in Nat /\ c.requiredRevision <= data.revision
  <2>1. CASE reply.op \notin Telling
    BY <1>1, <2>1, LearnsNothing
  <2>2. CASE reply.op \in Telling
    <3>1. c.requiredRevision \in {f.requiredRevision, reply.revision}
      BY LearnIs
    <3> HIDE DEF c
    <3> QED
      BY <1>1, <1>2, <2>2, <3>1
  <2> QED
    BY <2>1, <2>2
<1> QED
  BY <1>3 DEF reply

\* The refresh asks for its next page.
LEMMA NextServed ==
    ASSUME CollectionInv, Served, UNCHANGED <<data, snapshot>>, Range(toClient') \subseteq Range(toClient),
           NEW id, id = FreshId, NEW page, page.op # "open",
           client'.awaited = id, client'.pending[id] = page,
           toServer' = Append(toServer, [id |-> id, command |-> page]),
           client'.assembly.opened = Opened(snapshot.id, data), NextPage(client'.assembly) # NoPage,
           client'.refreshingRevision = data.revision
    PROVE  Served'
<1>1. IsQueue(toServer) /\ (\A packet \in Range(toClient') : packet.id # client'.awaited)
  BY FreshNamed DEF CollectionInv, PacketsTrue
<1>2. PICK e : e = [id |-> id, command |-> page]
  OBVIOUS
<1>3. e.id = id /\ e.command = page /\ toServer' = Append(toServer, e)
  BY <1>2
<1>4. Range(toServer') = Range(toServer) \cup {e}
  BY <1>1, <1>3, Enqueued
<1>5. \A request \in Range(toServer') :
        /\ request.command.op # "open"
        /\ request.id = client'.awaited => request.command = client'.pending[client'.awaited]
  BY <1>3, <1>4, FreshNamed DEF Served
<1>6. Opened(snapshot.id, data)' = Opened(snapshot.id, data)
  OBVIOUS
<1> QED
  BY <1>1, <1>5, <1>6 DEF Served

\* The refresh's request is answered.
LEMMA AwaitedRefresh ==
    ASSUME RefreshInv, connection.up, UNCHANGED <<serverVars, netVars>>,
           Range(toClient') \subseteq Range(toClient),
           NEW packet \in Range(toClient), packet.connection = connection.generation,
           packet.id = client.awaited, client.awaited # NoId, Complete(packet.id, packet.reply)
    PROVE  RefreshTrue' /\ EndsWell
<1> DEFINE id == packet.id
           reply == packet.reply
           command == client.pending[id]
           f == Forget(id)
           c == Learn(f, reply)
<1>0. PICK new : new = FreshId
  OBVIOUS
<1>1. /\ CollectionInv /\ Shaped(client) /\ IsQueue(toServer) /\ id \in DOMAIN client.pending
      /\ command = IF client.assembly.opened = NoHeader THEN Open ELSE NextPage(client.assembly)
      /\ Tells(reply, held)
  BY AwaitedIs DEF RefreshInv, CollectionInv, ClientTrue, Awaits, PacketsTrue, PacketTrue
<1>2. new \notin DOMAIN client.pending /\ new # NoId
  BY <1>0, <1>1, FreshNamed
<1>3. /\ Shaped(f) /\ f.pending = Restrict(client.pending, DOMAIN client.pending \ {id})
      /\ f.awaited = client.awaited /\ f.view = client.view /\ f.assembly = client.assembly
      /\ f.requiredRevision = client.requiredRevision
      /\ f.refreshingRevision = client.refreshingRevision
  BY <1>1, ForgetIs
<1>4. IF Matches(command, reply) THEN ClientStep(Pulled(c, command, reply, new))
      ELSE ClientStep(FinishFailed(f))
  BY <1>0 DEF Complete
<1>5. c.requiredRevision \in Nat /\ c.requiredRevision <= data.revision
  BY <1>3, LearnsKnown
<1>6. client.requiredRevision \in Nat /\ client.requiredRevision <= data.revision
  BY DEF RefreshInv, RefreshTrue, KnownTrue
<1>7. UNCHANGED <<data, snapshot, connection>>
  BY DEF serverVars, netVars
<1> HIDE DEF f
<1>8. /\ Shaped(c) /\ c.pending = f.pending /\ c.awaited = f.awaited /\ c.view = f.view
      /\ c.assembly = f.assembly
  <2> DEFINE L(d) ==
               /\ Shaped(d)
               /\ d.pending = f.pending /\ d.awaited = f.awaited /\ d.view = f.view
               /\ d.assembly = f.assembly /\ d.refreshingRevision = f.refreshingRevision
               /\ d.requiredRevision \in {f.requiredRevision, reply.revision}
  <2>1. Shaped(f)
    BY <1>3
  <2>2. L(c)
    BY ONLY <2>1, LearnIs
  <2> QED
    BY <2>2
<1>9. DOMAIN f.pending \subseteq DOMAIN client.pending
  BY <1>3 DEF Restrict
<1> HIDE DEF c, command
\* Whether it goes on or ends.
<1>10. PICK d : /\ ClientStep(d) /\ d = IF Matches(command, reply) THEN Pulled(c, command, reply, new)
                                        ELSE FinishFailed(f)
  BY <1>4
<1>11. /\ d.requiredRevision \in Nat /\ d.requiredRevision <= data.revision
       /\ \/ d.awaited = NoId /\ d.pending = f.pending
          \/ \E page : page # Open /\ d.awaited = new /\ d.pending = Put(f.pending, new, page)
  <2>1. CASE Matches(command, reply)
    <3>1. /\ d.requiredRevision = c.requiredRevision
          /\ \/ d.awaited = NoId /\ d.pending = c.pending
             \/ \E page : page # Open /\ d.awaited = new /\ d.pending = Put(c.pending, new, page)
      <4>1. d = Pulled(c, command, reply, new)
        BY <1>10, <2>1
      <4> HIDE DEF reply
      <4> QED
        BY <1>1, <1>3, <1>8, <2>1, <4>1, PulledGoes
    <3> QED
      BY <1>5, <1>8, <3>1
  <2>2. CASE ~Matches(command, reply)
    <3>1. d = FinishFailed(f)
      BY <1>10, <2>2
    <3>2. d.requiredRevision = f.requiredRevision /\ d.awaited = NoId /\ d.pending = f.pending
      BY <1>3, <3>1, FinishIs
    <3> QED
      BY <1>3, <1>6, <3>2
  <2> QED
    BY <2>1, <2>2
<1>12. /\ d.awaited # NoId => d.awaited = new /\ new \in DOMAIN d.pending /\ d.pending[new] # Open
       /\ DOMAIN d.pending \subseteq DOMAIN client.pending \cup {new}
  BY <1>9, <1>11 DEF Put
<1>13. /\ client' = d
       /\ IF new \in DOMAIN d.pending
          THEN toServer' = Append(toServer, [id |-> new, command |-> d.pending[new]])
          ELSE UNCHANGED toServer
  BY <1>1, <1>2, <1>10, <1>12, StepSends
<1>14. disturbed' <=> disturbed
  <2>1. NoId \notin DOMAIN client.pending /\ (d.awaited = NoId => DOMAIN d.pending \subseteq DOMAIN client.pending)
    BY <1>1, <1>2, <1>9, <1>11 DEF CollectionInv, ClientTrue, Put
  <2> QED
    BY <1>10, <1>12, <2>1, StepDisturbs
<1>15. ActiveTrue' /\ KnownTrue'
  BY <1>7, <1>11, <1>13, ClientKnown
<1>16. CASE disturbed
  BY <1>14, <1>15, <1>16 DEF RefreshTrue, Followed, EndsWell
<1>17. CASE ~disturbed
  <2>1. PICK e : e = Pulled(Learn(f, reply), command, reply, new)
    OBVIOUS
  <2>2. /\ Served /\ Matches(command, reply)
        /\ \/ /\ e.awaited = NoId /\ e.pending = f.pending
              /\ e.assembly = NoAssembly => e.view # NoView /\ e.view.revision = data.revision
           \/ /\ e.awaited = new /\ e.assembly.opened # NoHeader
              /\ e.assembly.opened = Opened(snapshot.id, data)
              /\ e.refreshingRevision = data.revision
              /\ NextPage(e.assembly) # NoPage
              /\ e.pending = Put(f.pending, new, NextPage(e.assembly))
    <3>1. command = client.pending[client.awaited]
      BY DEF command
    <3>2. \E p \in Range(toClient) : p.id = client.awaited /\ p.reply = reply
      OBVIOUS
    <3> HIDE DEF reply
    <3> QED
      BY <1>3, <1>17, <2>1, <3>1, <3>2, PulledFollows
  <2>3. d = e
    BY <1>10, <2>1, <2>2 DEF c
  <2>4. CASE /\ d.awaited = NoId
             /\ d.assembly = NoAssembly => d.view # NoView /\ d.view.revision = data.revision
    BY <1>13, <1>15, <2>4 DEF RefreshTrue, Followed, EndsWell, RefreshEnds
  <2>5. CASE /\ d.awaited = new /\ d.assembly.opened = Opened(snapshot.id, data)
             /\ d.refreshingRevision = data.revision /\ NextPage(d.assembly) # NoPage
             /\ d.pending = Put(f.pending, new, NextPage(d.assembly))
             /\ d.assembly.opened # NoHeader
    <3>1. new \in DOMAIN d.pending /\ d.pending[new] = NextPage(d.assembly)
      BY <2>5 DEF Put
    <3>2. NextPage(d.assembly).op = "page"
      BY <2>5, NextPageIs, PageCommandIs DEF NoPage
    <3>3. Served'
      BY <1>0, <1>1, <1>7, <1>13, <2>2, <2>5, <3>1, <3>2, NextServed
    <3>4. EndsWell
      BY <1>2, <1>13, <2>5 DEF EndsWell, RefreshEnds
    <3> QED
      BY <1>15, <3>3, <3>4 DEF RefreshTrue, Followed
  <2> QED
    BY <2>2, <2>3, <2>4, <2>5
<1> QED
  BY <1>16, <1>17

\* To ask for the view does not end a refresh.
LEMMA RefreshKeepsOn ==
    ASSUME CollectionInv, NEW new, new = FreshId, NEW c, Shaped(c), Awaits(c),
           c.assembly = client.assembly, DOMAIN c.pending \subseteq DOMAIN client.pending,
           c.awaited # NoId, NEW d \in {c, Refresh(c, new)}
    PROVE  d.awaited # NoId
<1>1. new \notin DOMAIN c.pending /\ new # NoId /\ AssemblyTrue(c.assembly, held)
  BY FreshNamed DEF CollectionInv, ClientTrue
<1> DEFINE r == Refresh(c, new)
<1>2. r = c \/ r.awaited = new
  BY <1>1, RefreshIs
<1> HIDE DEF r
<1>3. r.awaited # NoId
  BY <1>1, <1>2
<1> QED
  BY <1>3 DEF r

\* Another request is answered.
LEMMA OtherRefresh ==
    ASSUME RefreshInv, connection.up, UNCHANGED <<serverVars, netVars>>,
           Range(toClient') \subseteq Range(toClient),
           NEW packet \in Range(toClient), packet.connection = connection.generation,
           packet.id \in DOMAIN client.pending, packet.id # client.awaited,
           Complete(packet.id, packet.reply)
    PROVE  RefreshTrue' /\ EndsWell
<1> DEFINE id == packet.id
           reply == packet.reply
           f == Forget(id)
           c == Learn(f, reply)
<1>0. PICK new : new = FreshId
  OBVIOUS
<1>1. CollectionInv /\ Shaped(client) /\ Awaits(client)
  BY DEF RefreshInv, CollectionInv, ClientTrue
<1>2. /\ Shaped(f) /\ f.pending = Restrict(client.pending, DOMAIN client.pending \ {id})
      /\ f.awaited = client.awaited /\ f.view = client.view /\ f.assembly = client.assembly
      /\ f.requiredRevision = client.requiredRevision
      /\ f.refreshingRevision = client.refreshingRevision
  BY <1>1, ForgetIs
<1>3. \/ ClientStep(f)
      \/ \E d \in {c, Refresh(c, new)} : ClientStep(d)
  BY <1>0 DEF Complete
<1>4. c.requiredRevision \in Nat /\ c.requiredRevision <= data.revision
  BY <1>2, LearnsKnown
<1>5. UNCHANGED <<data, snapshot, connection>>
  BY DEF serverVars, netVars
<1> HIDE DEF f
<1>6. /\ Shaped(c) /\ c.pending = f.pending /\ c.awaited = f.awaited
      /\ c.assembly = f.assembly /\ c.refreshingRevision = f.refreshingRevision
  BY <1>2, LearnIs
<1> HIDE DEF c
<1>7. f.requiredRevision \in Nat /\ f.requiredRevision <= data.revision
  BY <1>2 DEF RefreshInv, RefreshTrue, KnownTrue
<1>8. /\ DOMAIN f.pending \subseteq DOMAIN client.pending
      /\ client.awaited # NoId => f.pending[client.awaited] = client.pending[client.awaited]
      /\ client.awaited # NoId => client.awaited \in DOMAIN f.pending
  BY <1>1, <1>2, AwaitedIs DEF Restrict
<1>9. Awaits(f) /\ Awaits(c)
  BY <1>1, <1>2, <1>6, <1>8 DEF Awaits
<1>10. CASE ClientStep(f)
  <2>1. RefreshTrue'
    BY <1>0, <1>2, <1>5, <1>7, <1>8, <1>9, <1>10, RefreshFollowed
  <2> QED
    BY <1>2, <1>10, <2>1 DEF ClientStep, EndsWell, RefreshEnds
<1>11. ASSUME NEW d \in {c, Refresh(c, new)}, ClientStep(d)
       PROVE  RefreshTrue' /\ EndsWell
  <2>1. RefreshTrue'
    BY <1>0, <1>2, <1>4, <1>5, <1>6, <1>8, <1>9, <1>11, RefreshFollowed
  <2>2. client' = d
    BY <1>11 DEF ClientStep
  <2>3. client.awaited # NoId => d.awaited # NoId
    BY <1>0, <1>1, <1>2, <1>6, <1>8, <1>9, <1>11, RefreshKeepsOn
  <2> QED
    BY <2>1, <2>2, <2>3 DEF EndsWell, RefreshEnds
<1> QED
  BY <1>3, <1>10, <1>11

LEMMA ReceiveRefresh == ASSUME RefreshInv, Receive PROVE RefreshTrue' /\ EndsWell
<1>1. PICK packet : packet = Head(toClient)
  OBVIOUS
<1>2. /\ toClient # <<>> /\ toClient' = Tail(toClient) /\ UNCHANGED <<serverVars, netVars>>
      /\ IF /\ connection.up /\ packet.connection = connection.generation
            /\ packet.id \in DOMAIN client.pending
         THEN Complete(packet.id, packet.reply)
         ELSE UNCHANGED <<client, toServer, disturbed, handed>>
  BY <1>1 DEF Receive
<1>3. CollectionInv /\ NoId \notin DOMAIN client.pending
  BY DEF RefreshInv, CollectionInv, ClientTrue
<1>4. Range(toClient') \subseteq Range(toClient) /\ packet \in Range(toClient)
  BY <1>1, <1>2, <1>3, Dequeued DEF CollectionInv, PacketsTrue
<1>5. CASE /\ connection.up /\ packet.connection = connection.generation
           /\ packet.id \in DOMAIN client.pending
  <2>1. Complete(packet.id, packet.reply) /\ UNCHANGED <<serverVars, netVars>>
    BY <1>2, <1>5
  <2>2. CASE packet.id = client.awaited
    <3>1. client.awaited # NoId
      BY <1>3, <1>5, <2>2
    <3> QED
      BY <1>4, <1>5, <2>1, <2>2, <3>1, AwaitedRefresh
  <2>3. CASE packet.id # client.awaited
    BY <1>4, <1>5, <2>1, <2>3, OtherRefresh
  <2> QED
    BY <2>2, <2>3
<1>6. CASE UNCHANGED <<client, toServer, disturbed, handed>>
  <2>1. UNCHANGED <<data, snapshot, connection>>
    BY <1>2 DEF serverVars, netVars
  <2>2. client.requiredRevision \in Nat /\ client.requiredRevision <= data.revision
    BY DEF RefreshInv, RefreshTrue, KnownTrue
  <2>3. ActiveTrue' /\ KnownTrue'
    BY <1>4, <1>6, <2>1, <2>2, ClientKnown
  <2>4. Followed'
    BY <1>4, <1>6, <2>1, GoesOn
  <2> QED
    BY <1>6, <2>3, <2>4 DEF RefreshTrue, EndsWell, RefreshEnds
<1> QED
  BY <1>2, <1>5, <1>6

LEMMA ResetRefreshes ==
    ASSUME CollectionInv
    PROVE  Reset(client).requiredRevision = 0 /\ Reset(client).awaited = NoId
BY DEF Reset, CollectionInv, ClientTrue, Shaped, Fields

LEMMA DisconnectRefresh == ASSUME RefreshInv, Disconnect PROVE RefreshTrue' /\ EndsWell
<1>1. PICK received \in 0..Len(toClient) : toClient' = SubSeq(toClient, 1, received)
  BY DEF Disconnect
<1>2. /\ connection' = [up |-> FALSE, generation |-> connection.generation + 1]
      /\ client' = Reset(client) /\ UNCHANGED data
  BY DEF Disconnect, serverVars
<1>3. connection'.up = FALSE /\ connection'.generation = connection.generation + 1
  BY <1>2
<1>4. CollectionInv /\ connection.generation \in Nat /\ data.revision \in Nat
  BY DEF RefreshInv, CollectionInv, ServerTrue
<1>5. Range(toClient') \subseteq Range(toClient)
  BY <1>1, <1>4, Received DEF CollectionInv, PacketsTrue
<1>6. \A packet \in Range(toClient') : packet.connection # connection'.generation
  <2>1. \A packet \in Range(toClient) :
          packet.connection \in Nat /\ packet.connection <= connection.generation
    BY <1>4 DEF CollectionInv, PacketsTrue, PacketTrue
  <2> QED
    BY <1>3, <1>4, <1>5, <2>1
<1>7. client'.requiredRevision = 0 /\ client'.awaited = NoId
  BY <1>2, <1>4, ResetRefreshes
<1>8. KnownTrue'
  BY <1>2, <1>4, <1>6, <1>7 DEF KnownTrue
<1>9. ActiveTrue' /\ Followed'
  BY <1>2, <1>7 DEF RefreshInv, RefreshTrue, ActiveTrue, Followed
<1>10. EndsWell
  BY <1>3 DEF EndsWell, RefreshEnds
<1> QED
  BY <1>8, <1>9, <1>10 DEF RefreshTrue

LEMMA ConnectRefresh ==
    ASSUME RefreshInv, NEW world \in Worlds \cup {[data |-> data, slots |-> slots]}, Connect(world)
    PROVE  RefreshTrue' /\ EndsWell
<1>1. PICK new : new = world.data
  OBVIOUS
<1>2. /\ ~connection.up
      /\ connection' = [up |-> TRUE, generation |-> connection.generation + 1]
      /\ client' = Reset(client) /\ data' = new /\ UNCHANGED toClient
  BY <1>1 DEF Connect
<1>3. connection'.generation = connection.generation + 1
  BY <1>2
<1>4. CollectionInv /\ connection.generation \in Nat /\ client.awaited = NoId
  BY <1>2 DEF RefreshInv, CollectionInv, ServerTrue, ClientTrue
<1>5. new.revision \in Nat /\ new.active \in DOMAIN new.decks \cup {NoDeck}
  <2>1. CASE world \in Worlds
    BY <1>1, <2>1, WorldAssumption
  <2>2. CASE world = [data |-> data, slots |-> slots]
    <3>1. new = data
      BY <1>1, <2>2
    <3> QED
      BY <3>1 DEF RefreshInv, RefreshTrue, ActiveTrue, CollectionInv, ServerTrue
  <2> QED
    BY <2>1, <2>2
<1>6. \A packet \in Range(toClient') : packet.connection # connection'.generation
  <2>1. \A packet \in Range(toClient) :
          packet.connection \in Nat /\ packet.connection <= connection.generation
    BY <1>4 DEF CollectionInv, PacketsTrue, PacketTrue
  <2> QED
    BY <1>2, <1>3, <1>4, <2>1
<1>7. client'.requiredRevision = 0 /\ client'.awaited = NoId
  BY <1>2, <1>4, ResetRefreshes
<1>8. KnownTrue'
  BY <1>2, <1>5, <1>6, <1>7 DEF KnownTrue
<1>9. ActiveTrue' /\ Followed'
  BY <1>2, <1>5, <1>7 DEF ActiveTrue, Followed
<1>10. EndsWell
  BY <1>4 DEF EndsWell, RefreshEnds
<1> QED
  BY <1>8, <1>9, <1>10 DEF RefreshTrue

LEMMA InitRefresh == Init => RefreshInv
<1> SUFFICES ASSUME Init PROVE RefreshInv
  OBVIOUS
<1>1. PICK world \in Worlds : data = world.data
  BY DEF Init
<1>2. data.revision \in Nat /\ ActiveTrue
  BY <1>1, WorldAssumption DEF ActiveTrue
<1>3. client.requiredRevision = 0 /\ client.awaited = NoId
  BY DEF Init, NewClient
<1>4. Range(toClient) = {}
  BY DEF Init, Range
<1>5. KnownTrue
  BY <1>2, <1>3, <1>4 DEF KnownTrue
<1> QED
  BY <1>2, <1>3, <1>5, InitTrue DEF RefreshInv, RefreshTrue, Followed

LEMMA NextKeepsRefresh == ASSUME RefreshInv, [Next]_vars PROVE RefreshTrue' /\ EndsWell
<1>1. CollectionInv /\ Shaped(client)
  BY DEF RefreshInv, CollectionInv, ClientTrue
<1>2. ASSUME client.awaited # NoId => client'.awaited # NoId PROVE EndsWell
  BY <1>2 DEF EndsWell, RefreshEnds
<1>3. CASE ServerStep
  BY <1>2, <1>3, ServerRefresh DEF ServerStep
<1>4. CASE Edit \/ Move \/ \E deck \in Decks : ReadDeck(deck)
  <2>1. PICK command : Request(command) /\ command.op # "open"
    BY <1>4, CommandsAre
  <2>2. client' = Ask(client, FreshId, command)
    BY <2>1 DEF Request, ClientStep
  <2>3. client'.awaited = client.awaited
    BY <1>1, <2>2, AskIs
  <2> QED
    BY <1>2, <2>1, <2>3, RequestRefresh
<1>5. CASE WantView
  <2>1. PICK new : new = FreshId
    OBVIOUS
  <2>2. client' = Refresh(client, new)
    BY <1>5, <2>1 DEF WantView, ClientStep
  <2>3. Awaits(client)
    BY <1>1 DEF CollectionInv, ClientTrue
  <2>4. client.awaited # NoId => client'.awaited # NoId
    BY <1>1, <2>1, <2>2, <2>3, RefreshKeepsOn
  <2> QED
    BY <1>2, <1>5, <2>4, WantViewRefresh
<1>6. ASSUME NEW id \in DOMAIN client.pending, Timeout(id) PROVE RefreshTrue' /\ EndsWell
  BY <1>6, TimeoutRefresh DEF Timeout, EndsWell
<1>7. CASE Receive
  BY <1>7, ReceiveRefresh
<1>8. CASE Disconnect
  BY <1>8, DisconnectRefresh
<1>9. ASSUME NEW world \in Worlds \cup {[data |-> data, slots |-> slots]}, Connect(world)
      PROVE  RefreshTrue' /\ EndsWell
  BY <1>9, ConnectRefresh
<1>10. CASE UNCHANGED vars
  <2>1. UNCHANGED <<data, snapshot, connection, toClient, toServer, client, disturbed>>
    BY <1>10 DEF vars, serverVars, netVars
  <2>2. ActiveTrue' /\ KnownTrue'
    BY <2>1 DEF RefreshInv, RefreshTrue, ActiveTrue, KnownTrue
  <2>3. Range(toClient') \subseteq Range(toClient)
    BY <2>1
  <2>4. Followed'
    BY <2>1, <2>3, GoesOn
  <2> QED
    BY <1>2, <2>1, <2>2, <2>4 DEF RefreshTrue
<1> QED
  BY <1>3, <1>4, <1>5, <1>6, <1>7, <1>8, <1>9, <1>10 DEF Next

-----------------------------------------------------------------------------
(* What follows *)

\* What the client shows is what the server held, all of it, at the revision it shows, in the
\* world the player is in: pages of two collections are never put together
\* (ClientCollectionState.accept).
THEOREM ViewsAreWhole == Spec => []ViewTrue
<1>1. CollectionInv => ViewTrue
  BY DEF CollectionInv, ClientTrue, Shown, ViewTrue
<1> QED
  BY <1>1, InitTrue, NextKeepsCollection, PTL DEF Spec

\* A list handed to the editor is the one of the view shown beside it
\* (CollectionClient.receive).
THEOREM DecksAreOfViews == Spec => []DeckOfView
<1>1. CollectionInv => DeckOfView
  BY DEF CollectionInv, ClientTrue
<1> QED
  BY <1>1, InitTrue, NextKeepsCollection, PTL DEF Spec

\* A refresh under way waits for a request of its own, the next one of its collection
\* (CollectionClient.refresh).
THEOREM RefreshesAwait == Spec => []RefreshAwaits
<1>1. CollectionInv => RefreshAwaits
  BY DEF CollectionInv, ClientTrue, Awaits, RefreshAwaits
<1> QED
  BY <1>1, InitTrue, NextKeepsCollection, PTL DEF Spec

\* A refresh that reaches its end while nothing disturbed it has the view of what the server
\* has: a refresh fails only if the collection changed since it began, its snapshot was idle,
\* the server refused or a request timed out (CollectionClient.refresh, acceptRefresh and
\* finishRefresh).
THEOREM RefreshesSucceed == Spec => RefreshSucceeds
<1>1. RefreshInv /\ [Next]_vars => RefreshInv'
  BY NextKeepsCollection, NextKeepsRefresh DEF RefreshInv
<1>2. RefreshInv /\ [Next]_vars => [EndsWell]_vars
  BY NextKeepsRefresh
<1>3. Spec => [][EndsWell]_vars
  BY <1>1, <1>2, InitRefresh, PTL DEF Spec
<1> QED
  BY <1>3 DEF RefreshSucceeds, EndsWell
=============================================================================
