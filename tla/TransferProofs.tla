---------------------------- MODULE TransferProofs ----------------------------
(***************************************************************************)
(* Transfers between the inventory and the collection, and the types of    *)
(* the collection's client, for any codes, stack limit, inventories,       *)
(* worlds and bounds:                                                      *)
(*   TransfersAreExact  a transfer moves all it should, from one side to   *)
(*                      the other, or nothing, and is refused for good     *)
(*                      reason only;                                       *)
(*   CollectionTypes    the collection, the slots and the client's         *)
(*                      counters have the values of their Java             *)
(*                      counterparts, and the requests waited for have     *)
(*                      identities up to MaxPending.                       *)
(*                                                                         *)
(* A pass over the inventory is a fold over its slots.  What it comes to   *)
(* is shown by induction on the slots done, with what FoldLemmas says of   *)
(* folds.                                                                  *)
(***************************************************************************)
EXTENDS CollectionProofs, FoldLemmas

-----------------------------------------------------------------------------
(* Carried and Room are sums over the slots *)

\* The sums of weights up to each place.
Sums(r, n, w) == r \in [0..n -> Nat] /\ r[0] = 0 /\ \A k \in 1..n : r[k] = r[k - 1] + w[k]

\* What a slot adds to Carried, and to Room.
CountIn(slot, code) == IF slot.code = code THEN slot.count ELSE 0
RoomIn(slot, code) == IF slot.code \in {code, NoCard} THEN MAX_STACK - slot.count ELSE 0

\* Carried adds up the slots one by one.
LEMMA CarriedIs ==
    ASSUME NEW n \in Nat, NEW s \in [1..n -> Stacks], NEW code \in Codes
    PROVE  \E r : Sums(r, n, [k \in 1..n |-> CountIn(s[k], code)]) /\ r[n] = Carried(s, code)
<1> DEFINE Eq(it) == it = [t \in SUBSET DOMAIN s |->
                             IF t = {} THEN 0
                             ELSE it[t \ {Max(t)}] + (IF s[Max(t)].code = code THEN s[Max(t)].count ELSE 0)]
           G == [i \in 1..n |-> [m \in Nat |-> m + CountIn(s[i], code)]]
<1>1. PICK it : it = (CHOOSE f : Eq(f))
  OBVIOUS
<1>2. Carried(s, code) = it[1..n]
  BY <1>1 DEF Carried, FoldLeft, MapThenFoldSet
<1>3. \A i \in 1..n : CountIn(s[i], code) \in Nat
  BY SlotAssumption DEF Stacks, CountIn, EmptySlot, Slot
<1>4. G \in [1..n -> [Nat -> Nat]]
  BY <1>3
<1>5. PICK t : FoldTable(t, n, Nat, 0, G)
  <2> HIDE DEF G
  <2> QED
    BY <1>4, FoldExists
<1>6. ASSUME NEW u \in SUBSET (1..n), u # {} PROVE Max(u) \in 1..n
  BY <1>6, MaxIs
<1>7. Eq(t)
  <2>1. DOMAIN s = 1..n
    OBVIOUS
  <2>2. ASSUME NEW u \in SUBSET (1..n), u # {}
        PROVE  t[u] = t[u \ {Max(u)}] + (IF s[Max(u)].code = code THEN s[Max(u)].count ELSE 0)
    <3>1. u \ {Max(u)} \in SUBSET (1..n) /\ Max(u) \in 1..n
      BY <1>6, <2>2
    <3> QED
      BY <1>5, <2>2, <3>1 DEF CountIn, FoldTable
  <2> QED
    BY <1>5, <2>1, <2>2 DEF FoldTable
<1>8. Eq(it)
  <2> HIDE DEF Eq
  <2> QED
    BY <1>1, <1>7
<1>9. Folds(it, n, Nat, 0, G)
  <2>1. it[{}] = 0
    BY <1>8
  <2>2. ASSUME NEW u \in SUBSET (1..n), u # {}, it[u \ {Max(u)}] \in Nat
        PROVE  it[u] = G[Max(u)][it[u \ {Max(u)}]]
    BY <1>6, <1>8, <2>2 DEF CountIn
  <2> QED
    BY <2>1, <2>2 DEF Folds
<1>10. PICK r : Values(r, it, n, Nat, 0, G)
  <2> HIDE DEF G
  <2> QED
    BY <1>4, <1>9, FoldSteps
<1>11. ASSUME NEW k \in 1..n PROVE r[k] = r[k - 1] + CountIn(s[k], code)
  <2>1. r[k - 1] \in Nat
    BY <1>10, k - 1 \in 0..n DEF Values
  <2> QED
    BY <1>10, <2>1 DEF Values
<1> QED
  BY <1>2, <1>10, <1>11 DEF Values, Sums

\* Room adds up the main slots one by one.
LEMMA RoomIs ==
    ASSUME NEW n \in Nat, n = MainSlots, NEW m \in Nat, NEW s \in [1..m -> Stacks], n <= m,
           NEW code \in Codes
    PROVE  \E r : Sums(r, n, [k \in 1..n |-> RoomIn(s[k], code)]) /\ r[n] = Room(s, code)
<1>a. PICK q : q = Main
  OBVIOUS
<1>0. q = Main /\ DOMAIN q = 1..n /\ \A i \in 1..n : q[i] = i
  BY <1>a DEF Main
<1> DEFINE Eq(it) == it = [t \in SUBSET DOMAIN q |->
                             IF t = {} THEN 0
                             ELSE it[t \ {Max(t)}] + (IF s[q[Max(t)]].code \in {code, NoCard}
                                                         THEN MAX_STACK - s[q[Max(t)]].count ELSE 0)]
           G == [i \in 1..n |-> [x \in Nat |-> x + RoomIn(s[i], code)]]
<1>1. PICK it : it = (CHOOSE f : Eq(f))
  OBVIOUS
<1>2. Room(s, code) = it[1..n]
  BY <1>0, <1>1 DEF Room, FoldLeft, MapThenFoldSet
<1>3. \A i \in 1..n : RoomIn(s[i], code) \in Nat
  <2> SUFFICES ASSUME NEW i \in 1..n PROVE RoomIn(s[i], code) \in Nat
    OBVIOUS
  <2>1. s[i] \in Stacks
    OBVIOUS
  <2>2. s[i].count \in 0..MAX_STACK \/ s[i].code = Foreign
    BY <2>1, SlotAssumption DEF Stacks, EmptySlot, Slot
  <2> QED
    BY <2>2, SlotAssumption, CodeAssumption DEF RoomIn
<1>4. G \in [1..n -> [Nat -> Nat]]
  BY <1>3
<1>5. PICK t : FoldTable(t, n, Nat, 0, G)
  <2> HIDE DEF G
  <2> QED
    BY <1>4, FoldExists
<1>6. ASSUME NEW u \in SUBSET (1..n), u # {} PROVE Max(u) \in 1..n
  BY <1>6, MaxIs
<1>7. Eq(t)
  <2>1. DOMAIN q = 1..n
    BY <1>0
  <2>2. ASSUME NEW u \in SUBSET (1..n), u # {}
        PROVE  t[u] = t[u \ {Max(u)}] + (IF s[q[Max(u)]].code \in {code, NoCard}
                                         THEN MAX_STACK - s[q[Max(u)]].count ELSE 0)
    <3>1. u \ {Max(u)} \in SUBSET (1..n) /\ Max(u) \in 1..n
      BY <1>6, <2>2
    <3> QED
      BY <1>0, <1>5, <2>2, <3>1 DEF RoomIn, FoldTable
  <2> QED
    BY <1>5, <2>1, <2>2 DEF FoldTable
<1>8. Eq(it)
  <2> HIDE DEF Eq
  <2> QED
    BY <1>1, <1>7
<1>9. Folds(it, n, Nat, 0, G)
  <2>1. it[{}] = 0
    BY <1>0, <1>8
  <2>2. ASSUME NEW u \in SUBSET (1..n), u # {}, it[u \ {Max(u)}] \in Nat
        PROVE  it[u] = G[Max(u)][it[u \ {Max(u)}]]
    <3>1. Max(u) \in 1..n /\ q[Max(u)] = Max(u)
      BY <1>0, <1>6, <2>2
    <3>2. it[u] = it[u \ {Max(u)}] + RoomIn(s[Max(u)], code)
      <4>1. u \in SUBSET DOMAIN q
        BY <1>0
      <4>2. it[u] = it[u \ {Max(u)}] + (IF s[q[Max(u)]].code \in {code, NoCard}
                                        THEN MAX_STACK - s[q[Max(u)]].count ELSE 0)
        BY <1>8, <2>2, <4>1
      <4> QED
        BY <3>1, <4>2 DEF RoomIn
    <3>3. G[Max(u)][it[u \ {Max(u)}]] = it[u \ {Max(u)}] + RoomIn(s[Max(u)], code)
      BY <2>2, <3>1
    <3> HIDE DEF G
    <3> QED
      BY <3>2, <3>3
  <2> QED
    BY <2>1, <2>2 DEF Folds
<1>10. PICK r : Values(r, it, n, Nat, 0, G)
  <2> HIDE DEF G
  <2> QED
    BY <1>4, <1>9, FoldSteps
<1>11. ASSUME NEW k \in 1..n PROVE r[k] = r[k - 1] + RoomIn(s[k], code)
  <2>1. r[k - 1] \in Nat
    BY <1>10, k - 1 \in 0..n DEF Values
  <2> QED
    BY <1>10, <2>1 DEF Values
<1> QED
  BY <1>2, <1>10, <1>11 DEF Values, Sums

Weights(w, n) == w \in [1..n -> Nat]
Alike(w, v, n, i) == \A k \in 1..n : k # i => v[k] = w[k]

LEMMA AddBoth == \A a, b, c, d, e \in Nat : a + b = c + d => (a + e) + b = (c + e) + d
  OBVIOUS

LEMMA TakeOver == \A a, b, c, d \in Nat : a + b = c + d => a = c - b + d
  OBVIOUS

\* One weight changed, the sum changes by as much.
LEMMA SumUpdate ==
    ASSUME NEW n \in Nat, NEW i \in 1..n, NEW w, NEW v, Weights(w, n), Weights(v, n),
           Alike(w, v, n, i),
           NEW r, NEW q, Sums(r, n, w), Sums(q, n, v)
    PROVE  q[n] = r[n] - w[i] + v[i]
<1> DEFINE H == {k \in 0..n : (k < i => q[k] = r[k]) /\ (k >= i => q[k] + w[i] = r[k] + v[i])}
<1>1. r \in [0..n -> Nat] /\ q \in [0..n -> Nat] /\ r[0] = 0 /\ q[0] = 0
  BY DEF Sums
<1>2. 0 \in H
  BY <1>1
<1>3. ASSUME NEW k \in 0..(n - 1), k \in H PROVE k + 1 \in H
  <2>1. k + 1 \in 1..n /\ (k + 1) - 1 = k /\ k + 1 \in 0..n
    OBVIOUS
  <2>2. r[k + 1] = r[k] + w[k + 1] /\ q[k + 1] = q[k] + v[k + 1]
    BY <2>1 DEF Sums
  <2>3. r[k] \in Nat /\ q[k] \in Nat /\ r[k + 1] \in Nat /\ q[k + 1] \in Nat
    BY <1>1, <2>1
  <2>4. CASE k + 1 = i
    <3>1. q[k] = r[k] /\ ~(k + 1 < i)
      BY <1>3, <2>4
    <3>2. w[k + 1] \in Nat /\ v[k + 1] \in Nat
      BY <2>1 DEF Weights
    <3>3. \A a, b, c \in Nat : (a + b) + c = (a + c) + b
      OBVIOUS
    <3>4. q[k + 1] + w[i] = r[k + 1] + v[i]
      BY <2>2, <2>3, <2>4, <3>1, <3>2, <3>3
    <3> QED
      BY <2>1, <3>1, <3>4
  <2>5. CASE k + 1 # i
    <3>1. v[k + 1] = w[k + 1] /\ w[k + 1] \in Nat
      BY <2>1, <2>5 DEF Alike, Weights
    <3>2. CASE k + 1 < i
      BY <1>3, <2>1, <2>2, <2>3, <3>1, <3>2
    <3>3. CASE k >= i
      <4>1. q[k] + w[i] = r[k] + v[i]
        BY <1>3, <3>3
      <4>2. w[i] \in Nat /\ v[i] \in Nat
        BY DEF Weights
      <4>3. q[k + 1] + w[i] = r[k + 1] + v[i]
        BY <2>2, <2>3, <3>1, <4>1, <4>2, AddBoth
      <4> QED
        BY <2>1, <3>3, <4>3
    <3> QED
      BY <2>1, <2>5, <3>2, <3>3
  <2> QED
    BY <2>4, <2>5
<1> HIDE DEF H
<1>4. 0..n \subseteq H
  BY <1>2, <1>3, Steps
<1>5. n >= i /\ w[i] \in Nat /\ v[i] \in Nat /\ r[n] \in Nat /\ q[n] \in Nat
  BY <1>1 DEF Weights
<1>6. q[n] + w[i] = r[n] + v[i]
  BY <1>4, <1>5 DEF H
<1> QED
  BY <1>5, <1>6, TakeOver

\* A sum of nothing.
LEMMA SumZero ==
    ASSUME NEW n \in Nat, NEW w, NEW r, Sums(r, n, w), \A k \in 1..n : w[k] = 0
    PROVE  r[n] = 0
<1> DEFINE H == {k \in 0..n : r[k] = 0}
<1>1. 0 \in H
  BY DEF Sums
<1>2. ASSUME NEW k \in 0..(n - 1), k \in H PROVE k + 1 \in H
  <2>1. k + 1 \in 1..n /\ (k + 1) - 1 = k /\ k + 1 \in 0..n
    OBVIOUS
  <2> QED
    BY <1>2, <2>1 DEF Sums
<1> HIDE DEF H
<1>3. n \in H
  BY <1>1, <1>2, Steps
<1> QED
  BY <1>3 DEF H

Inventory(s, n) == s \in [1..n -> Stacks]
Replaced(u, s, i, slot) == u = [s EXCEPT ![i] = slot]

LEMMA InIs ==
    ASSUME NEW slot \in Stacks, NEW code \in Codes
    PROVE  CountIn(slot, code) \in Nat /\ RoomIn(slot, code) \in Nat
<1>1. slot.count \in 0..MAX_STACK \/ (slot.code = Foreign /\ slot.count \in Nat)
  BY SlotAssumption DEF Stacks, EmptySlot, Slot
<1>2. slot.code = Foreign => RoomIn(slot, code) = 0
  BY CodeAssumption DEF RoomIn
<1>3. slot.count \in 0..MAX_STACK => RoomIn(slot, code) \in Nat
  BY SlotAssumption DEF RoomIn
<1>4. slot.count \in Nat
  BY <1>1, SlotAssumption
<1> QED
  BY <1>1, <1>2, <1>3, <1>4 DEF CountIn

\* A slot changed, Carried changes by what was and is in it.
LEMMA CarriedUpdate ==
    ASSUME NEW n \in Nat, NEW s, Inventory(s, n), NEW i \in 1..n, NEW slot \in Stacks,
           NEW u, Replaced(u, s, i, slot), NEW code \in Codes
    PROVE  Carried(u, code) = Carried(s, code) - CountIn(s[i], code) + CountIn(slot, code)
<1>2. u \in [1..n -> Stacks] /\ s \in [1..n -> Stacks] /\ u[i] = slot /\ \A k \in 1..n : k # i => u[k] = s[k]
  BY DEF Inventory, Replaced
<1> DEFINE w == [k \in 1..n |-> CountIn(s[k], code)]
           v == [k \in 1..n |-> CountIn(u[k], code)]
<1>3. PICK r : Sums(r, n, w) /\ r[n] = Carried(s, code)
  BY CarriedIs DEF Inventory
<1>4. PICK q : Sums(q, n, v) /\ q[n] = Carried(u, code)
  BY <1>2, CarriedIs DEF Inventory
<1>5. w[i] = CountIn(s[i], code) /\ v[i] = CountIn(slot, code) /\ Alike(w, v, n, i)
  BY <1>2 DEF Alike
<1>6. Weights(w, n) /\ Weights(v, n)
  BY <1>2, InIs DEF Weights
<1> HIDE DEF w, v
<1>7. q[n] = r[n] - w[i] + v[i]
  BY <1>3, <1>4, <1>5, <1>6, SumUpdate
<1> QED
  BY <1>3, <1>4, <1>5, <1>7

LEMMA CarriedNat ==
    ASSUME NEW n \in Nat, NEW s, Inventory(s, n), NEW code \in Codes
    PROVE  Carried(s, code) \in Nat
<1>1. PICK r : Sums(r, n, [k \in 1..n |-> CountIn(s[k], code)]) /\ r[n] = Carried(s, code)
  BY CarriedIs DEF Inventory
<1> QED
  BY <1>1, n \in 0..n DEF Sums

LEMMA CarriedNone ==
    ASSUME NEW n \in Nat, NEW s, Inventory(s, n), NEW code \in Codes,
           \A i \in 1..n : s[i].code # code
    PROVE  Carried(s, code) = 0
<1> DEFINE w == [k \in 1..n |-> CountIn(s[k], code)]
<1>1. PICK r : Sums(r, n, w) /\ r[n] = Carried(s, code)
  BY CarriedIs DEF Inventory
<1>2. \A k \in 1..n : w[k] = 0
  BY DEF CountIn, Inventory
<1> HIDE DEF w
<1> QED
  BY <1>1, <1>2, SumZero

\* A main slot changed, Room changes by the room that was and is in it.
LEMMA RoomUpdate ==
    ASSUME NEW m \in Nat, MainSlots <= m, NEW s, Inventory(s, m), NEW i \in 1..MainSlots,
           NEW slot \in Stacks, NEW u, Replaced(u, s, i, slot), NEW code \in Codes
    PROVE  Room(u, code) = Room(s, code) - RoomIn(s[i], code) + RoomIn(slot, code)
<1>0. PICK n \in Nat : n = MainSlots /\ n <= m
  BY SlotAssumption
<1>2. u \in [1..m -> Stacks] /\ s \in [1..m -> Stacks] /\ u[i] = slot /\ i \in 1..n
      /\ s[i] \in Stacks /\ \A k \in 1..n : k # i => u[k] = s[k]
  BY <1>0 DEF Inventory, Replaced
<1> DEFINE w == [k \in 1..n |-> RoomIn(s[k], code)]
           v == [k \in 1..n |-> RoomIn(u[k], code)]
<1>3. PICK r : Sums(r, n, w) /\ r[n] = Room(s, code)
  BY <1>0, <1>2, RoomIs DEF Inventory
<1>4. PICK q : Sums(q, n, v) /\ q[n] = Room(u, code)
  BY <1>0, <1>2, RoomIs DEF Inventory
<1>5. w[i] = RoomIn(s[i], code) /\ v[i] = RoomIn(slot, code) /\ Alike(w, v, n, i)
  BY <1>2 DEF Alike
<1>6. Weights(w, n) /\ Weights(v, n)
  BY <1>0, <1>2, InIs DEF Weights
<1> HIDE DEF w, v
<1>7. q[n] = r[n] - w[i] + v[i]
  BY <1>2, <1>3, <1>4, <1>5, <1>6, SumUpdate
<1> QED
  BY <1>3, <1>4, <1>5, <1>7

LEMMA RoomNat ==
    ASSUME NEW m \in Nat, MainSlots <= m, NEW s, Inventory(s, m), NEW code \in Codes
    PROVE  Room(s, code) \in Nat
<1>1. PICK n \in Nat : n = MainSlots /\ n <= m
  BY SlotAssumption
<1>2. PICK r : Sums(r, n, [k \in 1..n |-> RoomIn(s[k], code)]) /\ r[n] = Room(s, code)
  BY <1>1, RoomIs DEF Inventory
<1> QED
  BY <1>2, n \in 0..n DEF Sums

LEMMA RoomNone ==
    ASSUME NEW m \in Nat, MainSlots <= m, NEW s, Inventory(s, m), NEW code \in Codes,
           \A i \in 1..MainSlots : s[i].code # NoCard /\ (s[i].code = code => s[i].count = MAX_STACK)
    PROVE  Room(s, code) = 0
<1>1. PICK n \in Nat : n = MainSlots /\ n <= m
  BY SlotAssumption
<1> DEFINE w == [k \in 1..n |-> RoomIn(s[k], code)]
<1>2. PICK r : Sums(r, n, w) /\ r[n] = Room(s, code)
  BY <1>1, RoomIs DEF Inventory
<1>3. \A k \in 1..n : w[k] = 0
  BY <1>1, SlotAssumption DEF RoomIn
<1> HIDE DEF w
<1> QED
  BY <1>2, <1>3, SumZero

-----------------------------------------------------------------------------
(* WITHDRAW: one pass fills the stacks of the code, the next takes empty slots too *)

Plans(m) == [slots : [1..m -> Stacks], counts : [Codes -> Nat], moved : Nat]

LEMMA PlanIs ==
    ASSUME NEW m, NEW p \in Plans(m)
    PROVE  /\ p.slots \in [1..m -> Stacks] /\ p.counts \in [Codes -> Nat] /\ p.moved \in Nat
           /\ DOMAIN p = {"slots", "counts", "moved"}
           /\ p = [slots |-> p.slots, counts |-> p.counts, moved |-> p.moved]
  BY DEF Plans

LEMMA StackIs ==
    ASSUME NEW slot \in Stacks
    PROVE  /\ slot.code \in Codes \cup {NoCard, Foreign} /\ slot.count \in Nat
           /\ slot.code \in Codes => slot.count \in 1..MAX_STACK
           /\ slot.code = NoCard => slot.count = 0
  BY SlotAssumption, CodeAssumption DEF Stacks, EmptySlot, Slot

\* A step of a pass of WITHDRAW.
FillOne(p, i, of, code, amount) == IF p.slots[i].code = of THEN Fill(p, i, code, amount) ELSE p

\* Slot i of a plan takes some copies.
Takes(p, q, i, code, take) ==
    /\ take \in Nat /\ take > 0
    /\ q.slots = [p.slots EXCEPT ![i] = Slot(code, p.slots[i].count + take)]
    /\ q.counts = p.counts /\ q.moved = p.moved + take
    /\ p.slots[i].count + take <= MAX_STACK

LEMMA FillIs ==
    ASSUME NEW m \in Nat, NEW p \in Plans(m), NEW i \in 1..m, NEW code \in Codes,
           NEW of \in {code, NoCard},
           NEW amount \in Nat, NEW q, q = FillOne(p, i, of, code, amount)
    PROVE  /\ q \in Plans(m)
           /\ q = p \/ (p.slots[i].code = of /\ \E take : Takes(p, q, i, code, take) /\ q.moved <= amount)
           /\ p.slots[i].code = of =>
                \/ q.moved >= amount
                \/ q.slots[i] = Slot(code, MAX_STACK)
<1>1. p.slots[i] \in Stacks /\ p.moved \in Nat
  BY PlanIs
<1>2. PICK c : c = p.slots[i].count
  OBVIOUS
<1>3. c \in Nat /\ MAX_STACK \in Nat /\ (p.slots[i].code = of => c \in 0..MAX_STACK)
      /\ (p.slots[i].code = of /\ c = MAX_STACK => of = code /\ p.slots[i] = Slot(code, MAX_STACK))
  <2>1. of = NoCard => of # code
    BY CodeAssumption
  <2> QED
    BY <1>1, <1>2, <2>1, StackIs, SlotAssumption, CodeAssumption DEF Stacks, EmptySlot, Slot
<1>4. PICK take : take = Lesser(amount - p.moved, MAX_STACK - c)
  OBVIOUS
<1>5. /\ take \in Int /\ take <= amount - p.moved /\ take <= MAX_STACK - c
      /\ take = amount - p.moved \/ take = MAX_STACK - c
  BY <1>1, <1>3, <1>4 DEF Lesser
<1>6. CASE p.slots[i].code # of
  BY <1>6 DEF FillOne
<1>7. CASE p.slots[i].code = of /\ take <= 0
  <2>1. q = p
    BY <1>2, <1>4, <1>7 DEF FillOne, Fill
  <2>2. take = amount - p.moved => q.moved >= amount
    BY <1>1, <1>7, <2>1
  <2>3. take = MAX_STACK - c => q.slots[i] = Slot(code, MAX_STACK)
    BY <1>3, <1>7, <2>1
  <2> QED
    BY <1>5, <2>1, <2>2, <2>3
<1>8. CASE p.slots[i].code = of /\ ~(take <= 0)
  <2>1. q = [p EXCEPT !.slots[i] = Slot(code, @.count + take), !.moved = @ + take]
    BY <1>2, <1>4, <1>8 DEF FillOne, Fill
  <2>2. q = [slots |-> [p.slots EXCEPT ![i] = Slot(code, c + take)], counts |-> p.counts,
             moved |-> p.moved + take]
    BY <1>2, <2>1, PlanIs
  <2>3. take \in Nat /\ take > 0 /\ c + take \in 1..MAX_STACK /\ p.moved + take \in Nat
        /\ p.moved + take <= amount
    BY <1>1, <1>3, <1>5, <1>8
  <2>4. Slot(code, c + take) \in Stacks
    BY <2>3 DEF Stacks, Slot
  <2>5. [p.slots EXCEPT ![i] = Slot(code, c + take)] \in [1..m -> Stacks]
    BY <2>4, PlanIs
  <2>6. q \in Plans(m)
    BY <2>2, <2>3, <2>5, PlanIs DEF Plans
  <2>7. Takes(p, q, i, code, take) /\ q.moved <= amount
    BY <1>2, <2>2, <2>3 DEF Takes
  <2>8. q.slots[i] = Slot(code, c + take)
    BY <2>2, PlanIs
  <2>9. take = amount - p.moved => q.moved >= amount
    BY <1>1, <2>2
  <2>10. take = MAX_STACK - c => c + take = MAX_STACK
    BY <1>3
  <2> QED
    BY <1>5, <1>8, <2>6, <2>7, <2>8, <2>9, <2>10
<1> QED
  BY <1>6, <1>7, <1>8

\* The plans of a pass of WITHDRAW.
FillPlans(r, n, m, plan, of, code, amount) ==
    /\ r \in [0..n -> Plans(m)] /\ r[0] = plan /\ r[n] = FillEach(plan, of, code, amount)
    /\ \A k \in 1..n : r[k] = FillOne(r[k - 1], k, of, code, amount)

LEMMA FillEachIs ==
    ASSUME NEW n \in Nat, n = MainSlots, NEW m \in Nat, n <= m, NEW plan \in Plans(m),
           NEW code \in Codes,
           NEW of \in {code, NoCard}, NEW amount \in Nat
    PROVE  \E r : FillPlans(r, n, m, plan, of, code, amount)
<1>a. PICK q : q = Main
  OBVIOUS
<1>0. q = Main /\ DOMAIN q = 1..n /\ \A i \in 1..n : q[i] = i
  BY <1>a DEF Main
<1> DEFINE Eq(it) == it = [t \in SUBSET DOMAIN q |->
                             IF t = {} THEN plan
                             ELSE IF it[t \ {Max(t)}].slots[q[Max(t)]].code = of
                                  THEN Fill(it[t \ {Max(t)}], q[Max(t)], code, amount)
                                  ELSE it[t \ {Max(t)}]]
           G == [i \in 1..n |-> [p \in Plans(m) |-> FillOne(p, i, of, code, amount)]]
<1>1. PICK it : it = (CHOOSE f : Eq(f))
  OBVIOUS
<1>2. FillEach(plan, of, code, amount) = it[1..n]
  BY <1>0, <1>1 DEF FillEach, FoldLeft, MapThenFoldSet
<1>3. \A i \in 1..n : \A p \in Plans(m) : FillOne(p, i, of, code, amount) \in Plans(m)
  BY FillIs
<1>4. G \in [1..n -> [Plans(m) -> Plans(m)]]
  BY <1>3
<1>5. PICK t : FoldTable(t, n, Plans(m), plan, G)
  <2> HIDE DEF G
  <2> QED
    BY <1>4, FoldExists
<1>6. ASSUME NEW u \in SUBSET (1..n), u # {}
      PROVE  Max(u) \in 1..n /\ q[Max(u)] = Max(u) /\ u \in SUBSET DOMAIN q /\ u \ {Max(u)} \in SUBSET (1..n)
  BY <1>0, <1>6, MaxIs
<1>7. Eq(t)
  <2>2. ASSUME NEW u \in SUBSET (1..n), u # {}
        PROVE  t[u] = IF t[u \ {Max(u)}].slots[q[Max(u)]].code = of
                      THEN Fill(t[u \ {Max(u)}], q[Max(u)], code, amount)
                      ELSE t[u \ {Max(u)}]
    <3>1. t[u \ {Max(u)}] \in Plans(m)
      BY <1>5, <1>6, <2>2 DEF FoldTable
    <3>2. t[u] = FillOne(t[u \ {Max(u)}], Max(u), of, code, amount)
      BY <1>5, <1>6, <2>2, <3>1 DEF FoldTable
    <3> QED
      BY <1>6, <2>2, <3>2 DEF FillOne
  <2> QED
    BY <1>0, <1>5, <2>2 DEF FoldTable
<1>8. Eq(it)
  <2> HIDE DEF Eq
  <2> QED
    BY <1>1, <1>7
<1>9. Folds(it, n, Plans(m), plan, G)
  <2>1. it[{}] = plan
    BY <1>0, <1>8
  <2>2. ASSUME NEW u \in SUBSET (1..n), u # {}, it[u \ {Max(u)}] \in Plans(m)
        PROVE  it[u] = G[Max(u)][it[u \ {Max(u)}]]
    <3>1. it[u] = IF it[u \ {Max(u)}].slots[q[Max(u)]].code = of
                  THEN Fill(it[u \ {Max(u)}], q[Max(u)], code, amount)
                  ELSE it[u \ {Max(u)}]
      BY <1>6, <1>8, <2>2
    <3>2. it[u] = FillOne(it[u \ {Max(u)}], Max(u), of, code, amount)
      BY <1>6, <2>2, <3>1 DEF FillOne
    <3>3. G[Max(u)][it[u \ {Max(u)}]] = FillOne(it[u \ {Max(u)}], Max(u), of, code, amount)
      BY <1>6, <2>2
    <3> HIDE DEF G
    <3> QED
      BY <3>2, <3>3
  <2> QED
    BY <2>1, <2>2 DEF Folds
<1>10. PICK r : Values(r, it, n, Plans(m), plan, G)
  <2> HIDE DEF G
  <2> QED
    BY <1>4, <1>9, FoldSteps
<1>11. ASSUME NEW k \in 1..n PROVE r[k] = FillOne(r[k - 1], k, of, code, amount)
  <2>1. r[k - 1] \in Plans(m)
    BY <1>10, k - 1 \in 0..n DEF Values
  <2> QED
    BY <1>10, <2>1 DEF Values
<1> QED
  BY <1>2, <1>10, <1>11 DEF Values, FillPlans

\* What a plan p of a pass of WITHDRAW that began with b has in common with it: what was moved
\* was taken from the room and is carried now, ...
FillKeeps(b, p, code, amount) ==
    /\ p.counts = b.counts
    /\ b.moved <= p.moved /\ p.moved <= amount
    /\ p.moved + Room(p.slots, code) = b.moved + Room(b.slots, code)
    /\ Carried(p.slots, code) = Carried(b.slots, code) + (p.moved - b.moved)
    /\ \A c \in Codes : c # code => Carried(p.slots, c) = Carried(b.slots, c)

\* ... only slots of the pass are touched, and up to slot k none was passed over.
FillReaches(b, p, k, m, of, code, amount) ==
    /\ \A j \in 1..m : p.slots[j] = b.slots[j] \/ (j <= k /\ b.slots[j].code = of /\ p.slots[j].code = code)
    /\ \/ p.moved = amount
       \/ \A j \in 1..k : b.slots[j].code = of => p.slots[j] = Slot(code, MAX_STACK)

LEMMA TakesKeeps ==
    ASSUME NEW m \in Nat, MainSlots <= m, NEW b \in Plans(m), NEW p \in Plans(m),
           NEW q \in Plans(m),
           NEW k \in 1..MainSlots, NEW code \in Codes, NEW of \in {code, NoCard},
           NEW amount \in Nat,
           p.slots[k].code = of, NEW take, Takes(p, q, k, code, take), q.moved <= amount,
           FillKeeps(b, p, code, amount)
    PROVE  FillKeeps(b, q, code, amount)
<1>1. k \in 1..m /\ p.slots \in [1..m -> Stacks] /\ b.slots \in [1..m -> Stacks]
      /\ p.moved \in Nat /\ b.moved \in Nat
  BY PlanIs, SlotAssumption
<1>2. PICK s, c, slot : s = p.slots /\ c = s[k].count /\ slot = Slot(code, c + take)
  OBVIOUS
<1>3. /\ s \in [1..m -> Stacks] /\ s[k] \in Stacks /\ c \in Nat
      /\ (of = code => c \in 1..MAX_STACK) /\ (of = NoCard => c = 0)
      /\ s[k].code = of
  BY <1>1, <1>2, StackIs
<1>4. take \in Nat /\ c + take \in 1..MAX_STACK
  BY <1>2, <1>3, SlotAssumption DEF Takes
<1>5. slot \in Stacks /\ slot.code = code /\ slot.count = c + take
  BY <1>2, <1>4 DEF Stacks, Slot
<1>0. Inventory(s, m) /\ Replaced(q.slots, s, k, slot)
  BY <1>2, <1>3 DEF Inventory, Replaced, Takes
<1>6. q.slots = [s EXCEPT ![k] = slot] /\ q.moved = p.moved + take /\ q.counts = p.counts
  BY <1>2 DEF Takes
<1>7. code # NoCard
  BY CodeAssumption
<1>8. Room(q.slots, code) = Room(s, code) - take
  <2>1. RoomIn(s[k], code) = MAX_STACK - c /\ RoomIn(slot, code) = MAX_STACK - (c + take)
    BY <1>2, <1>3, <1>5 DEF RoomIn
  <2>2. Room(q.slots, code) = Room(s, code) - RoomIn(s[k], code) + RoomIn(slot, code)
    BY <1>0, <1>5, RoomUpdate
  <2>3. Room(s, code) \in Nat
    BY <1>3, RoomNat DEF Inventory
  <2> QED
    BY <1>3, <1>4, <2>1, <2>2, <2>3, SlotAssumption
<1>9. Carried(q.slots, code) = Carried(s, code) + take
  <2>1. CountIn(slot, code) = c + take /\ CountIn(s[k], code) = c
    BY <1>2, <1>3, <1>5, <1>7 DEF CountIn
  <2>2. Carried(q.slots, code) = Carried(s, code) - CountIn(s[k], code) + CountIn(slot, code)
    BY <1>0, <1>1, <1>5, CarriedUpdate
  <2>3. Carried(s, code) \in Nat
    BY <1>3, CarriedNat DEF Inventory
  <2> QED
    BY <1>3, <1>4, <2>1, <2>2, <2>3
<1>10. ASSUME NEW d \in Codes, d # code PROVE Carried(q.slots, d) = Carried(s, d)
  <2>1. CountIn(slot, d) = 0 /\ CountIn(s[k], d) = 0
    BY <1>3, <1>5, <1>10, CodeAssumption DEF CountIn
  <2>2. Carried(q.slots, d) = Carried(s, d) - CountIn(s[k], d) + CountIn(slot, d)
    BY <1>0, <1>1, <1>5, CarriedUpdate
  <2>3. Carried(s, d) \in Nat
    BY <1>3, CarriedNat DEF Inventory
  <2> QED
    BY <2>1, <2>2, <2>3
<1>11. Room(s, code) \in Nat /\ Room(b.slots, code) \in Nat /\ Carried(s, code) \in Nat
       /\ Carried(b.slots, code) \in Nat
  BY <1>1, <1>3, RoomNat, CarriedNat DEF Inventory
<1>12. q.moved + Room(q.slots, code) = b.moved + Room(b.slots, code)
  <2>1. p.moved + Room(s, code) = b.moved + Room(b.slots, code)
    BY <1>2 DEF FillKeeps
  <2> QED
    BY <1>1, <1>4, <1>6, <1>8, <1>11, <2>1
<1>13. Carried(q.slots, code) = Carried(b.slots, code) + (q.moved - b.moved)
  <2>1. Carried(s, code) = Carried(b.slots, code) + (p.moved - b.moved)
    BY <1>2 DEF FillKeeps
  <2> QED
    BY <1>1, <1>4, <1>6, <1>9, <1>11, <2>1
<1>14. b.moved <= q.moved
  BY <1>1, <1>4, <1>6 DEF FillKeeps
<1> QED
  BY <1>2, <1>6, <1>10, <1>12, <1>13, <1>14 DEF FillKeeps

LEMMA FillReachesMore ==
    ASSUME NEW m \in Nat, MainSlots <= m, NEW b \in Plans(m), NEW p \in Plans(m),
           NEW q \in Plans(m),
           NEW k \in 1..MainSlots, NEW code \in Codes, NEW of \in {code, NoCard},
           NEW amount \in Nat,
           q = FillOne(p, k, of, code, amount),
           FillKeeps(b, p, code, amount), FillReaches(b, p, k - 1, m, of, code, amount)
    PROVE  FillKeeps(b, q, code, amount) /\ FillReaches(b, q, k, m, of, code, amount)
<1>1. k \in 1..m /\ p.slots \in [1..m -> Stacks] /\ b.slots \in [1..m -> Stacks]
      /\ p.moved \in Nat /\ b.moved \in Nat
      /\ q.moved \in Nat
  BY PlanIs, SlotAssumption
<1>2. /\ q = p \/ (p.slots[k].code = of /\ \E take : Takes(p, q, k, code, take) /\ q.moved <= amount)
      /\ p.slots[k].code = of => q.moved >= amount \/ q.slots[k] = Slot(code, MAX_STACK)
  BY <1>1, FillIs
<1>3. FillKeeps(b, q, code, amount)
  <2>1. CASE q = p
    BY <2>1
  <2>2. CASE p.slots[k].code = of /\ \E take : Takes(p, q, k, code, take) /\ q.moved <= amount
    <3>1. PICK take : Takes(p, q, k, code, take)
      BY <2>2
    <3> QED
      BY <2>2, <3>1, TakesKeeps
  <2> QED
    BY <1>2, <2>1, <2>2
<1>4. \A j \in 1..m : j # k => q.slots[j] = p.slots[j]
  <2>1. CASE q = p
    BY <2>1
  <2>2. CASE \E take : Takes(p, q, k, code, take)
    BY <1>1, <2>2 DEF Takes
  <2> QED
    BY <1>2, <2>1, <2>2
<1>5. p.slots[k] = b.slots[k]
  BY <1>1, SlotAssumption DEF FillReaches
<1>6. q.slots[k] = p.slots[k] \/ (p.slots[k].code = of /\ q.slots[k].code = code)
  <2>1. ASSUME NEW take, Takes(p, q, k, code, take) PROVE q.slots[k].code = code
    <3>1. q.slots[k] = Slot(code, p.slots[k].count + take)
      BY <1>1, <2>1 DEF Takes
    <3> QED
      BY <3>1 DEF Slot
  <2> QED
    BY <1>2, <2>1
<1>7. \A j \in 1..m : q.slots[j] = b.slots[j] \/ (j <= k /\ b.slots[j].code = of /\ q.slots[j].code = code)
  <2> SUFFICES ASSUME NEW j \in 1..m
               PROVE  q.slots[j] = b.slots[j] \/ (j <= k /\ b.slots[j].code = of /\ q.slots[j].code = code)
    OBVIOUS
  <2>1. CASE j = k
    BY <1>5, <1>6, <2>1
  <2>2. CASE j # k
    <3>1. j <= k - 1 => j <= k
      BY SlotAssumption
    <3> QED
      BY <1>4, <2>2, <3>1 DEF FillReaches
  <2> QED
    BY <2>1, <2>2
<1>8. ASSUME q.moved # amount, NEW j \in 1..k, b.slots[j].code = of
      PROVE  q.slots[j] = Slot(code, MAX_STACK)
  <2>1. q.moved < amount
    BY <1>1, <1>3, <1>8 DEF FillKeeps
  <2>2. CASE j = k
    BY <1>1, <1>2, <1>5, <1>8, <2>1, <2>2
  <2>3. CASE j # k
    <3>1. p.moved # amount
      <4>1. ASSUME NEW take, Takes(p, q, k, code, take) PROVE p.moved < q.moved
        BY <1>1, <4>1 DEF Takes
      <4> QED
        BY <1>1, <1>2, <2>1, <4>1
    <3>2. j \in 1..(k - 1) /\ j \in 1..m
      BY <1>1, <2>3, SlotAssumption
    <3>3. p.slots[j] = Slot(code, MAX_STACK)
      BY <1>8, <3>1, <3>2 DEF FillReaches
    <3> QED
      BY <1>4, <2>3, <3>2, <3>3
  <2> QED
    BY <2>2, <2>3
<1> QED
  BY <1>3, <1>7, <1>8 DEF FillReaches

\* A whole pass of WITHDRAW.
LEMMA FillEachKeeps ==
    ASSUME NEW m \in Nat, MainSlots <= m, NEW plan \in Plans(m), NEW code \in Codes,
           NEW of \in {code, NoCard}, NEW amount \in Nat, plan.moved <= amount
    PROVE  /\ FillEach(plan, of, code, amount) \in Plans(m)
           /\ FillKeeps(plan, FillEach(plan, of, code, amount), code, amount)
           /\ FillReaches(plan, FillEach(plan, of, code, amount), MainSlots, m, of, code, amount)
<1>1. PICK n \in Nat : n = MainSlots /\ n <= m
  BY SlotAssumption
<1>2. PICK r : FillPlans(r, n, m, plan, of, code, amount)
  BY <1>1, FillEachIs
<1>3. plan.slots \in [1..m -> Stacks] /\ plan.moved \in Nat
  BY PlanIs
<1> DEFINE H == {k \in 0..n : /\ FillKeeps(plan, r[k], code, amount)
                            /\ FillReaches(plan, r[k], k, m, of, code, amount)}
<1>4. 0 \in H
  <2>1. r[0] = plan /\ 0 \in 0..n
    BY <1>2 DEF FillPlans
  <2>2. Room(plan.slots, code) \in Nat /\ Carried(plan.slots, code) \in Nat
    BY <1>3, RoomNat, CarriedNat DEF Inventory
  <2>3. FillKeeps(plan, plan, code, amount)
    BY <1>3, <2>2 DEF FillKeeps
  <2>4. FillReaches(plan, plan, 0, m, of, code, amount)
    BY DEF FillReaches
  <2> QED
    BY <2>1, <2>3, <2>4
<1>5. ASSUME NEW k \in 0..(n - 1), k \in H PROVE k + 1 \in H
  <2>1. PICK i : i = k + 1
    OBVIOUS
  <2>2. i \in 1..n /\ i \in 1..MainSlots /\ i - 1 = k /\ i \in 0..n /\ k \in 0..n
    BY <1>1, <2>1
  <2>3. r[i] = FillOne(r[k], i, of, code, amount) /\ r[i] \in Plans(m) /\ r[k] \in Plans(m)
    BY <1>2, <2>2 DEF FillPlans
  <2>4. FillKeeps(plan, r[k], code, amount) /\ FillReaches(plan, r[k], i - 1, m, of, code, amount)
    BY <1>5, <2>2
  <2>5. FillKeeps(plan, r[i], code, amount) /\ FillReaches(plan, r[i], i, m, of, code, amount)
    BY <2>2, <2>3, <2>4, FillReachesMore
  <2> QED
    BY <2>1, <2>2, <2>5
<1> HIDE DEF H
<1>6. 0..n \subseteq H
  BY <1>4, <1>5, Steps
<1>7. n \in H /\ r[n] = FillEach(plan, of, code, amount) /\ r[n] \in Plans(m)
  BY <1>2, <1>6 DEF FillPlans
<1> QED
  BY <1>1, <1>7 DEF H

\* The copies of a code that a transfer is to take out of an inventory.
DueOf(s, kind, of, amount, code) ==
    CASE kind = "DEPOSIT" -> IF code = of THEN amount ELSE 0
      [] kind = "WITHDRAW" -> IF code = of THEN 0 - amount ELSE 0
      [] kind = "DEPOSIT_ALL" -> IF code \in Depositable THEN Carried(s, code) ELSE 0

\* A plan that moves from inventory to collection, or back, what it should.
Exact(plan, s, m, counts, kind, of, amount) ==
    /\ plan.error = "NONE" /\ Inventory(plan.slots, m) /\ plan.counts \in [Codes -> Nat]
    /\ plan.moved \in Nat
    /\ \A code \in Codes :
        /\ Carried(s, code) - Carried(plan.slots, code) = DueOf(s, kind, of, amount, code)
        /\ plan.counts[code] - counts[code] = DueOf(s, kind, of, amount, code)
    /\ \A i \in 1..m :
        \/ plan.slots[i] = s[i]
        \/ /\ s[i].code # Foreign /\ plan.slots[i].count <= MAX_STACK
           /\ kind = "WITHDRAW" => i <= MainSlots

\* A plan that fails for one of some errors.
Fails(plan, errors) == plan.error \in errors /\ plan.error # "NONE"

LEMMA UnmovedIs ==
    ASSUME NEW m, NEW s, Inventory(s, m), NEW counts \in [Codes -> Nat]
    PROVE  LET p == Unmoved(s, counts)
           IN p \in Plans(m) /\ p.slots = s /\ p.counts = counts /\ p.moved = 0
  BY DEF Unmoved, Plans, Inventory

\* Both passes of WITHDRAW: short of the amount, there is no room left.
LEMMA WithdrawLoopsAre ==
    ASSUME NEW m \in Nat, MainSlots <= m, NEW s, Inventory(s, m), NEW counts \in [Codes -> Nat],
           NEW code \in Codes, NEW amount \in Nat, NEW p, p = WithdrawLoops(s, counts, code, amount)
    PROVE  /\ p \in Plans(m) /\ p.counts = counts /\ p.moved <= amount
           /\ p.moved + Room(p.slots, code) = Room(s, code)
           /\ Carried(p.slots, code) = Carried(s, code) + p.moved
           /\ \A c \in Codes : c # code => Carried(p.slots, c) = Carried(s, c)
           /\ \A j \in 1..m : p.slots[j] = s[j] \/ (j <= MainSlots /\ s[j].code # Foreign /\ p.slots[j].code = code)
           /\ p.moved # amount => Room(p.slots, code) = 0
<1>1. PICK b : b = Unmoved(s, counts)
  OBVIOUS
<1>2. b \in Plans(m) /\ b.slots = s /\ b.counts = counts /\ b.moved = 0 /\ b.moved <= amount
  BY <1>1, UnmovedIs
<1>3. PICK f : f = FillEach(b, code, code, amount)
  OBVIOUS
<1>4. f \in Plans(m) /\ FillKeeps(b, f, code, amount)
      /\ FillReaches(b, f, MainSlots, m, code, code, amount)
  BY <1>2, <1>3, FillEachKeeps
<1>5. f.moved <= amount
  BY <1>4 DEF FillKeeps
<1>6. p = FillEach(f, NoCard, code, amount)
  BY <1>1, <1>3 DEF WithdrawLoops
<1>7. p \in Plans(m) /\ FillKeeps(f, p, code, amount)
      /\ FillReaches(f, p, MainSlots, m, NoCard, code, amount)
  BY <1>4, <1>5, <1>6, FillEachKeeps
<1>8. p.moved \in Nat /\ f.moved \in Nat /\ Inventory(p.slots, m) /\ Inventory(f.slots, m)
  BY <1>4, <1>7, PlanIs DEF Inventory
<1>9. /\ Room(p.slots, code) \in Nat /\ Room(f.slots, code) \in Nat /\ Room(s, code) \in Nat
      /\ \A c \in Codes : Carried(p.slots, c) \in Nat /\ Carried(f.slots, c) \in Nat /\ Carried(s, c) \in Nat
  BY <1>8, RoomNat, CarriedNat
<1>10. p.counts = counts /\ p.moved <= amount /\ f.moved <= p.moved
  BY <1>2, <1>4, <1>7 DEF FillKeeps
<1>11. p.moved + Room(p.slots, code) = Room(s, code)
  <2>1. f.moved + Room(f.slots, code) = Room(s, code)
    BY <1>2, <1>4, <1>9 DEF FillKeeps
  <2>2. p.moved + Room(p.slots, code) = f.moved + Room(f.slots, code)
    BY <1>7 DEF FillKeeps
  <2> QED
    BY <2>1, <2>2
<1>12. Carried(p.slots, code) = Carried(s, code) + p.moved
  <2>1. Carried(f.slots, code) = Carried(s, code) + (f.moved - 0)
    BY <1>2, <1>4 DEF FillKeeps
  <2>2. Carried(p.slots, code) = Carried(f.slots, code) + (p.moved - f.moved)
    BY <1>7 DEF FillKeeps
  <2> QED
    BY <1>8, <1>9, <2>1, <2>2
<1>13. \A c \in Codes : c # code => Carried(p.slots, c) = Carried(s, c)
  BY <1>2, <1>4, <1>7 DEF FillKeeps
<1>14. code # NoCard /\ code # Foreign /\ NoCard # Foreign /\ MAX_STACK \in Nat /\ MAX_STACK > 0
  BY CodeAssumption, SlotAssumption
<1>15. ASSUME NEW j \in 1..m
       PROVE  /\ p.slots[j] = s[j] \/ (j <= MainSlots /\ s[j].code # Foreign /\ p.slots[j].code = code)
              /\ f.slots[j] = s[j] \/ (s[j].code = code /\ f.slots[j].code = code)
              /\ p.slots[j] = f.slots[j] \/ (f.slots[j].code = NoCard /\ p.slots[j].code = code)
  <2>1. f.slots[j] = s[j] \/ (j <= MainSlots /\ s[j].code = code /\ f.slots[j].code = code)
    BY <1>2, <1>4 DEF FillReaches
  <2>2. p.slots[j] = f.slots[j] \/ (j <= MainSlots /\ f.slots[j].code = NoCard /\ p.slots[j].code = code)
    BY <1>7 DEF FillReaches
  <2> QED
    BY <1>14, <2>1, <2>2
<1>16. ASSUME p.moved # amount PROVE Room(p.slots, code) = 0
  <2>1. f.moved # amount
    BY <1>8, <1>10, <1>16
  <2>2. ASSUME NEW i \in 1..MainSlots
        PROVE  p.slots[i].code # NoCard /\ (p.slots[i].code = code => p.slots[i].count = MAX_STACK)
    <3>0. i \in 1..m
      BY SlotAssumption
    <3>1. s[i].code = code => f.slots[i] = Slot(code, MAX_STACK)
      BY <1>2, <1>4, <2>1 DEF FillReaches
    <3>2. f.slots[i].code = NoCard => p.slots[i] = Slot(code, MAX_STACK)
      BY <1>7, <1>16 DEF FillReaches
    <3>3. CASE f.slots[i].code = NoCard
      BY <1>14, <3>2, <3>3 DEF Slot
    <3>4. CASE f.slots[i].code # NoCard
      <4>1. p.slots[i] = f.slots[i]
        BY <1>15, <3>0, <3>4
      <4>2. f.slots[i].code = code => f.slots[i] = Slot(code, MAX_STACK)
        BY <1>15, <3>0, <3>1
      <4> QED
        BY <3>4, <4>1, <4>2 DEF Slot
    <3> QED
      BY <3>3, <3>4
  <2> QED
    BY <1>8, <2>2, RoomNone
<1> QED
  BY <1>7, <1>10, <1>11, <1>12, <1>13, <1>15, <1>16

LEMMA WithdrawIs ==
    ASSUME NEW m \in Nat, MainSlots <= m, NEW s, Inventory(s, m), NEW counts \in [Codes -> Nat],
           NEW code \in Codes, NEW amount \in Nat, NEW plan, plan = Withdraw(s, counts, code, amount)
    PROVE  \/ Exact(plan, s, m, counts, "WITHDRAW", code, amount)
           \/ /\ Fails(plan, {"INSUFFICIENT_CARDS", "INVENTORY_FULL"})
              /\ ~(counts[code] >= amount /\ Room(s, code) >= amount)
<1>1. PICK p : p = WithdrawLoops(s, counts, code, amount)
  OBVIOUS
<1>2. /\ p \in Plans(m) /\ p.counts = counts /\ p.moved <= amount
      /\ p.moved + Room(p.slots, code) = Room(s, code)
      /\ Carried(p.slots, code) = Carried(s, code) + p.moved
      /\ \A c \in Codes : c # code => Carried(p.slots, c) = Carried(s, c)
      /\ \A j \in 1..m : p.slots[j] = s[j] \/ (j <= MainSlots /\ s[j].code # Foreign /\ p.slots[j].code = code)
      /\ p.moved # amount => Room(p.slots, code) = 0
  BY <1>1, WithdrawLoopsAre
<1>3. p.moved \in Nat /\ Inventory(p.slots, m) /\ p.slots \in [1..m -> Stacks]
      /\ counts[code] \in Nat
  BY <1>2, PlanIs DEF Inventory
<1>4. CASE counts[code] < amount
  <2>1. plan.error = "INSUFFICIENT_CARDS"
    BY <1>4 DEF Withdraw, Failed
  <2> QED
    BY <1>3, <1>4, <2>1 DEF Fails
<1>5. CASE ~(counts[code] < amount) /\ p.moved # amount
  <2>1. plan.error = "INVENTORY_FULL"
    BY <1>1, <1>5 DEF Withdraw, Failed
  <2>2. Room(s, code) = p.moved
    BY <1>2, <1>3, <1>5
  <2>3. ~(Room(s, code) >= amount)
    BY <1>2, <1>3, <1>5, <2>2
  <2> QED
    BY <2>1, <2>3 DEF Fails
<1>6. CASE ~(counts[code] < amount) /\ p.moved = amount
  <2>1. PICK u : u = [p EXCEPT !.counts[code] = @ - amount]
    OBVIOUS
  <2>2. u.slots = p.slots /\ u.moved = p.moved
        /\ u.counts = [counts EXCEPT ![code] = counts[code] - amount]
    <3>1. DOMAIN p = {"slots", "counts", "moved"} /\ p.counts = counts
      BY <1>2, PlanIs
    <3> QED
      BY <2>1, <3>1
  <2>8. plan = Planned(u)
    BY <1>1, <1>6, <2>1 DEF Withdraw
  <2>3. /\ plan.error = "NONE" /\ plan.slots = p.slots /\ plan.moved = p.moved
        /\ plan.counts = [counts EXCEPT ![code] = counts[code] - amount]
    BY <2>2, <2>8 DEF Planned
  <2>4. counts[code] - amount \in Nat
    BY <1>3, <1>6
  <2>5. plan.counts \in [Codes -> Nat]
    BY <2>3, <2>4
  <2>6. ASSUME NEW c \in Codes
        PROVE  /\ Carried(s, c) - Carried(plan.slots, c) = DueOf(s, "WITHDRAW", code, amount, c)
               /\ plan.counts[c] - counts[c] = DueOf(s, "WITHDRAW", code, amount, c)
    <3>1. PICK x, y, z : x = Carried(s, c) /\ y = Carried(p.slots, c) /\ z = counts[c]
      OBVIOUS
    <3>2. x \in Nat /\ y \in Nat /\ z \in Nat
      BY <1>3, <3>1, CarriedNat
    <3>3. DueOf(s, "WITHDRAW", code, amount, c) = IF c = code THEN 0 - amount ELSE 0
      BY DEF DueOf
    <3>4. CASE c = code
      <4>1. y = x + amount /\ plan.counts[c] = z - amount
        BY <1>2, <1>6, <2>3, <3>1, <3>4
      <4>2. x - y = 0 - amount /\ plan.counts[c] - z = 0 - amount
        BY <3>2, <4>1
      <4> QED
        BY <2>3, <3>1, <3>3, <3>4, <4>2
    <3>5. CASE c # code
      <4>1. y = x /\ plan.counts[c] = z
        BY <1>2, <2>3, <3>1, <3>5
      <4>2. x - y = 0 /\ plan.counts[c] - z = 0
        BY <3>2, <4>1
      <4> QED
        BY <2>3, <3>1, <3>3, <3>5, <4>2
    <3> QED
      BY <3>4, <3>5
  <2>7. ASSUME NEW i \in 1..m
        PROVE  \/ plan.slots[i] = s[i]
               \/ s[i].code # Foreign /\ plan.slots[i].count <= MAX_STACK /\ i <= MainSlots
    <3>1. p.slots[i] \in Stacks
      BY <1>3
    <3>2. p.slots[i].code = code => p.slots[i].count <= MAX_STACK
      BY <3>1, StackIs, SlotAssumption
    <3> QED
      BY <1>2, <2>3, <3>2
  <2> QED
    BY <1>3, <2>3, <2>5, <2>6, <2>7 DEF Exact
<1> QED
  BY <1>4, <1>5, <1>6

-----------------------------------------------------------------------------
(* DEPOSIT and DEPOSIT_ALL: one pass over the slots *)

\* The codes a deposit takes, and what it takes of slot i.
Given(kind, code) == IF kind = "DEPOSIT" THEN {code} \cap Depositable ELSE Depositable
Share(p, i, kind, amount) ==
    IF kind = "DEPOSIT_ALL" THEN p.slots[i].count ELSE Lesser(p.slots[i].count, amount - p.moved)

\* A step of the pass of a deposit.
GiveOne(p, i, kind, code, amount) ==
    IF p.slots[i].code \in Given(kind, code) THEN Give(p, i, Share(p, i, kind, amount)) ELSE p

Deposits == {"DEPOSIT", "DEPOSIT_ALL"}

\* Slot i of a plan gives some copies.
Gives(p, q, i, slot, take) ==
    /\ take \in Nat /\ take > 0 /\ slot \in Stacks
    /\ slot = EmptySlot \/ slot.code = p.slots[i].code
    /\ take + (IF slot = EmptySlot THEN 0 ELSE slot.count) = p.slots[i].count
    /\ Replaced(q.slots, p.slots, i, slot)
    /\ q.counts = [p.counts EXCEPT ![p.slots[i].code] = @ + take]
    /\ q.moved = p.moved + take

LEMMA GiveIs ==
    ASSUME NEW m \in Nat, NEW p \in Plans(m), NEW i \in 1..m, NEW kind \in Deposits, NEW code,
           NEW amount \in Nat, NEW q, q = GiveOne(p, i, kind, code, amount)
    PROVE  /\ q \in Plans(m) /\ (kind = "DEPOSIT" /\ p.moved <= amount => q.moved <= amount)
           /\ \/ q = p
              \/ p.slots[i].code \in Given(kind, code) /\ \E slot, take : Gives(p, q, i, slot, take)
           /\ p.slots[i].code \in Given(kind, code) =>
                q.slots[i] = EmptySlot \/ (kind = "DEPOSIT" /\ q.moved >= amount)
<1>1. p.slots[i] \in Stacks /\ p.moved \in Nat
  BY PlanIs
<1>2. PICK c, d : c = p.slots[i].count /\ d = p.slots[i].code
  OBVIOUS
<1>3. Given(kind, code) \subseteq Codes
  BY CodeAssumption DEF Given
<1>4. d \in Given(kind, code) => d \in Codes /\ c \in 1..MAX_STACK
  BY <1>1, <1>2, <1>3, StackIs
<1>5. MAX_STACK \in Nat
  BY SlotAssumption
<1>6. PICK take : take = Share(p, i, kind, amount)
  OBVIOUS
<1>7. c \in Nat
  BY <1>1, <1>2, StackIs
<1>8. /\ take \in Int /\ take <= c
      /\ take = c \/ (kind = "DEPOSIT" /\ take = amount - p.moved)
      /\ kind = "DEPOSIT" => take <= amount - p.moved
  <2>1. CASE kind = "DEPOSIT_ALL"
    BY <1>2, <1>6, <1>7, <2>1 DEF Share
  <2>2. CASE kind = "DEPOSIT"
    BY <1>1, <1>2, <1>6, <1>7, <2>2 DEF Share, Lesser
  <2> QED
    BY <2>1, <2>2 DEF Deposits
<1>9. CASE d \notin Given(kind, code)
  BY <1>2, <1>9 DEF GiveOne
<1>10. CASE d \in Given(kind, code) /\ take <= 0
  <2>1. q = p
    BY <1>2, <1>6, <1>10 DEF GiveOne, Give
  <2>2. take # c
    BY <1>4, <1>5, <1>10
  <2>3. kind = "DEPOSIT" /\ p.moved >= amount
    BY <1>1, <1>8, <1>10, <2>2
  <2> QED
    BY <1>1, <2>1, <2>3
<1>11. CASE d \in Given(kind, code) /\ ~(take <= 0)
  <2>1. PICK slot : slot = IF take = c THEN EmptySlot ELSE Slot(d, c - take)
    OBVIOUS
  <2>2. q = [p EXCEPT !.counts[d] = @ + take, !.slots[i] = slot, !.moved = @ + take]
    BY <1>2, <1>6, <1>11, <2>1 DEF GiveOne, Give
  <2>3. DOMAIN p = {"slots", "counts", "moved"} /\ p.slots \in [1..m -> Stacks]
        /\ p.counts \in [Codes -> Nat]
    BY PlanIs
  <2>4. DOMAIN q = {"slots", "counts", "moved"}
    BY <2>2, <2>3
  <2>5. /\ q.slots = [p.slots EXCEPT ![i] = slot]
        /\ q.counts = [p.counts EXCEPT ![d] = @ + take]
        /\ q.moved = p.moved + take
    BY <2>2, <2>3
  <2>6. q = [slots |-> q.slots, counts |-> q.counts, moved |-> q.moved]
    BY <2>2, <2>4
  <2>7. take \in Nat /\ take > 0 /\ d \in Codes
    BY <1>4, <1>8, <1>11
  <2>8. take # c => c - take \in 1..MAX_STACK
    BY <1>4, <1>5, <1>8, <1>11, <2>7
  <2>9. slot \in Stacks
    BY <2>1, <2>7, <2>8 DEF Stacks, Slot
  <2>10. q.slots \in [1..m -> Stacks]
    BY <2>3, <2>5, <2>9
  <2>11. p.counts[d] + take \in Nat
    BY <2>3, <2>7
  <2>12. q.counts \in [Codes -> Nat]
    BY <2>3, <2>5, <2>11
  <2>13. q.moved \in Nat
    BY <1>1, <2>5, <2>7
  <2>14. q \in Plans(m)
    BY <2>6, <2>10, <2>12, <2>13 DEF Plans
  <2>15. kind = "DEPOSIT" => q.moved <= amount
    BY <1>1, <1>8, <2>5, <2>7
  <2>16. Gives(p, q, i, slot, take)
    <3>1. slot = EmptySlot \/ slot.code = d
      BY <2>1 DEF Slot
    <3>2. take + (IF slot = EmptySlot THEN 0 ELSE slot.count) = c
      <4>1. CASE take = c
        BY <1>7, <2>1, <4>1
      <4>2. CASE take # c
        <5>1. slot.count = c - take /\ slot.code = d /\ EmptySlot.code = NoCard
          BY <2>1, <4>2 DEF Slot, EmptySlot
        <5>2. slot # EmptySlot
          BY <2>7, <5>1, CodeAssumption
        <5> QED
          BY <1>7, <2>7, <5>1, <5>2
      <4> QED
        BY <4>1, <4>2
    <3> QED
      BY <1>2, <2>5, <2>7, <2>9, <3>1, <3>2 DEF Gives, Replaced
  <2>17. q.slots[i] = slot
    BY <2>3, <2>5
  <2>18. take = c => slot = EmptySlot
    BY <2>1
  <2>19. kind = "DEPOSIT" /\ take = amount - p.moved => q.moved = amount
    BY <1>1, <2>5
  <2> QED
    BY <1>2, <1>8, <1>11, <2>14, <2>15, <2>16, <2>17, <2>18, <2>19
<1> QED
  BY <1>9, <1>10, <1>11

\* The plans of the pass of a deposit.
GivePlans(r, m, s, counts, kind, code, amount) ==
    /\ r \in [0..m -> Plans(m)] /\ r[0] = Unmoved(s, counts)
    /\ r[m] = DepositLoop(s, counts, kind, code, amount)
    /\ \A k \in 1..m : r[k] = GiveOne(r[k - 1], k, kind, code, amount)

LEMMA DepositLoopIs ==
    ASSUME NEW m \in Nat, NEW s, Inventory(s, m), NEW counts \in [Codes -> Nat],
           NEW kind \in Deposits, NEW code, NEW amount \in Nat
    PROVE  \E r : GivePlans(r, m, s, counts, kind, code, amount)
<1>a. PICK q : q = All(s)
  OBVIOUS
<1>0. q = All(s) /\ DOMAIN q = 1..m /\ \A i \in 1..m : q[i] = i
  BY <1>a DEF All, Inventory
<1>b. PICK plan : plan = Unmoved(s, counts)
  OBVIOUS
<1>c. plan = Unmoved(s, counts) /\ plan \in Plans(m)
  BY <1>b, UnmovedIs
<1> DEFINE Op(p, i) == IF p.slots[i].code \in (IF kind = "DEPOSIT" THEN {code} \cap Depositable ELSE Depositable)
                       THEN Give(p, i, IF kind = "DEPOSIT_ALL" THEN p.slots[i].count
                                       ELSE Lesser(p.slots[i].count, amount - p.moved))
                       ELSE p
           Eq(it) == it = [t \in SUBSET DOMAIN q |->
                             IF t = {} THEN plan ELSE Op(it[t \ {Max(t)}], q[Max(t)])]
           G == [i \in 1..m |-> [p \in Plans(m) |-> GiveOne(p, i, kind, code, amount)]]
<1>d. ASSUME NEW p, NEW i PROVE Op(p, i) = GiveOne(p, i, kind, code, amount)
  BY DEF GiveOne, Given, Share
<1>1. PICK it : it = (CHOOSE f : Eq(f))
  OBVIOUS
<1>2. DepositLoop(s, counts, kind, code, amount) = it[1..m]
  BY <1>0, <1>c, <1>1 DEF DepositLoop, FoldLeft, MapThenFoldSet
<1> HIDE DEF Op
<1>3. \A i \in 1..m : \A p \in Plans(m) : GiveOne(p, i, kind, code, amount) \in Plans(m)
  BY GiveIs
<1>4. G \in [1..m -> [Plans(m) -> Plans(m)]]
  BY <1>3
<1>5. PICK t : FoldTable(t, m, Plans(m), plan, G)
  <2> HIDE DEF G
  <2> QED
    BY <1>c, <1>4, FoldExists
<1>6. ASSUME NEW u \in SUBSET (1..m), u # {}
      PROVE  Max(u) \in 1..m /\ q[Max(u)] = Max(u) /\ u \in SUBSET DOMAIN q /\ u \ {Max(u)} \in SUBSET (1..m)
  BY <1>0, <1>6, MaxIs
<1>7. Eq(t)
  <2>2. ASSUME NEW u \in SUBSET (1..m), u # {}
        PROVE  t[u] = Op(t[u \ {Max(u)}], q[Max(u)])
    <3>1. t[u \ {Max(u)}] \in Plans(m)
      BY <1>5, <1>6, <2>2 DEF FoldTable
    <3>2. t[u] = GiveOne(t[u \ {Max(u)}], Max(u), kind, code, amount)
      BY <1>5, <1>6, <2>2, <3>1 DEF FoldTable
    <3> QED
      BY <1>6, <1>d, <2>2, <3>2
  <2> QED
    BY <1>0, <1>5, <2>2 DEF FoldTable
<1>8. Eq(it)
  <2> HIDE DEF Eq
  <2> QED
    BY <1>1, <1>7
<1>9. Folds(it, m, Plans(m), plan, G)
  <2>1. it[{}] = plan
    BY <1>0, <1>8
  <2>2. ASSUME NEW u \in SUBSET (1..m), u # {}, it[u \ {Max(u)}] \in Plans(m)
        PROVE  it[u] = G[Max(u)][it[u \ {Max(u)}]]
    <3>1. it[u] = Op(it[u \ {Max(u)}], q[Max(u)])
      BY <1>6, <1>8, <2>2
    <3>2. it[u] = GiveOne(it[u \ {Max(u)}], Max(u), kind, code, amount)
      BY <1>6, <1>d, <2>2, <3>1
    <3>3. G[Max(u)][it[u \ {Max(u)}]] = GiveOne(it[u \ {Max(u)}], Max(u), kind, code, amount)
      BY <1>6, <2>2
    <3> HIDE DEF G
    <3> QED
      BY <3>2, <3>3
  <2> QED
    BY <2>1, <2>2 DEF Folds
<1>10. PICK r : Values(r, it, m, Plans(m), plan, G)
  <2> HIDE DEF G
  <2> QED
    BY <1>c, <1>4, <1>9, FoldSteps
<1>11. ASSUME NEW k \in 1..m PROVE r[k] = GiveOne(r[k - 1], k, kind, code, amount)
  <2>1. r[k - 1] \in Plans(m)
    BY <1>10, k - 1 \in 0..m DEF Values
  <2> QED
    BY <1>10, <2>1 DEF Values
<1> QED
  BY <1>2, <1>c, <1>10, <1>11 DEF Values, GivePlans

\* What a plan p of a deposit has in common with the inventory s and the counts it began with:
\* what is carried no longer was stored, all that was moved of one code, ...
GiveKeeps(s, counts, p, kind, code, amount) ==
    /\ kind = "DEPOSIT" => p.moved <= amount
    /\ \A c \in Codes : Carried(p.slots, c) + p.counts[c] = Carried(s, c) + counts[c]
    /\ \A c \in Codes : c \notin Given(kind, code) => p.counts[c] = counts[c]
    /\ \A c \in Given(kind, code) : kind = "DEPOSIT" => p.counts[c] = counts[c] + p.moved
    /\ p.moved = 0 => p.slots = s
    /\ p.moved # 0 => Given(kind, code) # {}

\* ... and up to slot k all of the codes have been given, unless no more were asked for.
GiveReaches(s, p, k, m, kind, code, amount) ==
    /\ \A j \in 1..m :
        \/ p.slots[j] = s[j]
        \/ /\ j <= k /\ s[j].code \in Given(kind, code)
           /\ p.slots[j] = EmptySlot \/ p.slots[j].code = s[j].code
    /\ \A j \in 1..k :
        s[j].code \in Given(kind, code) => p.slots[j] = EmptySlot \/ (kind = "DEPOSIT" /\ p.moved = amount)

LEMMA GivesKeeps ==
    ASSUME NEW m \in Nat, NEW s, Inventory(s, m), NEW counts \in [Codes -> Nat],
           NEW p \in Plans(m), NEW q \in Plans(m), NEW k \in 1..m, NEW kind \in Deposits,
           NEW code,
           NEW amount \in Nat, kind = "DEPOSIT" => q.moved <= amount,
           p.slots[k].code \in Given(kind, code), NEW slot, NEW take, Gives(p, q, k, slot, take),
           GiveKeeps(s, counts, p, kind, code, amount)
    PROVE  GiveKeeps(s, counts, q, kind, code, amount)
<1>1. /\ p.slots \in [1..m -> Stacks] /\ p.counts \in [Codes -> Nat] /\ p.moved \in Nat
      /\ q.slots \in [1..m -> Stacks] /\ q.counts \in [Codes -> Nat] /\ q.moved \in Nat
  BY PlanIs
<1>2. PICK u, d, x : u = p.slots /\ d = u[k].code /\ x = u[k].count
  OBVIOUS
<1>3. d \in Given(kind, code) /\ d \in Codes /\ d # NoCard /\ Inventory(u, m)
      /\ Inventory(q.slots, m) /\ x \in Nat
      /\ u[k] \in Stacks
  BY <1>1, <1>2, CodeAssumption, StackIs DEF Given, Inventory
<1>4. /\ take \in Nat /\ take > 0 /\ slot \in Stacks /\ Replaced(q.slots, u, k, slot)
      /\ q.counts = [p.counts EXCEPT ![d] = @ + take] /\ q.moved = p.moved + take
      /\ slot = EmptySlot \/ slot.code = d
      /\ take + (IF slot = EmptySlot THEN 0 ELSE slot.count) = x
  BY <1>2 DEF Gives
<1>5. EmptySlot.code = NoCard
  BY DEF EmptySlot, Slot
<1>6. ASSUME NEW c \in Codes
      PROVE  /\ Carried(q.slots, c) + q.counts[c] = Carried(s, c) + counts[c]
             /\ c # d => q.counts[c] = p.counts[c]
  <2>1. Carried(q.slots, c) = Carried(u, c) - CountIn(u[k], c) + CountIn(slot, c)
    BY <1>3, <1>4, CarriedUpdate
  <2>2. PICK y, z, v, w : y = Carried(u, c) /\ z = p.counts[c] /\ v = Carried(s, c)
        /\ w = counts[c]
    OBVIOUS
  <2>3. y \in Nat /\ z \in Nat /\ v \in Nat /\ w \in Nat
    BY <1>1, <1>3, <2>2, CarriedNat
  <2>4. y + z = v + w
    BY <1>2, <2>2 DEF GiveKeeps
  <2>5. CASE c = d
    <3>1. CountIn(u[k], c) = x
      BY <1>2, <2>5 DEF CountIn
    <3>2. CountIn(slot, c) = IF slot = EmptySlot THEN 0 ELSE slot.count
      BY <1>3, <1>4, <1>5, <2>5 DEF CountIn
    <3>3. CountIn(slot, c) \in Nat
      BY <1>4, InIs
    <3>4. q.counts[c] = z + take
      BY <1>1, <1>3, <1>4, <2>2, <2>5
    <3>5. Carried(q.slots, c) = y - take
      BY <1>3, <1>4, <2>1, <2>2, <2>3, <3>1, <3>2, <3>3
    <3>6. (y - take) + (z + take) = v + w
      BY <1>4, <2>3, <2>4
    <3> QED
      BY <2>2, <2>5, <3>4, <3>5, <3>6
  <2>6. CASE c # d
    <3>1. CountIn(u[k], c) = 0
      BY <1>2, <2>6 DEF CountIn
    <3>2. CountIn(slot, c) = 0
      BY <1>4, <1>5, <2>6, CodeAssumption DEF CountIn
    <3>3. q.counts[c] = z
      BY <1>1, <1>4, <2>2, <2>6
    <3>4. Carried(q.slots, c) = y
      BY <2>1, <2>2, <2>3, <3>1, <3>2
    <3> QED
      BY <2>2, <2>4, <3>3, <3>4
  <2> QED
    BY <2>5, <2>6
<1>7. ASSUME NEW c \in Codes, c \notin Given(kind, code) PROVE q.counts[c] = counts[c]
  BY <1>3, <1>6, <1>7 DEF GiveKeeps
<1>8. ASSUME NEW c \in Given(kind, code), kind = "DEPOSIT" PROVE q.counts[c] = counts[c] + q.moved
  <2>1. c = d
    BY <1>3, <1>8 DEF Given
  <2>2. q.counts[d] = p.counts[d] + take
    BY <1>1, <1>3, <1>4
  <2>3. p.counts[d] = counts[d] + p.moved
    BY <1>8, <2>1 DEF GiveKeeps
  <2>4. counts[d] \in Nat
    BY <1>3
  <2> QED
    BY <1>1, <1>4, <2>1, <2>2, <2>3, <2>4
<1>9. q.moved # 0
  BY <1>1, <1>4
<1> QED
  BY <1>6, <1>7, <1>8, <1>9 DEF GiveKeeps

LEMMA GiveReachesMore ==
    ASSUME NEW m \in Nat, NEW s, Inventory(s, m), NEW counts \in [Codes -> Nat],
           NEW p \in Plans(m), NEW q \in Plans(m), NEW k \in 1..m, NEW kind \in Deposits,
           NEW code,
           NEW amount \in Nat, q = GiveOne(p, k, kind, code, amount),
           GiveKeeps(s, counts, p, kind, code, amount), GiveReaches(s, p, k - 1, m, kind, code, amount)
    PROVE  GiveKeeps(s, counts, q, kind, code, amount) /\ GiveReaches(s, q, k, m, kind, code, amount)
<1>1. p.slots \in [1..m -> Stacks] /\ p.moved \in Nat /\ q.slots \in [1..m -> Stacks]
      /\ q.moved \in Nat
  BY PlanIs
<1>2. /\ kind = "DEPOSIT" => p.moved <= amount /\ q.moved <= amount
      /\ q = p \/ (p.slots[k].code \in Given(kind, code) /\ \E slot, take : Gives(p, q, k, slot, take))
      /\ p.slots[k].code \in Given(kind, code) => q.slots[k] = EmptySlot \/ (kind = "DEPOSIT" /\ q.moved >= amount)
  BY GiveIs DEF GiveKeeps
<1>3. GiveKeeps(s, counts, q, kind, code, amount)
  <2>1. CASE q = p
    BY <2>1
  <2>2. CASE p.slots[k].code \in Given(kind, code) /\ \E slot, take : Gives(p, q, k, slot, take)
    <3>1. PICK slot, take : Gives(p, q, k, slot, take)
      BY <2>2
    <3> QED
      BY <1>2, <2>2, <3>1, GivesKeeps
  <2> QED
    BY <1>2, <2>1, <2>2
<1>4. /\ \A j \in 1..m : j # k => q.slots[j] = p.slots[j]
      /\ \/ q.slots[k] = p.slots[k]
         \/ /\ p.slots[k].code \in Given(kind, code)
            /\ q.slots[k] = EmptySlot \/ q.slots[k].code = p.slots[k].code
      /\ p.moved <= q.moved
  <2>1. CASE q = p
    BY <1>1, <2>1
  <2>2. CASE p.slots[k].code \in Given(kind, code) /\ \E slot, take : Gives(p, q, k, slot, take)
    <3>1. PICK slot, take : Gives(p, q, k, slot, take)
      BY <2>2
    <3>2. q.slots = [p.slots EXCEPT ![k] = slot] /\ q.moved = p.moved + take /\ take \in Nat
          /\ (slot = EmptySlot \/ slot.code = p.slots[k].code)
      BY <3>1 DEF Gives, Replaced
    <3>3. q.slots[k] = slot /\ \A j \in 1..m : j # k => q.slots[j] = p.slots[j]
      BY <1>1, <3>2
    <3>4. p.moved <= q.moved
      BY <1>1, <3>2
    <3> QED
      BY <2>2, <3>2, <3>3, <3>4
  <2> QED
    BY <1>2, <2>1, <2>2
<1>5. p.slots[k] = s[k]
  BY DEF GiveReaches
<1>6. ASSUME NEW j \in 1..m
      PROVE  \/ q.slots[j] = s[j]
             \/ /\ j <= k /\ s[j].code \in Given(kind, code)
                /\ q.slots[j] = EmptySlot \/ q.slots[j].code = s[j].code
  <2>1. CASE j = k
    BY <1>4, <1>5, <2>1
  <2>2. CASE j # k
    <3>1. j <= k - 1 => j <= k
      OBVIOUS
    <3> QED
      BY <1>4, <2>2, <3>1 DEF GiveReaches
  <2> QED
    BY <2>1, <2>2
<1>7. ASSUME NEW j \in 1..k, s[j].code \in Given(kind, code),
             ~(kind = "DEPOSIT" /\ q.moved = amount)
      PROVE  q.slots[j] = EmptySlot
  <2>1. kind = "DEPOSIT" => q.moved < amount
    BY <1>1, <1>2, <1>7
  <2>2. CASE j = k
    BY <1>1, <1>2, <1>5, <1>7, <2>1, <2>2
  <2>3. CASE j # k
    <3>1. ~(kind = "DEPOSIT" /\ p.moved = amount)
      BY <1>1, <1>4, <2>1
    <3>2. j \in 1..(k - 1) /\ j \in 1..m
      BY <2>3
    <3>3. p.slots[j] = EmptySlot
      BY <1>7, <3>1, <3>2 DEF GiveReaches
    <3> QED
      BY <1>4, <2>3, <3>2, <3>3
  <2> QED
    BY <2>2, <2>3
<1> QED
  BY <1>3, <1>6, <1>7 DEF GiveReaches

\* The whole pass of a deposit.
LEMMA DepositLoopKeeps ==
    ASSUME NEW m \in Nat, NEW s, Inventory(s, m), NEW counts \in [Codes -> Nat],
           NEW kind \in Deposits, NEW code, NEW amount \in Nat, NEW p, p = DepositLoop(s, counts, kind, code, amount)
    PROVE  /\ p \in Plans(m)
           /\ GiveKeeps(s, counts, p, kind, code, amount)
           /\ GiveReaches(s, p, m, m, kind, code, amount)
<1>1. PICK r : GivePlans(r, m, s, counts, kind, code, amount)
  BY DepositLoopIs
<1>2. PICK b : b = Unmoved(s, counts)
  OBVIOUS
<1>3. b \in Plans(m) /\ b.slots = s /\ b.counts = counts /\ b.moved = 0
  BY <1>2, UnmovedIs
<1> DEFINE H == {k \in 0..m : /\ GiveKeeps(s, counts, r[k], kind, code, amount)
                            /\ GiveReaches(s, r[k], k, m, kind, code, amount)}
<1>4. 0 \in H
  <2>1. r[0] = b /\ 0 \in 0..m
    BY <1>1, <1>2 DEF GivePlans
  <2>2. Given(kind, code) \subseteq Codes
    BY CodeAssumption DEF Given
  <2>3. \A c \in Given(kind, code) : counts[c] = counts[c] + 0
    BY <2>2
  <2>4. GiveKeeps(s, counts, b, kind, code, amount)
    BY <1>3, <2>3 DEF GiveKeeps
  <2>5. GiveReaches(s, b, 0, m, kind, code, amount)
    BY <1>3 DEF GiveReaches
  <2> QED
    BY <2>1, <2>4, <2>5
<1>5. ASSUME NEW k \in 0..(m - 1), k \in H PROVE k + 1 \in H
  <2>1. PICK i : i = k + 1
    OBVIOUS
  <2>2. i \in 1..m /\ i - 1 = k /\ i \in 0..m /\ k \in 0..m
    BY <2>1
  <2>3. r[i] = GiveOne(r[k], i, kind, code, amount) /\ r[i] \in Plans(m) /\ r[k] \in Plans(m)
    BY <1>1, <2>2 DEF GivePlans
  <2>4. GiveKeeps(s, counts, r[k], kind, code, amount)
        /\ GiveReaches(s, r[k], i - 1, m, kind, code, amount)
    BY <1>5, <2>2
  <2>5. GiveKeeps(s, counts, r[i], kind, code, amount)
        /\ GiveReaches(s, r[i], i, m, kind, code, amount)
    BY <2>2, <2>3, <2>4, GiveReachesMore
  <2> QED
    BY <2>1, <2>2, <2>5
<1> HIDE DEF H
<1>6. 0..m \subseteq H
  BY <1>4, <1>5, Steps
<1>7. m \in H /\ r[m] = p /\ p \in Plans(m)
  BY <1>1, <1>6 DEF GivePlans
<1> QED
  BY <1>7 DEF H

-----------------------------------------------------------------------------
(* What a plan is worth *)

\* The cards, or the room for them, are there.
FeasibleFor(s, counts, kind, code, amount) ==
    CASE kind = "WITHDRAW" -> counts[code] >= amount /\ Room(s, code) >= amount
      [] kind = "DEPOSIT" -> code \in Depositable /\ Carried(s, code) >= amount
      [] kind = "DEPOSIT_ALL" -> \E c \in Depositable : Carried(s, c) > 0

LEMMA DepositIs ==
    ASSUME NEW m \in Nat, NEW s, Inventory(s, m), NEW counts \in [Codes -> Nat],
           NEW kind \in Deposits, NEW code, NEW amount \in Nat,
           kind = "DEPOSIT" => code \in Codes /\ amount >= 1,
           NEW plan, plan = Deposit(s, counts, kind, code, amount)
    PROVE  \/ Exact(plan, s, m, counts, kind, code, amount)
           \/ Fails(plan, {"INSUFFICIENT_CARDS"}) /\ ~FeasibleFor(s, counts, kind, code, amount)
<1>1. PICK p : p = DepositLoop(s, counts, kind, code, amount)
  OBVIOUS
<1>2. p \in Plans(m) /\ GiveKeeps(s, counts, p, kind, code, amount)
      /\ GiveReaches(s, p, m, m, kind, code, amount)
  BY <1>1, DepositLoopKeeps
<1>3. p.moved \in Nat /\ Inventory(p.slots, m) /\ p.slots \in [1..m -> Stacks]
      /\ p.counts \in [Codes -> Nat]
  BY <1>2, PlanIs DEF Inventory
<1>4. Given(kind, code) \subseteq Codes /\ Depositable \subseteq Codes
  BY CodeAssumption DEF Given
<1>5. \A c \in Codes : /\ Carried(s, c) \in Nat /\ Carried(p.slots, c) \in Nat
                       /\ counts[c] \in Nat /\ p.counts[c] \in Nat
  BY <1>3, CarriedNat
\* Short of the amount, none of the codes are left.
<1>6. ASSUME ~(kind = "DEPOSIT" /\ p.moved = amount), NEW c \in Given(kind, code)
      PROVE  Carried(p.slots, c) = 0
  <2>1. ASSUME NEW i \in 1..m PROVE p.slots[i].code # c
    <3>1. EmptySlot.code = NoCard /\ c # NoCard
      BY <1>4, CodeAssumption DEF EmptySlot, Slot
    <3>2. CASE s[i].code \in Given(kind, code)
      BY <1>2, <1>6, <3>1, <3>2 DEF GiveReaches
    <3>3. CASE s[i].code \notin Given(kind, code)
      <4>1. p.slots[i] = s[i]
        BY <1>2, <3>3 DEF GiveReaches
      <4> QED
        BY <3>3, <4>1
    <3> QED
      BY <3>2, <3>3
  <2>2. c \in Codes
    BY <1>4
  <2> QED
    BY <1>3, <2>1, <2>2, CarriedNone
<1>7. CASE p.moved = 0 \/ (kind = "DEPOSIT" /\ p.moved # amount)
  <2>1. plan.error = "INSUFFICIENT_CARDS"
    BY <1>1, <1>7 DEF Deposit, Failed
  <2>2. ~(kind = "DEPOSIT" /\ p.moved = amount)
    BY <1>7
  <2>3. CASE kind = "DEPOSIT"
    <3>1. ASSUME code \in Depositable PROVE ~(Carried(s, code) >= amount)
      <4>1. code \in Given(kind, code)
        BY <2>3, <3>1 DEF Given
      <4>2. Carried(p.slots, code) = 0
        BY <1>6, <2>2, <4>1
      <4>3. Carried(p.slots, code) + p.counts[code] = Carried(s, code) + counts[code]
        BY <1>2, <1>4, <4>1 DEF GiveKeeps
      <4>4. p.counts[code] = counts[code] + p.moved /\ p.moved <= amount
        BY <1>2, <2>3, <4>1 DEF GiveKeeps
      <4>5. Carried(s, code) = p.moved
        <5>1. PICK x, y \in Nat : x = Carried(s, code) /\ y = counts[code]
          BY <1>4, <1>5, <4>1
        <5>2. 0 + (y + p.moved) = x + y
          BY <4>2, <4>3, <4>4, <5>1
        <5> QED
          BY <1>3, <5>1, <5>2
      <4> QED
        BY <1>3, <2>2, <2>3, <4>4, <4>5
    <3> QED
      BY <2>1, <2>3, <3>1 DEF Fails, FeasibleFor
  <2>4. CASE kind = "DEPOSIT_ALL"
    <3>1. p.slots = s
      BY <1>2, <1>7, <2>4 DEF GiveKeeps
    <3>2. \A c \in Depositable : Carried(s, c) = 0
      BY <1>6, <2>4, <3>1 DEF Given
    <3> QED
      BY <2>1, <2>4, <3>2 DEF Fails, FeasibleFor
  <2> QED
    BY <2>3, <2>4 DEF Deposits
<1>8. CASE ~(p.moved = 0 \/ (kind = "DEPOSIT" /\ p.moved # amount))
  <2>1. plan.error = "NONE" /\ plan.slots = p.slots /\ plan.counts = p.counts
        /\ plan.moved = p.moved
    BY <1>1, <1>8 DEF Deposit, Planned
  <2>2. ASSUME NEW c \in Codes
        PROVE  /\ Carried(s, c) - Carried(p.slots, c) = DueOf(s, kind, code, amount, c)
               /\ p.counts[c] - counts[c] = DueOf(s, kind, code, amount, c)
    <3>1. PICK x, y, z, w : x = Carried(s, c) /\ y = Carried(p.slots, c) /\ z = p.counts[c]
          /\ w = counts[c]
      OBVIOUS
    <3>2. x \in Nat /\ y \in Nat /\ z \in Nat /\ w \in Nat
      BY <1>5, <3>1
    <3>3. y + z = x + w
      BY <1>2, <3>1 DEF GiveKeeps
    <3>4. x - y = z - w
      BY <3>2, <3>3
    <3>5. CASE c \notin Given(kind, code)
      <4>1. z = w
        BY <1>2, <3>1, <3>5 DEF GiveKeeps
      <4>2. z - w = 0
        BY <3>2, <4>1
      <4>3. CASE kind = "DEPOSIT" /\ c = code
        <5>1. code \notin Depositable
          BY <3>5, <4>3 DEF Given
        <5>2. p.moved = 0
          <6>1. Given(kind, code) = {}
            BY <4>3, <5>1 DEF Given
          <6> QED
            BY <1>2, <6>1 DEF GiveKeeps
        <5> QED
          BY <1>8, <5>2
      <4>4. CASE ~(kind = "DEPOSIT" /\ c = code)
        <5>1. DueOf(s, kind, code, amount, c) = 0
          BY <3>5, <4>4 DEF DueOf, Given, Deposits
        <5> QED
          BY <3>1, <3>4, <4>2, <5>1
      <4> QED
        BY <4>3, <4>4
    <3>6. CASE c \in Given(kind, code) /\ kind = "DEPOSIT"
      <4>1. z = w + amount
        BY <1>2, <1>8, <3>1, <3>6 DEF GiveKeeps
      <4>2. z - w = amount
        BY <3>2, <4>1
      <4>3. DueOf(s, kind, code, amount, c) = amount
        BY <3>6 DEF DueOf, Given
      <4> QED
        BY <3>1, <3>4, <4>2, <4>3
    <3>7. CASE c \in Given(kind, code) /\ kind = "DEPOSIT_ALL"
      <4>1. y = 0
        BY <1>6, <3>1, <3>7
      <4>2. x - y = x
        BY <3>2, <4>1
      <4>3. DueOf(s, kind, code, amount, c) = x
        BY <3>1, <3>7 DEF DueOf, Given
      <4> QED
        BY <3>1, <3>4, <4>2, <4>3
    <3> QED
      BY <3>5, <3>6, <3>7 DEF Deposits
  <2>3. ASSUME NEW i \in 1..m
        PROVE  p.slots[i] = s[i] \/ (s[i].code # Foreign /\ p.slots[i].count <= MAX_STACK)
    <3>1. CASE p.slots[i] # s[i]
      <4>1. s[i].code \in Codes /\ s[i].code # Foreign /\ (p.slots[i] = EmptySlot \/ p.slots[i].code = s[i].code)
        BY <1>2, <1>4, <3>1, CodeAssumption DEF GiveReaches
      <4>2. p.slots[i] \in Stacks
        BY <1>3
      <4>3. p.slots[i].code = s[i].code => p.slots[i].count <= MAX_STACK
        BY <4>1, <4>2, StackIs, SlotAssumption
      <4>4. EmptySlot.count <= MAX_STACK
        BY SlotAssumption DEF EmptySlot, Slot
      <4> QED
        BY <4>1, <4>3, <4>4
    <3> QED
      BY <3>1
  <2>4. kind # "WITHDRAW"
    BY DEF Deposits
  <2> QED
    BY <1>3, <2>1, <2>2, <2>3, <2>4 DEF Exact
<1> QED
  BY <1>7, <1>8

LEMMA PlanExact ==
    ASSUME NEW m \in Nat, MainSlots <= m, NEW s, Inventory(s, m), NEW counts \in [Codes -> Nat],
           NEW kind \in Transfers, NEW code, NEW amount \in Nat,
           kind # "DEPOSIT_ALL" => code \in Codes,
           NEW plan, plan = Plan(s, counts, kind, code, amount)
    PROVE  \/ Exact(plan, s, m, counts, kind, code, amount)
           \/ Fails(plan, {"INVALID"})
           \/ /\ Fails(plan, {"INSUFFICIENT_CARDS", "INVENTORY_FULL"})
              /\ ~FeasibleFor(s, counts, kind, code, amount)
<1>1. CASE kind # "DEPOSIT_ALL" /\ amount \notin 1..MAX_AMOUNT
  BY <1>1 DEF Plan, Failed, Fails
<1>2. CASE ~(kind # "DEPOSIT_ALL" /\ amount \notin 1..MAX_AMOUNT) /\ kind = "WITHDRAW"
  <2>1. plan = Withdraw(s, counts, code, amount)
    BY <1>2 DEF Plan
  <2> QED
    BY <1>2, <2>1, WithdrawIs DEF FeasibleFor
<1>3. CASE ~(kind # "DEPOSIT_ALL" /\ amount \notin 1..MAX_AMOUNT) /\ kind # "WITHDRAW"
  <2>1. plan = Deposit(s, counts, kind, code, amount) /\ kind \in Deposits
    BY <1>3 DEF Plan, Deposits, Transfers
  <2>2. kind = "DEPOSIT" => code \in Codes /\ amount >= 1
    BY <1>3, SlotAssumption
  <2>3. \/ Exact(plan, s, m, counts, kind, code, amount)
        \/ Fails(plan, {"INSUFFICIENT_CARDS"}) /\ ~FeasibleFor(s, counts, kind, code, amount)
    BY <2>1, <2>2, DepositIs
  <2> QED
    BY <2>3 DEF Fails
<1> QED
  BY <1>1, <1>2, <1>3

-----------------------------------------------------------------------------
(* Transfers of the player *)

\* What the player carries and owns is what a plan can be made of.
TransferTrue == Inventory(slots, MainSlots + 1) /\ data.counts \in [Codes -> Nat]
TransferInv == CollectionInv /\ TransferTrue

\* What TransfersExact says of a step.
TransferDone ==
    Transferring =>
        IF data' = data
        THEN /\ slots' = slots
             /\ connection.up /\ Feasible(Command) =>
                    Last(toClient').reply.error \notin {"INSUFFICIENT_CARDS", "INVENTORY_FULL"}
        ELSE /\ \A code \in Codes :
                    /\ Carried(slots, code) - Carried(slots', code) = Due(Command, code)
                    /\ data'.counts[code] - data.counts[code] = Due(Command, code)
             /\ \A i \in DOMAIN slots :
                    \/ slots'[i] = slots[i]
                    \/ /\ slots[i].code # Foreign /\ slots'[i].count <= MAX_STACK
                       /\ Command.op = "WITHDRAW" => i <= MainSlots

\* A request that was added, or none, is none that was answered.
LEMMA NothingAnswered ==
    ASSUME IsQueue(toServer), UNCHANGED toServer \/ \E e : toServer' = Append(toServer, e)
    PROVE  ~Transferring
<1> SUFFICES ASSUME toServer # <<>>, toServer' = Tail(toServer) PROVE FALSE
  BY DEF Transferring
<1>1. PICK n : n = Len(toServer)
  OBVIOUS
<1>2. n \in Nat /\ n > 0 /\ Len(Tail(toServer)) = n - 1
  BY <1>1 DEF IsQueue
<1>3. Len(toServer') \in {n, n + 1}
  BY <1>1, Enqueued
<1> QED
  BY <1>2, <1>3

LEMMA LastIs ==
    ASSUME NEW s, IsQueue(s), NEW e
    PROVE  Last(Append(s, e)) = e
<1>1. Len(s) \in Nat /\ Len(Append(s, e)) = Len(s) + 1 /\ Append(s, e)[Len(s) + 1] = e
  BY Enqueued, AppendIs
<1> QED
  BY <1>1 DEF Last

\* A request that is refused, for something else than the cards or for want of them.
LEMMA RefusedDone ==
    ASSUME TransferInv, NEW error, Refuse(Rejected(error, data.revision)),
           error \in {"INSUFFICIENT_CARDS", "INVENTORY_FULL"} => ~Feasible(Command)
    PROVE  TransferTrue' /\ TransferDone
<1>1. UNCHANGED <<data, slots>>
  BY DEF Refuse, serverVars
<1>2. PICK reply : reply = Rejected(error, data.revision)
  OBVIOUS
<1>3. reply.error = error
  BY <1>2 DEF Rejected
<1>4. ASSUME connection.up PROVE Last(toClient').reply = reply
  <2>1. PICK e : e = [connection |-> connection.generation, id |-> Pending.id, reply |-> reply]
    OBVIOUS
  <2>2. toClient' = Append(toClient, e) /\ e.reply = reply
    BY <1>2, <1>4, <2>1 DEF Refuse, Answer
  <2>3. IsQueue(toClient)
    BY DEF TransferInv, CollectionInv, PacketsTrue
  <2> QED
    BY <2>2, <2>3, LastIs
<1> QED
  BY <1>1, <1>3, <1>4 DEF TransferInv, TransferTrue, TransferDone

LEMMA PlanIsFor ==
    ASSUME NEW command, command.op \in Transfers
    PROVE  /\ FeasibleFor(slots, data.counts, command.op, command.code, command.amount) <=> Feasible(command)
           /\ \A code : DueOf(slots, command.op, command.code, command.amount, code) = Due(command, code)
<1>1. FeasibleFor(slots, data.counts, command.op, command.code, command.amount) <=> Feasible(command)
  BY DEF FeasibleFor, Feasible, Transfers
<1>2. ASSUME NEW code
      PROVE  DueOf(slots, command.op, command.code, command.amount, code) = Due(command, code)
  BY DEF DueOf, Due, Transfers
<1> QED
  BY <1>1, <1>2

LEMMA TransferServed ==
    ASSUME TransferInv, NEW verdict, ServeTransfer(verdict)
    PROVE  TransferTrue' /\ TransferDone
<1> DEFINE outcome == IF Command.expected # data.revision THEN Stale ELSE Transferred(Command, verdict)
<1>1. toServer # <<>> /\ Command.op \in Transfers /\ Sound(Command)
  BY CommandSound DEF ServeTransfer, Asked, TransferInv, CollectionInv
<1>2. IF IsRejected(outcome) THEN Refuse(outcome) /\ UNCHANGED disturbed
      ELSE slots' = outcome.plan.slots /\ Persist(outcome.data)
  BY DEF ServeTransfer
<1>3. PICK plan : plan = Plan(slots, data.counts, Command.op, Command.code, Command.amount)
  OBVIOUS
<1>4. PICK m : m = MainSlots + 1
  OBVIOUS
<1>5. /\ m \in Nat /\ MainSlots <= m /\ Inventory(slots, m) /\ data.counts \in [Codes -> Nat]
      /\ Command.amount \in Nat /\ (Command.op # "DEPOSIT_ALL" => Command.code \in Codes)
  BY <1>1, <1>4, SlotAssumption DEF TransferInv, TransferTrue, Sound
<1>6. \/ Exact(plan, slots, m, data.counts, Command.op, Command.code, Command.amount)
      \/ Fails(plan, {"INVALID"})
      \/ /\ Fails(plan, {"INSUFFICIENT_CARDS", "INVENTORY_FULL"})
         /\ ~FeasibleFor(slots, data.counts, Command.op, Command.code, Command.amount)
  BY <1>1, <1>3, <1>5, PlanExact
<1>7. \/ outcome = Rejected("STALE", data.revision)
      \/ outcome = Rejected("DATA_UNAVAILABLE", data.revision)
      \/ plan.error # "NONE" /\ outcome = Rejected(plan.error, data.revision)
      \/ /\ plan.error = "NONE" /\ ~IsRejected(outcome)
         /\ outcome.plan = plan /\ outcome.data.counts = plan.counts
         /\ outcome.data.revision = data.revision + 1
  BY <1>3 DEF Stale, Transferred, Unavailable, Revised, IsRejected
<1> HIDE DEF outcome
<1>8. CASE \/ outcome = Rejected("STALE", data.revision)
           \/ outcome = Rejected("DATA_UNAVAILABLE", data.revision)
  <2>1. PICK error \in {"STALE", "DATA_UNAVAILABLE"} : outcome = Rejected(error, data.revision)
    BY <1>8
  <2>2. Refuse(Rejected(error, data.revision))
    BY <1>2, <2>1, RejectedIs
  <2> QED
    BY <2>1, <2>2, RefusedDone
<1>9. CASE plan.error # "NONE" /\ outcome = Rejected(plan.error, data.revision)
  <2>1. Refuse(Rejected(plan.error, data.revision))
    BY <1>2, <1>9, RejectedIs
  <2>2. plan.error \in {"INSUFFICIENT_CARDS", "INVENTORY_FULL"} => ~Feasible(Command)
    BY <1>1, <1>6, <1>9, PlanIsFor DEF Fails, Exact
  <2> QED
    BY <2>1, <2>2, RefusedDone
<1>10. CASE /\ plan.error = "NONE" /\ ~IsRejected(outcome)
            /\ outcome.plan = plan /\ outcome.data.counts = plan.counts
            /\ outcome.data.revision = data.revision + 1
  <2>1. slots' = plan.slots /\ data'.counts = plan.counts /\ data'.revision = data.revision + 1
    BY <1>2, <1>10 DEF Persist
  <2>2. Exact(plan, slots, m, data.counts, Command.op, Command.code, Command.amount)
    BY <1>6, <1>10 DEF Fails
  <2>3. data' # data
    <3>1. data.revision \in Nat
      BY DEF TransferInv, CollectionInv, ServerTrue
    <3> QED
      BY <2>1, <3>1
  <2>4. TransferTrue'
    BY <1>4, <2>1, <2>2 DEF Exact, TransferTrue
  <2>5. DOMAIN slots = 1..m
    BY <1>5 DEF Inventory
  <2>6. \A code \in Codes :
          /\ Carried(slots, code) - Carried(slots', code) = Due(Command, code)
          /\ data'.counts[code] - data.counts[code] = Due(Command, code)
    BY <1>1, <2>1, <2>2, PlanIsFor DEF Exact
  <2>7. \A i \in DOMAIN slots :
          \/ slots'[i] = slots[i]
          \/ /\ slots[i].code # Foreign /\ slots'[i].count <= MAX_STACK
             /\ Command.op = "WITHDRAW" => i <= MainSlots
    BY <2>1, <2>2, <2>5 DEF Exact
  <2> QED
    BY <2>3, <2>4, <2>6, <2>7 DEF TransferDone
<1> QED
  BY <1>7, <1>8, <1>9, <1>10

\* What else the server does answers no transfer, or refuses it as busy, or ends with its
\* connection.
LEMMA TransferQuiet ==
    ASSUME TransferInv, UNCHANGED <<slots, toServer>>, data'.counts = data.counts
    PROVE  TransferTrue' /\ TransferDone
<1>1. ~Transferring
  BY NothingAnswered DEF TransferInv, CollectionInv, PacketsTrue
<1> QED
  BY <1>1 DEF TransferInv, TransferTrue, TransferDone

LEMMA OtherServed ==
    ASSUME TransferInv, Command.op \notin Transfers, UNCHANGED slots, data'.counts = data.counts
    PROVE  TransferTrue' /\ TransferDone
BY DEF TransferInv, TransferTrue, TransferDone, Transferring

LEMMA ServerTransfers ==
    ASSUME TransferInv, ServerStep
    PROVE  TransferTrue' /\ TransferDone
<1>1. CASE RefuseBusy
  <2>1. Refuse(Rejected("BUSY", data.revision))
    BY <1>1 DEF RefuseBusy
  <2> QED
    BY <2>1, RefusedDone
<1>2. ASSUME NEW verdict \in Verdicts, ServeMutation(verdict) PROVE TransferTrue' /\ TransferDone
  <2>1. Command.op \in Mutations /\ Command.op \notin Transfers
    BY <1>2 DEF ServeMutation, Asked, Mutations, Transfers
  <2>2. PICK outcome :
          /\ outcome = IF Command.expected # data.revision THEN Stale ELSE Mutated(Command, verdict)
          /\ IF IsRejected(outcome) THEN Refuse(outcome) ELSE Persist(outcome) /\ UNCHANGED slots
    BY <1>2 DEF ServeMutation
  <2>3. ~IsRejected(outcome) => outcome.counts = data.counts
    <3>1. IsRejected(Stale) /\ IsRejected(Unavailable) /\ \A error : IsRejected(Rejected(error, data.revision))
      BY RejectedIs DEF Stale, Unavailable
    <3>2. \A decks, active : Revised(data.counts, decks, active).counts = data.counts
      BY DEF Revised
    <3> QED
      BY <2>1, <2>2, <3>1, <3>2 DEF Mutated, Deleted, Mutations
  <2>4. UNCHANGED slots /\ data'.counts = data.counts
    BY <2>2, <2>3 DEF Refuse, serverVars, Persist
  <2> QED
    BY <2>1, <2>4, OtherServed
<1>3. ASSUME NEW verdict \in Verdicts, ServeTransfer(verdict) PROVE TransferTrue' /\ TransferDone
  BY <1>3, TransferServed
<1>4. ASSUME NEW verdict \in Verdicts, ServeOpen(verdict) PROVE TransferTrue' /\ TransferDone
  <2>1. Command.op \notin Transfers
    BY <1>4 DEF ServeOpen, Asked, Transfers
  <2>2. UNCHANGED slots /\ data'.counts = data.counts
    BY <1>4 DEF ServeOpen, Refuse, serverVars, Revised
  <2> QED
    BY <2>1, <2>2, OtherServed
<1>5. CASE ServePage
  <2>1. Command.op \notin Transfers
    BY <1>5 DEF ServePage, Asked, Transfers
  <2>2. UNCHANGED <<slots, data>>
    BY <1>5 DEF ServePage, Refuse, serverVars
  <2> QED
    BY <2>1, <2>2, OtherServed
<1>6. CASE ServeRead
  <2>1. Command.op \notin Transfers
    BY <1>6 DEF ServeRead, Asked, Transfers
  <2>2. UNCHANGED <<slots, data>>
    BY <1>6 DEF ServeRead, Refuse, serverVars
  <2> QED
    BY <2>1, <2>2, OtherServed
<1>7. CASE ClearedElsewhere
  <2>1. UNCHANGED <<slots, toServer>> /\ data'.counts = data.counts
    BY <1>7 DEF ClearedElsewhere, Persist, Revised
  <2> QED
    BY <2>1, TransferQuiet
<1>8. CASE IdlePasses
  <2>1. UNCHANGED <<slots, toServer, data>>
    BY <1>8 DEF IdlePasses
  <2> QED
    BY <2>1, TransferQuiet
<1>9. CASE Logout
  <2>1. UNCHANGED <<slots, data>> /\ ~connection.up
    BY <1>9 DEF Logout
  <2> QED
    BY <2>1 DEF TransferInv, TransferTrue, TransferDone
<1>10. ASSUME NEW code \in Codes, NEW count \in Amounts, Grant(code, count)
       PROVE  TransferTrue' /\ TransferDone
  <2>1. PICK plan :
          /\ plan = Plan(slots, [c \in Codes |-> IF c = code THEN count ELSE 0], "WITHDRAW", code, count)
          /\ plan.error = "NONE" /\ slots' = plan.slots
    BY <1>10 DEF Grant
  <2>2. count \in 1..MAX_AMOUNT
    BY <2>1 DEF Plan, Failed
  <2>3. PICK m : m = MainSlots + 1
    OBVIOUS
  <2>4. PICK counts : counts = [c \in Codes |-> IF c = code THEN count ELSE 0]
    OBVIOUS
  <2>5. /\ m \in Nat /\ MainSlots <= m /\ Inventory(slots, m) /\ counts \in [Codes -> Nat]
        /\ count \in Nat
        /\ "WITHDRAW" \in Transfers
    BY <2>2, <2>3, <2>4, SlotAssumption DEF TransferInv, TransferTrue, Transfers
  <2>6. \/ Exact(plan, slots, m, counts, "WITHDRAW", code, count)
        \/ Fails(plan, {"INVALID"})
        \/ Fails(plan, {"INSUFFICIENT_CARDS", "INVENTORY_FULL"})
    BY <2>1, <2>4, <2>5, PlanExact
  <2>7. Inventory(slots', m)
    BY <2>1, <2>6 DEF Exact, Fails
  <2>8. UNCHANGED <<data, toServer>>
    BY <1>10 DEF Grant
  <2>9. ~Transferring
    BY <2>8, NothingAnswered DEF TransferInv, CollectionInv, PacketsTrue
  <2> QED
    BY <2>3, <2>7, <2>8, <2>9 DEF TransferInv, TransferTrue, TransferDone
<1> QED
  BY <1>1, <1>2, <1>3, <1>4, <1>5, <1>6, <1>7, <1>8, <1>9, <1>10 DEF ServerStep, Serve

\* A step of the client sends one request at most.
LEMMA ClientSends ==
    ASSUME CollectionInv,
           Edit \/ Move \/ (\E deck \in Decks : ReadDeck(deck)) \/ WantView \/ Receive
    PROVE  /\ UNCHANGED <<data, slots>>
           /\ UNCHANGED toServer \/ \E e : toServer' = Append(toServer, e)
<1>0. PICK new : new = FreshId
  OBVIOUS
<1>1. new \notin DOMAIN client.pending /\ IsQueue(toServer)
  BY <1>0, FreshIs DEF CollectionInv, PacketsTrue
<1>2. ASSUME NEW d, ClientStep(d), Ready(d, new, held)
      PROVE  UNCHANGED toServer \/ \E e : toServer' = Append(toServer, e)
  BY <1>1, <1>2, StepSends DEF Ready
<1>3. CASE Edit \/ Move \/ (\E deck \in Decks : ReadDeck(deck))
  <2>1. PICK command : Request(command) /\ Sound(command)
    BY <1>3, CommandsAre
  <2>2. ClientStep(Ask(client, new, command)) /\ UNCHANGED <<data, slots>>
    BY <1>0, <2>1 DEF Request, serverVars
  <2>3. Ready(Ask(client, new, command), new, held)
    BY <1>1, <2>1, AskReady
  <2> QED
    BY <1>2, <2>2, <2>3
<1>4. CASE WantView
  <2>1. ClientStep(Refresh(client, new)) /\ UNCHANGED <<data, slots>>
    BY <1>0, <1>4 DEF WantView, serverVars
  <2>2. Ready(Refresh(client, new), new, held)
    BY <1>1, WantReady
  <2> QED
    BY <1>2, <2>1, <2>2
<1>5. CASE Receive
  <2>1. PICK packet : packet = Head(toClient)
    OBVIOUS
  <2>2. /\ toClient # <<>> /\ UNCHANGED <<serverVars, netVars>>
        /\ IF /\ connection.up /\ packet.connection = connection.generation
              /\ packet.id \in DOMAIN client.pending
           THEN Complete(packet.id, packet.reply)
           ELSE UNCHANGED <<client, toServer, disturbed, handed>>
    BY <1>5, <2>1 DEF Receive
  <2>3. UNCHANGED <<data, slots>>
    BY <2>2 DEF serverVars
  <2>4. CASE /\ connection.up /\ packet.connection = connection.generation
             /\ packet.id \in DOMAIN client.pending
    <3>1. packet \in Range(toClient)
      BY <2>1, <2>2, Dequeued DEF CollectionInv, PacketsTrue
    <3>2. Tells(packet.reply, held)
      BY <2>4, <3>1 DEF CollectionInv, PacketsTrue, PacketTrue
    <3>3. Complete(packet.id, packet.reply)
      BY <2>2, <2>4
    <3>4. PICK d : ClientStep(d) /\ Ready(d, new, held)
      BY <1>0, <2>2, <2>4, <3>2, <3>3, CompleteSteps
    <3> QED
      BY <1>2, <2>3, <3>4
  <2> QED
    BY <2>2, <2>3, <2>4
<1> QED
  BY <1>3, <1>4, <1>5

LEMMA NextTransfers == ASSUME TransferInv, [Next]_vars PROVE TransferTrue' /\ TransferDone
<1>1. CASE ServerStep
  BY <1>1, ServerTransfers
<1>2. CASE Edit \/ Move \/ (\E deck \in Decks : ReadDeck(deck)) \/ WantView \/ Receive
  <2>1. UNCHANGED <<data, slots>> /\ (UNCHANGED toServer \/ \E e : toServer' = Append(toServer, e))
    BY <1>2, ClientSends DEF TransferInv
  <2>2. ~Transferring
    BY <2>1, NothingAnswered DEF TransferInv, CollectionInv, PacketsTrue
  <2> QED
    BY <2>1, <2>2 DEF TransferInv, TransferTrue, TransferDone
<1>3. CASE \/ \E id \in DOMAIN client.pending : Timeout(id)
           \/ Disconnect
           \/ UNCHANGED vars
  <2>1. UNCHANGED <<data, slots, toServer>>
    BY <1>3 DEF Timeout, Disconnect, vars, serverVars
  <2> QED
    BY <2>1, TransferQuiet
<1>4. ASSUME NEW world \in Worlds \cup {[data |-> data, slots |-> slots]}, Connect(world)
      PROVE  TransferTrue' /\ TransferDone
  <2>1. data' = world.data /\ slots' = world.slots /\ UNCHANGED toServer
    BY <1>4 DEF Connect
  <2>2. Inventory(world.slots, MainSlots + 1) /\ world.data.counts \in [Codes -> Nat]
    BY WorldAssumption DEF TransferInv, TransferTrue, Inventory
  <2>3. ~Transferring
    BY <2>1, NothingAnswered DEF TransferInv, CollectionInv, PacketsTrue
  <2> QED
    BY <2>1, <2>2, <2>3 DEF TransferTrue, TransferDone
<1> QED
  BY <1>1, <1>2, <1>3, <1>4 DEF Next

\* A transfer moves every copy it should from one side to the other, within the stack limit and
\* past the offhand and foreign stacks, or nothing at all; and it is refused for the cards only
\* if they, or the room for them, are not there (InventoryTransferPlan.plan,
\* CardTransferService.transfer).
THEOREM TransfersAreExact == Spec => TransfersExact
<1>1. Init => TransferInv
  <2> SUFFICES ASSUME Init PROVE TransferInv
    OBVIOUS
  <2>1. PICK world \in Worlds : data = world.data /\ slots = world.slots
    BY DEF Init
  <2>2. TransferTrue
    BY <2>1, WorldAssumption DEF TransferTrue, Inventory
  <2> QED
    BY <2>2, InitTrue DEF TransferInv
<1>2. TransferInv /\ [Next]_vars => TransferInv'
  BY NextKeepsCollection, NextTransfers DEF TransferInv
<1>3. TransferInv /\ [Next]_vars => [TransferDone]_vars
  BY NextTransfers
<1>4. Spec => [][TransferDone]_vars
  BY <1>1, <1>2, <1>3, PTL DEF Spec
<1> QED
  BY <1>4 DEF TransfersExact, TransferDone

-----------------------------------------------------------------------------
(* The identities of requests *)

Names(q) == {q[i].id : i \in DOMAIN q}
Distinct(q) == \A i, j \in DOMAIN q : q[i].id = q[j].id => i = j

LEMMA TailNames ==
    ASSUME NEW q, IsQueue(q), q # <<>>, Distinct(q)
    PROVE  /\ Distinct(Tail(q)) /\ Head(q).id \in Names(q)
           /\ Names(Tail(q)) \subseteq Names(q) /\ Head(q).id \notin Names(Tail(q))
<1>1. PICK n, t : n = Len(q) /\ t = Tail(q)
  OBVIOUS
<1>2. /\ n \in Nat /\ n > 0 /\ DOMAIN q = 1..n /\ Head(q) = q[1] /\ DOMAIN t = 1..(n - 1)
      /\ \A i \in 1..(n - 1) : i + 1 \in 1..n /\ t[i] = q[i + 1]
  BY <1>1, TailIs
<1>3. 1 \in 1..n
  BY <1>2
<1>4. Distinct(t)
  <2> SUFFICES ASSUME NEW i \in 1..(n - 1), NEW j \in 1..(n - 1), t[i].id = t[j].id PROVE i = j
    BY <1>2 DEF Distinct
  <2>1. i + 1 = j + 1
    BY <1>2 DEF Distinct
  <2> QED
    BY <1>2, <2>1
<1>5. ASSUME NEW i \in 1..(n - 1) PROVE t[i].id \in Names(q) /\ t[i].id # q[1].id
  <2>1. i + 1 \in 1..n /\ t[i] = q[i + 1] /\ i + 1 # 1
    BY <1>2
  <2> QED
    BY <1>2, <1>3, <2>1 DEF Names, Distinct
<1> QED
  BY <1>1, <1>2, <1>3, <1>4, <1>5 DEF Names

LEMMA AppendNames ==
    ASSUME NEW q, IsQueue(q), NEW e
    PROVE  /\ Names(Append(q, e)) = Names(q) \cup {e.id}
           /\ Distinct(q) /\ e.id \notin Names(q) => Distinct(Append(q, e))
<1>1. PICK n, t : n = Len(q) /\ t = Append(q, e)
  OBVIOUS
<1>2. /\ n \in Nat /\ DOMAIN q = 1..n /\ DOMAIN t = 1..(n + 1)
      /\ \A i \in 1..n : i \in 1..(n + 1) /\ t[i] = q[i]
      /\ t[n + 1] = e
  BY <1>1, AppendIs
<1>3. \A i \in 1..(n + 1) : i \in 1..n \/ i = n + 1
  BY <1>2
<1>4. n + 1 \in 1..(n + 1) /\ n + 1 \notin 1..n
  BY <1>2
<1>5. Names(t) = Names(q) \cup {e.id}
  BY <1>2, <1>3, <1>4 DEF Names
<1>6. ASSUME Distinct(q), e.id \notin Names(q) PROVE Distinct(t)
  BY <1>2, <1>3, <1>6 DEF Distinct, Names
<1> QED
  BY <1>1, <1>5, <1>6

LEMMA CutNames ==
    ASSUME NEW q, IsQueue(q), NEW k \in 0..Len(q)
    PROVE  /\ Names(SubSeq(q, 1, k)) \subseteq Names(q)
           /\ Distinct(q) => Distinct(SubSeq(q, 1, k))
<1>1. PICK n, t : n = Len(q) /\ t = SubSeq(q, 1, k)
  OBVIOUS
<1>2. n \in Nat /\ DOMAIN q = 1..n
  BY <1>1 DEF IsQueue
<1>3. k \in Nat /\ \A i \in 1..k : i \in 1..n
  BY <1>1, <1>2
<1>4. t = [i \in 1..k |-> q[i]]
  <2>1. q \in Seq(Range(q)) /\ \A i \in 1..k : 1 + i - 1 = i
    BY <1>3 DEF IsQueue
  <2> QED
    BY <1>1, <1>2, <1>3, <2>1
<1> QED
  BY <1>1, <1>2, <1>3, <1>4 DEF Names, Distinct

\* No request is in two places at once, and those that are somewhere are as many as may be.
NamesTrue ==
    /\ Distinct(toServer) /\ Distinct(toClient) /\ Names(toServer) \cap Names(toClient) = {}
    /\ DOMAIN client.pending \subseteq Ids /\ Cardinality(Named) <= MaxPending

LEMMA NamedIs ==
    ASSUME CollectionInv
    PROVE  /\ Named = DOMAIN client.pending \cup Names(toServer) \cup Names(toClient)
           /\ IsFiniteSet(Named) /\ Cardinality(Named) \in Nat
<1>1. Named = DOMAIN client.pending \cup Names(toServer) \cup Names(toClient)
  BY DEF Named, Names
<1>2. IsFiniteSet(DOMAIN client.pending) /\ IsFiniteSet(Names(toServer))
      /\ IsFiniteSet(Names(toClient))
  BY FiniteIds DEF CollectionInv, ClientTrue, PacketsTrue, Names
<1>3. IsFiniteSet(Named)
  BY <1>1, <1>2, FS_Union
<1> QED
  BY <1>1, <1>3, FS_CardinalityType

\* Steps that name nothing new.
LEMMA NoMoreNamed ==
    ASSUME CollectionInv, NamesTrue, Named' \subseteq Named
    PROVE  Cardinality(Named') <= MaxPending
<1>1. IsFiniteSet(Named) /\ Cardinality(Named) \in Nat /\ Cardinality(Named) <= MaxPending
  BY NamedIs DEF NamesTrue
<1>2. PICK S, T : S = Named /\ T = Named'
  OBVIOUS
<1>3. T \in SUBSET S /\ IsFiniteSet(S)
  BY <1>1, <1>2
<1>4. IsFiniteSet(T) /\ Cardinality(T) <= Cardinality(S)
  BY <1>3, FS_Subset
<1>5. Cardinality(T) \in Nat
  BY <1>4, FS_CardinalityType
<1>6. Cardinality(T) <= MaxPending
  BY <1>1, <1>2, <1>4, <1>5, ClientBounds
<1> QED
  BY <1>2, <1>6

\* Steps that name one request more, for one less or if there is room for it.
LEMMA OneMoreNamed ==
    ASSUME CollectionInv, NamesTrue, NEW old,
           old \in Named \/ Cardinality(Named) < MaxPending,
           Named' \subseteq (Named \ {old}) \cup {FreshId}
    PROVE  Cardinality(Named') <= MaxPending
<1>1. /\ IsFiniteSet(Named) /\ Cardinality(Named) \in Nat /\ Cardinality(Named) <= MaxPending
      /\ MaxPending \in Nat
  BY NamedIs, ClientBounds DEF NamesTrue
<1>2. PICK S, T, new : S = Named /\ T = Named' /\ new = FreshId
  OBVIOUS
<1>3. PICK R : R = S \ {old}
  OBVIOUS
<1>4. /\ IsFiniteSet(R) /\ Cardinality(R) \in Nat
      /\ Cardinality(R) <= Cardinality(S) /\ (old \in S => Cardinality(R) = Cardinality(S) - 1)
  <2>1. R \in SUBSET S /\ IsFiniteSet(S)
    BY <1>1, <1>2, <1>3
  <2>2. IsFiniteSet(R) /\ Cardinality(R) <= Cardinality(S)
    BY <2>1, FS_Subset
  <2>3. old \in S => Cardinality(R) = Cardinality(S) - 1
    BY <1>3, <2>1, FS_RemoveElement
  <2> QED
    BY <2>2, <2>3, FS_CardinalityType
<1>5. Cardinality(R) + 1 <= MaxPending
  BY <1>1, <1>2, <1>4
<1>6. /\ IsFiniteSet(R \cup {new}) /\ Cardinality(R \cup {new}) \in Nat
      /\ Cardinality(R \cup {new}) <= Cardinality(R) + 1
  <2>1. IsFiniteSet(R \cup {new})
    BY <1>4, FS_AddElement
  <2>2. Cardinality(R \cup {new}) = IF new \in R THEN Cardinality(R) ELSE Cardinality(R) + 1
    BY <1>4, FS_AddElement
  <2>3. Cardinality(R \cup {new}) \in Nat
    BY <2>1, FS_CardinalityType
  <2> QED
    BY <1>4, <2>1, <2>2, <2>3
<1>7. T \in SUBSET (R \cup {new})
  BY <1>2, <1>3
<1>8. IsFiniteSet(T) /\ Cardinality(T) <= Cardinality(R \cup {new})
  BY <1>6, <1>7, FS_Subset
<1>9. Cardinality(T) \in Nat
  BY <1>8, FS_CardinalityType
<1>10. Cardinality(T) <= MaxPending
  BY <1>1, <1>5, <1>6, <1>8, <1>9, <1>4
<1> QED
  BY <1>2, <1>10

LEMMA FreshBounded ==
    ASSUME CollectionInv, NamesTrue
    PROVE  FreshId \in Ids /\ FreshId \notin Named
<1>1. IsFiniteSet(Named) /\ Cardinality(Named) \in Nat /\ Cardinality(Named) <= MaxPending
  BY NamedIs DEF NamesTrue
<1>2. \E id \in 1..(Cardinality(Named) + 1) : id \notin Named
  BY <1>1, FreeId
<1>3. FreshId \in 1..(Cardinality(Named) + 1) /\ FreshId \notin Named
  BY <1>2 DEF FreshId
<1> QED
  BY <1>1, <1>3, ClientBounds DEF Ids

\* A client that names a request less names nothing new.
LEMMA FewerNames ==
    ASSUME CollectionInv, NamesTrue, DOMAIN client'.pending \subseteq DOMAIN client.pending,
           Names(toServer') \subseteq Names(toServer),
           Names(toClient') \subseteq Names(toServer) \cup Names(toClient),
           Distinct(toServer'), Distinct(toClient'), Names(toServer') \cap Names(toClient') = {}
    PROVE  NamesTrue'
<1>1. Named = DOMAIN client.pending \cup Names(toServer) \cup Names(toClient)
  BY NamedIs
<1>2. Named' = DOMAIN client'.pending \cup Names(toServer') \cup Names(toClient')
  BY DEF Named, Names
<1>3. Named' \subseteq Named
  BY <1>1, <1>2
<1>4. Cardinality(Named') <= MaxPending
  BY <1>3, NoMoreNamed
<1>5. Cardinality(Named)' <= MaxPending
  BY <1>4
<1> QED
  BY <1>5 DEF NamesTrue, Ids

\* An answer takes the place of its request.
LEMMA AnswerNames ==
    ASSUME CollectionInv, NamesTrue, toServer # <<>>, NEW reply, Answer(reply), UNCHANGED client
    PROVE  NamesTrue'
<1>1. PICK e : e = [connection |-> connection.generation, id |-> Pending.id, reply |-> reply]
  OBVIOUS
<1>2. e.id = Head(toServer).id
  BY <1>1 DEF Pending
<1>3. toServer' = Tail(toServer) /\ toClient' \in {toClient, Append(toClient, e)}
  BY <1>1 DEF Answer
<1>4. IsQueue(toServer) /\ IsQueue(toClient)
  BY DEF CollectionInv, PacketsTrue
<1>5. /\ Distinct(toServer') /\ Names(toServer') \subseteq Names(toServer)
      /\ e.id \in Names(toServer) /\ e.id \notin Names(toServer')
  BY <1>2, <1>3, <1>4, TailNames DEF NamesTrue
<1>6. /\ Distinct(toClient') /\ Names(toClient') \subseteq Names(toClient) \cup {e.id}
  <2>1. /\ Names(Append(toClient, e)) = Names(toClient) \cup {e.id}
        /\ Distinct(toClient) /\ e.id \notin Names(toClient) => Distinct(Append(toClient, e))
    BY <1>4, AppendNames
  <2> QED
    BY <1>3, <1>5, <2>1 DEF NamesTrue
<1>7. Names(toServer') \cap Names(toClient') = {}
  BY <1>5, <1>6 DEF NamesTrue
<1> QED
  BY <1>5, <1>6, <1>7, FewerNames

LEMMA ServerAnswers ==
    ASSUME Serve
    PROVE  /\ \E reply : Answer(reply)
           /\ toServer # <<>>
<1> DEFINE A == (\E reply : Answer(reply)) /\ toServer # <<>>
<1>1. CASE RefuseBusy
  BY <1>1 DEF RefuseBusy, Refuse
<1>2. ASSUME NEW verdict \in Verdicts, ServeMutation(verdict) PROVE A
  <2>1. PICK outcome :
          outcome = IF Command.expected # data.revision THEN Stale ELSE Mutated(Command, verdict)
    OBVIOUS
  <2>2. IF IsRejected(outcome) THEN Refuse(outcome)
        ELSE Answer(Changed(outcome, IF Command.op = "save" THEN Command.content ELSE "none", 0))
    BY <1>2, <2>1 DEF ServeMutation
  <2> QED
    BY <1>2, <2>2 DEF ServeMutation, Asked, Refuse
<1>3. ASSUME NEW verdict \in Verdicts, ServeTransfer(verdict) PROVE A
  <2>1. PICK outcome :
          outcome = IF Command.expected # data.revision THEN Stale ELSE Transferred(Command, verdict)
    OBVIOUS
  <2>2. IF IsRejected(outcome) THEN Refuse(outcome)
        ELSE Answer(Changed(outcome.data, "none", outcome.plan.moved))
    BY <1>3, <2>1 DEF ServeTransfer
  <2> QED
    BY <1>3, <2>2 DEF ServeTransfer, Asked, Refuse
<1>4. ASSUME NEW verdict \in Verdicts, ServeOpen(verdict) PROVE A
  <2>1. CASE data.active # NoDeck /\ verdict = "fails"
    BY <1>4, <2>1 DEF ServeOpen, Asked, Refuse
  <2>2. CASE ~(data.active # NoDeck /\ verdict = "fails")
    BY <1>4, <2>2 DEF ServeOpen, Asked
  <2> QED
    BY <2>1, <2>2
<1>5. CASE ServePage
  <2>1. PICK page : Refuse(page) \/ Answer(Stale)
    BY <1>5 DEF ServePage
  <2> QED
    BY <1>5, <2>1 DEF ServePage, Asked, Refuse
<1>6. CASE ServeRead
  <2>1. PICK reply : Refuse(reply)
    BY <1>6 DEF ServeRead
  <2> QED
    BY <1>6, <2>1 DEF ServeRead, Asked, Refuse
<1> HIDE DEF A
<1>7. A
  BY <1>1, <1>2, <1>3, <1>4, <1>5, <1>6 DEF Serve, A
<1> QED
  BY <1>7 DEF A

LEMMA ServerNames ==
    ASSUME CollectionInv, NamesTrue, ServerStep
    PROVE  NamesTrue' /\ UNCHANGED client
<1>0. UNCHANGED client
  BY DEF ServerStep
<1>1. CASE Serve
  BY <1>0, <1>1, ServerAnswers, AnswerNames
<1>2. CASE UNCHANGED <<toServer, toClient>>
  BY <1>0, <1>2, FewerNames DEF NamesTrue
<1>3. CASE Logout
  <2>1. toServer' = <<>> /\ UNCHANGED toClient
    BY <1>3 DEF Logout
  <2>2. Names(<<>>) = {} /\ Distinct(<<>>)
    BY DEF Names, Distinct
  <2> QED
    BY <1>0, <2>1, <2>2, FewerNames DEF NamesTrue
<1>4. ServerStep => Serve \/ UNCHANGED <<toServer, toClient>> \/ Logout
  BY DEF ServerStep, ClearedElsewhere, IdlePasses, Grant
<1> QED
  BY <1>0, <1>1, <1>2, <1>3, <1>4

\* The client goes on with a request that was not named before, and without `old`.
LEMMA StepNames ==
    ASSUME CollectionInv, NamesTrue, NEW d, ClientStep(d), NEW old,
           DOMAIN d.pending \subseteq (DOMAIN client.pending \ {old}) \cup {FreshId},
           Distinct(toClient'), Names(toClient') \subseteq Names(toClient),
           \/ old \in Named /\ old \notin Names(toServer) \cup Names(toClient')
           \/ Cardinality(Named) < MaxPending
    PROVE  NamesTrue'
<1>1. PICK new : new = FreshId
  OBVIOUS
<1>2. new \in Ids /\ new \notin Named /\ IsQueue(toServer)
  BY <1>1, FreshBounded DEF CollectionInv, PacketsTrue
<1>3. Named = DOMAIN client.pending \cup Names(toServer) \cup Names(toClient)
  BY NamedIs
<1>4. PICK e : e = [id |-> new, command |-> d.pending[new]]
  OBVIOUS
<1>5. /\ client' = d
      /\ IF new \in DOMAIN d.pending \ DOMAIN client.pending THEN toServer' = Append(toServer, e)
         ELSE UNCHANGED toServer
  BY <1>1, <1>2, <1>4, StepSends
<1>6. /\ Distinct(toServer') /\ Names(toServer') \subseteq Names(toServer) \cup {new}
  <2>1. /\ Names(Append(toServer, e)) = Names(toServer) \cup {e.id}
        /\ Distinct(toServer) /\ e.id \notin Names(toServer) => Distinct(Append(toServer, e))
    BY <1>2, AppendNames
  <2>2. e.id = new
    BY <1>4
  <2> QED
    BY <1>2, <1>3, <1>5, <2>1, <2>2 DEF NamesTrue
<1>7. Names(toServer') \cap Names(toClient') = {}
  BY <1>2, <1>3, <1>6 DEF NamesTrue
<1>8. DOMAIN client'.pending \subseteq Ids
  BY <1>1, <1>2, <1>5 DEF NamesTrue
<1>9. Named' = DOMAIN client'.pending \cup Names(toServer') \cup Names(toClient')
  BY DEF Named, Names
<1>10. Cardinality(Named') <= MaxPending
  <2>1. CASE old \in Named /\ old \notin Names(toServer) \cup Names(toClient')
    <3>1. Named' \subseteq (Named \ {old}) \cup {FreshId}
      BY <1>1, <1>3, <1>5, <1>6, <1>9, <2>1
    <3> QED
      BY <2>1, <3>1, OneMoreNamed
  <2>2. CASE Cardinality(Named) < MaxPending
    <3>1. PICK none : none \notin Named
      BY <1>2
    <3>2. Named' \subseteq (Named \ {none}) \cup {FreshId}
      BY <1>1, <1>3, <1>5, <1>6, <1>9, <3>1
    <3> QED
      BY <2>2, <3>2, OneMoreNamed
  <2> QED
    BY <2>1, <2>2
<1>11. Cardinality(Named)' <= MaxPending
  BY <1>10
<1> QED
  BY <1>6, <1>7, <1>8, <1>11 DEF NamesTrue, Ids

-----------------------------------------------------------------------------
(* The types of the client *)

\* What a reply makes of the client without the request it answers.
Follows(d, c, id) == d.refreshingRevision \in Nat /\ DOMAIN d.pending \subseteq DOMAIN c.pending \cup {id}

LEMMA PullPageFollows ==
    ASSUME NEW c, Shaped(c), NEW id, NEW h, AssemblyTrue(c.assembly, h),
           c.refreshingRevision \in Nat
    PROVE  Follows(PullPage(c, id), c, id)
<1>1. PICK page : page = NextPage(c.assembly)
  OBVIOUS
<1>2. PICK d : d = PullPage(c, id)
  OBVIOUS
<1>3. /\ d.refreshingRevision = c.refreshingRevision
      /\ IF page = NoPage THEN d.awaited = NoId /\ d.pending = c.pending
         ELSE d.awaited = id /\ d.pending = Put(c.pending, id, page)
  BY <1>1, <1>2, PullPageIs
<1>4. DOMAIN Put(c.pending, id, page) = DOMAIN c.pending \cup {id}
  BY PutIs
<1> QED
  BY <1>2, <1>3, <1>4 DEF Follows

LEMMA PulledFollow ==
    ASSUME CollectionInv, NEW c, Shaped(c), c.assembly = client.assembly, c.view = client.view,
           c.refreshingRevision \in Nat, NEW id,
           NEW command, NEW reply, Tells(reply, held), Matches(command, reply),
           command = IF client.assembly.opened = NoHeader THEN Open ELSE NextPage(client.assembly)
    PROVE  Follows(Pulled(c, command, reply, id), c, id)
<1>1. AssemblyTrue(c.assembly, held) /\ Shown(c.view, held) /\ Kept(held)
  BY DEF CollectionInv, ClientTrue, ServerTrue
<1>2. Follows(FinishFailed(c), c, id)
  BY FinishIs DEF Follows
<1>3. CASE reply.op # "rejected" /\ command = Open
  <2>1. reply.op = "opened"
    BY <1>3, OpenIs DEF Matches, Mutations, Transfers
  <2>2. PICK b : b = [c EXCEPT !.refreshingRevision = reply.revision]
    OBVIOUS
  <2>3. /\ Shaped(b) /\ b.view = c.view /\ b.pending = c.pending
        /\ b.refreshingRevision = reply.revision
    BY <2>2 DEF Shaped, Fields
  <2>4. reply.revision \in Nat
    BY <2>1 DEF Tells, CollectionInv, ServerTrue
  <2>5. PICK e : e = Begin(b, reply)
    OBVIOUS
  <2>6. Pulled(c, command, reply, id) \in {FinishFailed(c), PullPage(e, id)}
    BY <1>3, <2>2, <2>5 DEF Pulled
  <2>7. /\ Shaped(e) /\ AssemblyTrue(e.assembly, held) /\ e.pending = b.pending
        /\ e.refreshingRevision = b.refreshingRevision
    <3> DEFINE D(d) ==
                 /\ Shaped(d) /\ AssemblyTrue(d.assembly, held) /\ Shown(d.view, held)
                 /\ d.pending = b.pending /\ d.awaited = b.awaited
                 /\ d.requiredRevision = b.requiredRevision
                 /\ d.refreshingRevision = b.refreshingRevision
                 /\ IF d.assembly = NoAssembly THEN d.view.revision = reply.revision
                    ELSE d.assembly = [NoAssembly EXCEPT !.opened = reply]
    <3>1. Kept(held) /\ Shaped(b) /\ Shown(b.view, held) /\ reply.op = "opened"
          /\ Tells(reply, held)
      BY <1>1, <2>1, <2>3
    <3>2. D(Begin(b, reply))
      BY ONLY <3>1, BeginIs
    <3> QED
      BY <2>5, <3>2
  <2>8. Follows(PullPage(e, id), e, id)
    BY <2>3, <2>4, <2>7, PullPageFollows
  <2> QED
    BY <1>2, <2>3, <2>6, <2>7, <2>8 DEF Follows
<1>4. CASE reply.op # "rejected" /\ command # Open
  <2>1. PICK e : e = Accept(c, reply)
    OBVIOUS
  <2>2. \/ Pulled(c, command, reply, id) = FinishFailed(c)
        \/ Accepts(c.assembly, reply) /\ Pulled(c, command, reply, id) = PullPage(e, id)
    BY <1>4, <2>1 DEF Pulled
  <2>3. CASE Accepts(c.assembly, reply) /\ Pulled(c, command, reply, id) = PullPage(e, id)
    <3>1. c.assembly.opened # NoHeader /\ Assembled(c.assembly, held)
      BY <1>1, <1>4 DEF AssemblyTrue
    <3>2. /\ Shaped(e) /\ AssemblyTrue(e.assembly, held) /\ e.pending = c.pending
          /\ e.refreshingRevision = c.refreshingRevision
      BY <1>1, <2>1, <2>3, <3>1, AcceptIs
    <3>3. Follows(PullPage(e, id), e, id)
      BY <3>2, PullPageFollows
    <3> QED
      BY <2>3, <3>2, <3>3 DEF Follows
  <2> QED
    BY <1>2, <2>2, <2>3
<1>5. CASE reply.op = "rejected"
  <2>1. Pulled(c, command, reply, id) = FinishFailed(c)
    BY <1>5 DEF Pulled
  <2> QED
    BY <1>2, <2>1
<1> QED
  BY <1>3, <1>4, <1>5

LEMMA RefreshFollows ==
    ASSUME NEW c, Shaped(c), NEW id, NEW h, AssemblyTrue(c.assembly, h), Awaits(c),
           id \notin DOMAIN c.pending, c.requiredRevision \in Nat, c.refreshingRevision \in Nat
    PROVE  Follows(Refresh(c, id), c, id)
<1>1. PICK d : d = Refresh(c, id)
  OBVIOUS
<1>2. \/ d = c
      \/ d.refreshingRevision = c.requiredRevision /\ d.pending = Put(c.pending, id, Open)
  BY <1>1, RefreshIs
<1>3. DOMAIN Put(c.pending, id, Open) = DOMAIN c.pending \cup {id}
  BY PutIs
<1> QED
  BY <1>1, <1>2, <1>3 DEF Follows

LEMMA CompleteFollows ==
    ASSUME RefreshInv, client.refreshingRevision \in Nat,
           NEW packet \in Range(toClient), packet.connection = connection.generation,
           packet.id \in DOMAIN client.pending, Complete(packet.id, packet.reply)
    PROVE  \E d : ClientStep(d) /\ Follows(d, Forget(packet.id), FreshId)
<1>0. PICK id, reply, new : id = packet.id /\ reply = packet.reply /\ new = FreshId
  OBVIOUS
<1>1. CollectionInv /\ Shaped(client) /\ Awaits(client)
  BY DEF RefreshInv, CollectionInv, ClientTrue
<1>2. id \in DOMAIN client.pending /\ Complete(id, reply) /\ new \notin DOMAIN client.pending
  BY <1>0, <1>1, FreshIs
<1>3. Tells(reply, held)
  BY <1>0, <1>1 DEF CollectionInv, PacketsTrue, PacketTrue
<1>4. PICK f, c, command : f = Forget(id) /\ c = Learn(f, reply) /\ command = client.pending[id]
  OBVIOUS
<1>5. PICK reads \in BOOLEAN : reads = (command.op = "read" /\ reply.op = "deck")
  OBVIOUS
<1>6. /\ Shaped(f) /\ f.pending = Restrict(client.pending, DOMAIN client.pending \ {id})
      /\ f.awaited = client.awaited /\ f.view = client.view /\ f.assembly = client.assembly
      /\ f.requiredRevision = client.requiredRevision
      /\ f.refreshingRevision = client.refreshingRevision
  BY <1>1, <1>4, ForgetIs
<1>7. /\ Shaped(c) /\ c.pending = f.pending /\ c.awaited = f.awaited /\ c.view = f.view
      /\ c.assembly = f.assembly /\ c.refreshingRevision = f.refreshingRevision
  BY <1>4, <1>6, LearnIs
<1>8. c.requiredRevision \in Nat
  BY <1>0, <1>4, <1>6, LearnsKnown
<1>9. ClientStep(FinishFailed(f)) \/ ClientStep(f) \/ ClientStep(c)
      \/ (id # client.awaited /\ ClientStep(Refresh(c, new)))
      \/ (id = client.awaited /\ Matches(command, reply) /\ ClientStep(Pulled(c, command, reply, new)))
  BY <1>0, <1>2, <1>4, <1>5 DEF Complete
<1>10. Follows(FinishFailed(f), f, new) /\ Follows(f, f, new) /\ Follows(c, f, new)
  BY <1>6, <1>7, FinishIs DEF Follows
<1>11. ASSUME id # client.awaited PROVE Follows(Refresh(c, new), f, new)
  <2>1. Awaits(c)
    BY <1>0, <1>1, <1>2, <1>6, <1>7, <1>11, OthersReady
  <2>2. AssemblyTrue(c.assembly, held) /\ new \notin DOMAIN c.pending
    BY <1>1, <1>2, <1>6, <1>7 DEF CollectionInv, ClientTrue, Restrict
  <2> QED
    BY <1>6, <1>7, <1>8, <2>1, <2>2, RefreshFollows DEF Follows
<1>12. ASSUME id = client.awaited, Matches(command, reply)
       PROVE  Follows(Pulled(c, command, reply, new), f, new)
  <2>1. client.awaited # NoId
    BY <1>1, <1>2, <1>12 DEF CollectionInv, ClientTrue
  <2>2. command = IF client.assembly.opened = NoHeader THEN Open ELSE NextPage(client.assembly)
    BY <1>1, <1>4, <1>12, <2>1 DEF Awaits
  <2> QED
    BY <1>1, <1>3, <1>6, <1>7, <1>12, <2>2, PulledFollow DEF Follows
<1> QED
  BY <1>0, <1>4, <1>9, <1>10, <1>11, <1>12

\* The flags, and what the bound on the changes counts.
FlagsTrue ==
    /\ online \in BOOLEAN /\ connection.up \in BOOLEAN /\ disturbed \in BOOLEAN
    /\ changes \in 0..MaxChanges

OwnTrue == client.refreshingRevision \in Nat /\ NamesTrue

TypeInv == RefreshInv /\ TransferTrue /\ FlagsTrue /\ OwnTrue

LEMMA RequestOwn ==
    ASSUME TypeInv, NEW command, Request(command)
    PROVE  OwnTrue'
<1>1. PICK new, d : new = FreshId /\ d = Ask(client, new, command)
  OBVIOUS
<1>2. Cardinality(Named) < MaxPending /\ ClientStep(d) /\ UNCHANGED toClient
  BY <1>1 DEF Request
<1>3. CollectionInv /\ Shaped(client) /\ NoId \notin DOMAIN client.pending
  BY DEF TypeInv, RefreshInv, CollectionInv, ClientTrue
<1>4. d.pending = Put(client.pending, new, command)
      /\ d.refreshingRevision = client.refreshingRevision
  BY <1>1, <1>3, AskIs
<1>5. DOMAIN d.pending \subseteq (DOMAIN client.pending \ {NoId}) \cup {FreshId}
  <2>1. DOMAIN Put(client.pending, new, command) = DOMAIN client.pending \cup {new}
    BY PutIs
  <2> QED
    BY <1>1, <1>3, <1>4, <2>1
<1>6. client' = d
  BY <1>2 DEF ClientStep
<1>7. NamesTrue /\ Distinct(toClient') /\ Names(toClient') \subseteq Names(toClient)
  BY <1>2 DEF TypeInv, OwnTrue, NamesTrue
<1>8. NamesTrue'
  BY <1>2, <1>3, <1>5, <1>7, StepNames
<1> QED
  BY <1>4, <1>6, <1>8 DEF TypeInv, OwnTrue

LEMMA WantViewOwn ==
    ASSUME TypeInv, WantView
    PROVE  OwnTrue'
<1>1. PICK new, d : new = FreshId /\ d = Refresh(client, new)
  OBVIOUS
<1>2. Cardinality(Named) < MaxPending /\ ClientStep(d) /\ UNCHANGED toClient
  BY <1>1 DEF WantView
<1>3. /\ CollectionInv /\ Shaped(client) /\ NoId \notin DOMAIN client.pending
      /\ AssemblyTrue(client.assembly, held) /\ Awaits(client)
      /\ client.requiredRevision \in Nat /\ client.refreshingRevision \in Nat
  BY DEF TypeInv, OwnTrue, RefreshInv, RefreshTrue, KnownTrue, CollectionInv, ClientTrue
<1>4. Follows(d, client, new)
  BY <1>1, <1>3, FreshIs, RefreshFollows
<1>5. DOMAIN d.pending \subseteq (DOMAIN client.pending \ {NoId}) \cup {FreshId}
  BY <1>1, <1>3, <1>4 DEF Follows
<1>6. client' = d
  BY <1>2 DEF ClientStep
<1>7. NamesTrue /\ Distinct(toClient') /\ Names(toClient') \subseteq Names(toClient)
  BY <1>2 DEF TypeInv, OwnTrue, NamesTrue
<1>8. NamesTrue'
  BY <1>2, <1>3, <1>5, <1>7, StepNames
<1> QED
  BY <1>4, <1>6, <1>8 DEF Follows, OwnTrue

LEMMA TimeoutOwn ==
    ASSUME TypeInv, NEW id \in DOMAIN client.pending, Timeout(id)
    PROVE  OwnTrue'
<1>1. PICK f : f = Forget(id)
  OBVIOUS
<1>2. client' \in {f, FinishFailed(f)} /\ UNCHANGED <<toServer, toClient>>
  BY <1>1 DEF Timeout
<1>3. CollectionInv /\ Shaped(client) /\ NamesTrue /\ client.refreshingRevision \in Nat
  BY DEF TypeInv, OwnTrue, RefreshInv, CollectionInv, ClientTrue
<1>4. /\ Shaped(f) /\ f.pending = Restrict(client.pending, DOMAIN client.pending \ {id})
      /\ f.refreshingRevision = client.refreshingRevision
  BY <1>1, <1>3, ForgetIs
<1>5. client'.pending = f.pending /\ client'.refreshingRevision = f.refreshingRevision
  BY <1>2, <1>4, FinishIs
<1>6. DOMAIN client'.pending \subseteq DOMAIN client.pending
  BY <1>4, <1>5 DEF Restrict
<1>7. NamesTrue'
  BY <1>2, <1>3, <1>6, FewerNames DEF NamesTrue
<1> QED
  BY <1>3, <1>4, <1>5, <1>7 DEF OwnTrue

LEMMA ReceiveOwn ==
    ASSUME TypeInv, Receive
    PROVE  OwnTrue'
<1>1. PICK packet : packet = Head(toClient)
  OBVIOUS
<1>2. /\ toClient # <<>> /\ toClient' = Tail(toClient)
      /\ IF /\ connection.up /\ packet.connection = connection.generation
            /\ packet.id \in DOMAIN client.pending
         THEN Complete(packet.id, packet.reply)
         ELSE UNCHANGED <<client, toServer, disturbed, handed>>
  BY <1>1 DEF Receive
<1>3. /\ CollectionInv /\ Shaped(client) /\ NamesTrue /\ client.refreshingRevision \in Nat
      /\ IsQueue(toClient)
  BY DEF TypeInv, OwnTrue, RefreshInv, CollectionInv, ClientTrue, PacketsTrue
<1>4. /\ Distinct(toClient') /\ packet.id \in Names(toClient)
      /\ Names(toClient') \subseteq Names(toClient) /\ packet.id \notin Names(toClient')
  BY <1>1, <1>2, <1>3, TailNames DEF NamesTrue
<1>5. CASE /\ connection.up /\ packet.connection = connection.generation
           /\ packet.id \in DOMAIN client.pending
  <2>1. packet \in Range(toClient)
    BY <1>1, <1>2, <1>3, Dequeued
  <2>2. PICK d : ClientStep(d) /\ Follows(d, Forget(packet.id), FreshId)
    BY <1>2, <1>3, <1>5, <2>1, CompleteFollows DEF TypeInv
  <2>3. Forget(packet.id).pending = Restrict(client.pending, DOMAIN client.pending \ {packet.id})
    BY <1>3, ForgetIs
  <2>4. DOMAIN d.pending \subseteq (DOMAIN client.pending \ {packet.id}) \cup {FreshId}
    BY <2>2, <2>3 DEF Follows, Restrict
  <2>5. packet.id \in Named /\ packet.id \notin Names(toServer) \cup Names(toClient')
    BY <1>3, <1>4, <1>5, NamedIs DEF NamesTrue
  <2>6. NamesTrue'
    BY <1>3, <1>4, <2>2, <2>4, <2>5, StepNames
  <2> QED
    BY <2>2, <2>6 DEF Follows, ClientStep, OwnTrue
<1>6. CASE UNCHANGED <<client, toServer, disturbed, handed>>
  <2>1. NamesTrue'
    BY <1>3, <1>4, <1>6, FewerNames DEF NamesTrue
  <2> QED
    BY <1>3, <1>6, <2>1 DEF OwnTrue
<1> QED
  BY <1>2, <1>5, <1>6

LEMMA ResetOwn ==
    ASSUME TypeInv, client' = Reset(client), UNCHANGED toServer,
           Distinct(toClient'), Names(toClient') \subseteq Names(toClient)
    PROVE  OwnTrue'
<1>1. CollectionInv /\ Shaped(client) /\ NamesTrue
  BY DEF TypeInv, OwnTrue, RefreshInv, CollectionInv, ClientTrue
<1>2. client'.pending = Empty /\ client'.refreshingRevision = 0
  BY <1>1 DEF Reset, Shaped, Fields
<1>3. DOMAIN client'.pending = {}
  BY <1>2 DEF Empty
<1>4. NamesTrue'
  BY <1>1, <1>3, FewerNames DEF NamesTrue
<1> QED
  BY <1>2, <1>4 DEF OwnTrue

LEMMA NextOwn == ASSUME TypeInv, [Next]_vars PROVE OwnTrue'
<1>1. CollectionInv /\ NamesTrue /\ client.refreshingRevision \in Nat /\ IsQueue(toClient)
  BY DEF TypeInv, OwnTrue, RefreshInv, CollectionInv, PacketsTrue
<1>2. CASE ServerStep
  BY <1>1, <1>2, ServerNames DEF OwnTrue
<1>3. CASE Edit \/ Move \/ \E deck \in Decks : ReadDeck(deck)
  BY <1>3, CommandsAre, RequestOwn
<1>4. CASE WantView
  BY <1>4, WantViewOwn
<1>5. CASE \E id \in DOMAIN client.pending : Timeout(id)
  BY <1>5, TimeoutOwn
<1>6. CASE Receive
  BY <1>6, ReceiveOwn
<1>7. CASE Disconnect
  <2>1. PICK k \in 0..Len(toClient) : toClient' = SubSeq(toClient, 1, k)
    BY <1>7 DEF Disconnect
  <2>2. Distinct(toClient') /\ Names(toClient') \subseteq Names(toClient)
    BY <1>1, <2>1, CutNames DEF NamesTrue
  <2> QED
    BY <1>7, <2>2, ResetOwn DEF Disconnect
<1>8. ASSUME NEW world, Connect(world) PROVE OwnTrue'
  <2>1. Distinct(toClient') /\ Names(toClient') \subseteq Names(toClient)
    BY <1>1, <1>8 DEF Connect, NamesTrue
  <2> QED
    BY <1>8, <2>1, ResetOwn DEF Connect
<1>9. CASE UNCHANGED vars
  <2>1. UNCHANGED <<client, toServer, toClient>>
    BY <1>9 DEF vars
  <2> QED
    BY <1>1, <2>1, FewerNames DEF NamesTrue, OwnTrue
<1> QED
  BY <1>2, <1>3, <1>4, <1>5, <1>6, <1>7, <1>8, <1>9 DEF Next

LEMMA NextFlags == ASSUME TypeInv, [Next]_vars PROVE FlagsTrue'
<1>1. FlagsTrue /\ MaxChanges \in Nat
  BY ClientBounds DEF TypeInv
<1>2. ASSUME UNCHANGED <<online, connection, changes>>, disturbed' \in BOOLEAN PROVE FlagsTrue'
  BY <1>1, <1>2 DEF FlagsTrue
<1>3. \A reply : Answer(reply) => UNCHANGED <<online, connection, changes>>
  BY DEF Answer, netVars
<1>4. CASE Serve
  <2>1. UNCHANGED <<online, connection, changes>>
    BY <1>3, <1>4, ServerAnswers
  <2>2. disturbed' \in BOOLEAN
    <3>1. CASE RefuseBusy
      BY <3>1 DEF RefuseBusy
    <3>2. ASSUME NEW verdict \in Verdicts, ServeMutation(verdict) PROVE disturbed' \in BOOLEAN
      <4>1. UNCHANGED disturbed \/ disturbed' = TRUE
        BY <3>2 DEF ServeMutation, Persist
      <4> QED
        BY <1>1, <4>1 DEF FlagsTrue
    <3>3. ASSUME NEW verdict \in Verdicts, ServeTransfer(verdict) PROVE disturbed' \in BOOLEAN
      <4>1. UNCHANGED disturbed \/ disturbed' = TRUE
        BY <3>3 DEF ServeTransfer, Persist
      <4> QED
        BY <1>1, <4>1 DEF FlagsTrue
    <3>4. ASSUME NEW verdict \in Verdicts, ServeOpen(verdict) PROVE disturbed' \in BOOLEAN
      BY <1>1, <3>4 DEF ServeOpen, FlagsTrue
    <3>5. CASE ServePage \/ ServeRead
      BY <1>1, <3>5 DEF ServePage, ServeRead, FlagsTrue
    <3> QED
      BY <1>4, <3>1, <3>2, <3>3, <3>4, <3>5 DEF Serve
  <2> QED
    BY <1>2, <2>1, <2>2
<1>5. CASE ClearedElsewhere
  BY <1>1, <1>5 DEF ClearedElsewhere, Persist, netVars, FlagsTrue
<1>6. CASE IdlePasses
  BY <1>2, <1>6 DEF IdlePasses, netVars
<1>7. CASE Logout
  BY <1>1, <1>7 DEF Logout, FlagsTrue
<1>8. ASSUME NEW code, NEW count, Grant(code, count) PROVE FlagsTrue'
  BY <1>1, <1>8 DEF Grant, netVars, FlagsTrue
<1>9. ASSUME NEW d, ClientStep(d) PROVE disturbed' \in BOOLEAN
  BY <1>9 DEF ClientStep
<1>10. ASSUME NEW command, Request(command), UNCHANGED changes PROVE FlagsTrue'
  BY <1>2, <1>9, <1>10 DEF Request, netVars
<1>11. ASSUME NEW command, Change(command) PROVE FlagsTrue'
  <2>1. UNCHANGED <<online, connection>> /\ disturbed' \in BOOLEAN
    BY <1>9, <1>11 DEF Change, Request, netVars
  <2> QED
    BY <1>1, <1>11, <2>1 DEF Change, FlagsTrue
<1>12. CASE Edit \/ Move
  BY <1>11, <1>12 DEF Edit, Move
<1>13. CASE \E deck \in Decks : ReadDeck(deck)
  BY <1>10, <1>13 DEF ReadDeck
<1>14. CASE WantView
  BY <1>2, <1>9, <1>14 DEF WantView, netVars
<1>15. CASE \E id \in DOMAIN client.pending : Timeout(id)
  BY <1>2, <1>15 DEF Timeout, netVars
<1>16. CASE Receive
  <2>1. UNCHANGED <<online, connection, changes>>
    BY <1>16 DEF Receive, netVars
  <2>2. disturbed' \in BOOLEAN
    <3>1. ASSUME NEW id, NEW reply, Complete(id, reply) PROVE disturbed' \in BOOLEAN
      BY <1>9, <3>1 DEF Complete
    <3>2. UNCHANGED disturbed \/ \E id, reply : Complete(id, reply)
      BY <1>16 DEF Receive
    <3> QED
      BY <1>1, <3>1, <3>2 DEF FlagsTrue
  <2> QED
    BY <1>2, <2>1, <2>2
<1>17. CASE Disconnect
  BY <1>1, <1>17 DEF Disconnect, FlagsTrue
<1>18. ASSUME NEW world, Connect(world) PROVE FlagsTrue'
  BY <1>1, <1>18 DEF Connect, FlagsTrue
<1>19. CASE UNCHANGED vars
  BY <1>1, <1>19 DEF vars, netVars, FlagsTrue
<1> QED
  BY <1>4, <1>5, <1>6, <1>7, <1>8, <1>12, <1>13, <1>14, <1>15, <1>16, <1>17, <1>18, <1>19
     DEF Next, ServerStep

LEMMA TypeInit == Init => TypeInv
<1> SUFFICES ASSUME Init PROVE TypeInv
  OBVIOUS
<1>1. RefreshInv
  BY InitRefresh
<1>2. PICK world \in Worlds : data = world.data /\ slots = world.slots
  BY DEF Init
<1>3. TransferTrue
  BY <1>2, WorldAssumption DEF TransferTrue, Inventory
<1>4. FlagsTrue
  <2>1. online = FALSE /\ connection.up = FALSE /\ changes = 0 /\ disturbed = FALSE
    BY DEF Init
  <2>2. online \in BOOLEAN /\ connection.up \in BOOLEAN /\ disturbed \in BOOLEAN
    BY ONLY <2>1, Zenon
  <2>3. changes \in 0..MaxChanges
    BY <2>1, ClientBounds, SMT
  <2> QED
    BY <2>2, <2>3 DEF FlagsTrue
<1>5. client.refreshingRevision = 0 /\ client.pending = Empty /\ toServer = <<>>
      /\ toClient = <<>>
  BY DEF Init, NewClient
<1>6. DOMAIN client.pending = {} /\ Names(<<>>) = {} /\ Distinct(<<>>)
  BY <1>5 DEF Empty, Names, Distinct
<1>7. Named = {}
  BY <1>1, <1>5, <1>6, NamedIs DEF RefreshInv
<1>8. Cardinality(Named) = 0
  BY <1>7, FS_EmptySet
<1>9. NamesTrue
  BY <1>5, <1>6, <1>8, ClientBounds DEF NamesTrue
<1> QED
  BY <1>1, <1>3, <1>4, <1>5, <1>9 DEF TypeInv, OwnTrue

\* The collection, the slots and the client's counters have the values their Java counterparts can
\* have, and no request the client waits for has an identity beyond MaxPending.
THEOREM CollectionTypes == Spec => []TypeOK
<1>1. TypeInv /\ [Next]_vars => TypeInv'
  BY NextKeepsCollection, NextKeepsRefresh, NextTransfers, NextFlags, NextOwn
     DEF TypeInv, RefreshInv, TransferInv
<1>2. TypeInv => TypeOK
  <2> SUFFICES ASSUME TypeInv PROVE TypeOK
    OBVIOUS
  <2>1. data.counts \in [Codes -> Nat] /\ data.active \in DOMAIN data.decks \cup {NoDeck}
    BY DEF TypeInv, TransferTrue, RefreshInv, RefreshTrue, ActiveTrue
  <2>2. \A deck \in DOMAIN data.decks : deck \in Decks /\ data.decks[deck] \in Contents
    BY HeldNow DEF TypeInv, RefreshInv, Listed
  <2>3. \A i \in DOMAIN slots : slots[i].code \in Codes \cup {NoCard, Foreign} /\ slots[i].count \in Nat
    <3>1. \A slot \in Stacks : slot.code \in Codes \cup {NoCard, Foreign} /\ slot.count \in Nat
      BY SlotAssumption DEF Stacks, EmptySlot, Slot
    <3> QED
      BY <3>1 DEF TypeInv, TransferTrue, Inventory
  <2>4. /\ online \in BOOLEAN /\ connection.up \in BOOLEAN /\ disturbed \in BOOLEAN
        /\ changes \in 0..MaxChanges
    BY DEF TypeInv, FlagsTrue
  <2>5. client.requiredRevision \in Nat /\ client.refreshingRevision \in Nat
    BY DEF TypeInv, OwnTrue, RefreshInv, RefreshTrue, KnownTrue
  <2>6. DOMAIN client.pending \subseteq Ids /\ client.awaited \in Ids \cup {NoId}
    BY DEF TypeInv, OwnTrue, NamesTrue, RefreshInv, CollectionInv, ClientTrue, Awaits
  <2>7. client.assembly.countIndex \in Nat /\ client.assembly.deckIndex \in Nat
    <3>1. NoAssembly.countIndex = 0 /\ NoAssembly.deckIndex = 0
      BY DEF NoAssembly
    <3>2. AssemblyTrue(client.assembly, held)
      BY DEF TypeInv, RefreshInv, CollectionInv, ClientTrue
    <3> QED
      BY <3>1, <3>2 DEF AssemblyTrue, Assembled
  <2>8. data.revision \in DOMAIN held
    BY DEF TypeInv, RefreshInv, CollectionInv, ServerTrue
  <2> QED
    BY <2>1, <2>2, <2>3, <2>4, <2>5, <2>6, <2>7, <2>8 DEF TypeOK
<1> QED
  BY <1>1, <1>2, TypeInit, PTL DEF Spec

===============================================================================
