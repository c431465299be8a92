------------------------ MODULE InventoryTransferPlan ------------------------
(***************************************************************************)
(* InventoryTransferPlan.plan: what a transfer between an inventory and a  *)
(* collection would leave in both, all or nothing.                         *)
(*                                                                         *)
(* The inventory is the sequence of its slots in the order of their        *)
(* indices: the main slots, then the offhand.  A stack the plan must not   *)
(* touch (code -1 in the code) has the code Foreign.  Counts past the      *)
(* range of a long, and the number of stacks skipped, are left out.        *)
(***************************************************************************)
EXTENDS Integers, Sequences, SequencesExt

CONSTANTS
    Codes,          \* the card codes
    Depositable,    \* depositableCodes: those the server's card data knows
    NoCard,         \* the code of an empty slot, 0
    Foreign,        \* the code of any other stack, -1
    MainSlots,      \* how many slots before the offhand: 36
    MAX_STACK,      \* 64
    MAX_AMOUNT      \* 4096

ASSUME CodeAssumption ==
    Depositable \subseteq Codes /\ NoCard \notin Codes /\ Foreign \notin Codes /\ NoCard # Foreign
ASSUME SlotAssumption == MainSlots \in Nat /\ MAX_STACK \in Nat \ {0} /\ MAX_AMOUNT \in Nat

Slot(code, count) == [code |-> code, count |-> count]
EmptySlot == Slot(NoCard, 0)

\* What a slot can hold: any stack that is not a card's, or is more than one may be, is foreign.
Stacks ==
    {EmptySlot} \cup [code : Codes, count : 1..MAX_STACK] \cup [code : {Foreign}, count : Nat \ {0}]

Failed(error) == [error |-> error]
Planned(plan) ==
    [error |-> "NONE", slots |-> plan.slots, counts |-> plan.counts, moved |-> plan.moved]

Unmoved(slots, counts) == [slots |-> slots, counts |-> counts, moved |-> 0]
Lesser(m, n) == IF m <= n THEN m ELSE n

\* The order of a pass: the main slots, or all.
Main == [i \in 1..MainSlots |-> i]
All(slots) == [i \in DOMAIN slots |-> i]

\* Slot i takes what it has room for of the copies still to be moved.
Fill(plan, i, code, amount) ==
    LET take == Lesser(amount - plan.moved, MAX_STACK - plan.slots[i].count)
    IN IF take <= 0 THEN plan
       ELSE [plan EXCEPT !.slots[i] = Slot(code, @.count + take), !.moved = @ + take]

\* A pass over the main slots, in which those of a code, or the empty ones, are filled.
FillEach(plan, of, code, amount) ==
    FoldLeft(LAMBDA p, i : IF p.slots[i].code = of THEN Fill(p, i, code, amount) ELSE p, plan, Main)

\* Stacks of the code are filled first, then empty main slots; never the offhand.
WithdrawLoops(slots, counts, code, amount) ==
    FillEach(FillEach(Unmoved(slots, counts), code, code, amount), NoCard, code, amount)

\* Mutant: what does not fit is left out of the transfer.
WithdrawPartly(slots, counts, code, amount) ==
    LET plan == WithdrawLoops(slots, counts, code, amount)
    IN IF counts[code] < amount THEN Failed("INSUFFICIENT_CARDS")
       ELSE IF plan.moved = 0 THEN Failed("INVENTORY_FULL")
       ELSE Planned([plan EXCEPT !.counts[code] = @ - plan.moved])

Withdraw(slots, counts, code, amount) ==
    LET plan == WithdrawLoops(slots, counts, code, amount)
    IN IF counts[code] < amount THEN Failed("INSUFFICIENT_CARDS")
       ELSE IF plan.moved # amount THEN Failed("INVENTORY_FULL")
       ELSE Planned([plan EXCEPT !.counts[code] = @ - amount])

\* Slot i gives `take` of its copies to the collection.
Give(plan, i, take) ==
    LET slot == plan.slots[i]
    IN IF take <= 0 THEN plan
       ELSE [plan EXCEPT !.counts[slot.code] = @ + take,
                         !.slots[i] = IF take = slot.count THEN EmptySlot
                                      ELSE Slot(slot.code, slot.count - take),
                         !.moved = @ + take]

\* A pass over all slots: those of known codes give all they have or, of the one code of a
\* DEPOSIT, what is still to be moved.
DepositLoop(slots, counts, kind, code, amount) ==
    LET codes == IF kind = "DEPOSIT" THEN {code} \cap Depositable ELSE Depositable
        take(p, i) == IF kind = "DEPOSIT_ALL" THEN p.slots[i].count
                      ELSE Lesser(p.slots[i].count, amount - p.moved)
    IN FoldLeft(LAMBDA p, i : IF p.slots[i].code \in codes THEN Give(p, i, take(p, i)) ELSE p,
                Unmoved(slots, counts), All(slots))

\* A DEPOSIT moves exactly the amount, or nothing.
Deposit(slots, counts, kind, code, amount) ==
    LET plan == DepositLoop(slots, counts, kind, code, amount)
    IN IF plan.moved = 0 \/ (kind = "DEPOSIT" /\ plan.moved # amount)
       THEN Failed("INSUFFICIENT_CARDS") ELSE Planned(plan)

Plan(slots, counts, kind, code, amount) ==
    IF kind # "DEPOSIT_ALL" /\ amount \notin 1..MAX_AMOUNT THEN Failed("INVALID")
    ELSE IF kind = "WITHDRAW" THEN Withdraw(slots, counts, code, amount)
    ELSE Deposit(slots, counts, kind, code, amount)
=============================================================================
