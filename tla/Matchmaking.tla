------------------------------ MODULE Matchmaking ------------------------------
(***************************************************************************)
(* What duelcraft promises its players, whatever happens in between: a     *)
(* player is engaged in one party at a time, the members of a party are    *)
(* always at the same stage, stages are not skipped, and a party comes and *)
(* goes as a whole.  A party of two is a duel between players, a party of  *)
(* one a duel against the AI.                                              *)
(***************************************************************************)

CONSTANT Players

VARIABLE engaged    \* player -> the party that holds the player, and its stage

Stages == {"invited", "rolling", "choosing", "starting", "dueling"}

Idle == [party |-> {}, stage |-> "idle"]

At(party, stage) == [party |-> party, stage |-> stage]

Move(party, from, to) ==
    /\ \A p \in party : engaged[p] = from
    /\ engaged' = [p \in Players |-> IF p \in party THEN to ELSE engaged[p]]

Init == engaged = [p \in Players |-> Idle]

Propose(p, q) == p # q /\ Move({p, q}, Idle, At({p, q}, "invited"))

\* The successive stages of a party that does not break up.
Advance(party) ==
    \/ Move(party, At(party, "invited"), At(party, "rolling"))
    \/ Move(party, At(party, "rolling"), At(party, "choosing"))
    \/ Move(party, At(party, "choosing"), At(party, "starting"))
    \/ Move(party, At(party, "starting"), At(party, "dueling"))

BeginSolo(p) == Move({p}, Idle, At({p}, "starting"))

\* The invitation lapses, the start fails or the duel is over.
Release(party) == \E stage \in Stages : Move(party, At(party, stage), Idle)

\* The server stops: a duel that nobody is left to end goes with it.
Stop == engaged' = [p \in Players |-> Idle]

Next ==
    \/ \E p, q \in Players : Propose(p, q)
    \/ \E p \in Players : BeginSolo(p)
    \/ \E party \in SUBSET Players : Advance(party) \/ Release(party)
    \/ Stop

Spec == Init /\ [][Next]_engaged
=============================================================================
