----------------------------- MODULE MCDuelManager -----------------------------
(* Instances of DuelManager for TLC. *)
EXTENDS DuelManager, TLC

Symmetry == Permutations(Players) \cup Permutations(Decks)

\* Runs with more players than two leave out the comings and goings that runs
\* with two players explore: decks are settled, and nobody leaves.
Settled == deck' = deck /\ online \subseteq online'

\* ... and nobody joins once an invitation was sent.
Gathered == Settled /\ (flow # <<>> => online' = online)
=============================================================================
