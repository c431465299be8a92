---------------------------- MODULE BridgeContract ----------------------------
(***************************************************************************)
(* What the native bridge promises the Java side: an engine is up or down; *)
(* its card table does not change while it is up; the duels of the core    *)
(* live inside its life; and what a script name stands for is settled at   *)
(* most once in it.                                                        *)
(***************************************************************************)
CONSTANTS Duels, Scripts, Outcomes, Unseen

VARIABLES
    up,         \* there is an engine
    table,      \* its cards
    duels,      \* the duels of the core
    verdict     \* script name -> what it stands for, or Unseen

contractVars == <<up, table, duels, verdict>>

Init ==
    /\ ~up
    /\ duels = {}
    /\ verdict = [script \in Scripts |-> Unseen]

\* A new engine starts with its own cards, no duels and nothing settled.
Start ==
    /\ ~up /\ up'
    /\ UNCHANGED duels
    /\ verdict' = [script \in Scripts |-> Unseen]

\* No duel survives its engine.
Stop ==
    /\ up /\ ~up'
    /\ duels' = {}
    /\ UNCHANGED verdict

Create(duel) ==
    /\ up /\ duel \notin duels
    /\ duels' = duels \cup {duel}
    /\ UNCHANGED <<up, table, verdict>>

Destroy(duel) ==
    /\ up /\ duel \in duels
    /\ duels' = duels \ {duel}
    /\ UNCHANGED <<up, table, verdict>>

\* What a name stands for, once settled, stays.
Settle(script) ==
    /\ up /\ verdict[script] = Unseen
    /\ \E outcome \in Outcomes : verdict' = [verdict EXCEPT ![script] = outcome]
    /\ UNCHANGED <<up, table, duels>>

Next ==
    \/ Start
    \/ Stop
    \/ \E duel \in Duels : Create(duel) \/ Destroy(duel)
    \/ \E script \in Scripts : Settle(script)

Spec == Init /\ [][Next]_contractVars
=============================================================================
