CONSTANTS
    Players = {p1, p2}
    Decks = {d1}
    None = None
    Step = 1
    MaxRounds = 1
    ListenerDisconnects = FALSE
    MaxClock = 2
    MaxFlows = 2
    MaxDuels = 2
    MaxRevision = 2
SYMMETRY Symmetry
ACTION_CONSTRAINT Settled
SPECIFICATION Spec
INVARIANTS DuelsPaired ClientsAgree
PROPERTIES StartsPrepared
