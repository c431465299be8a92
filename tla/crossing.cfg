CONSTANTS
    Players = {p1, p2, p3}
    Decks = {d1}
    None = None
    Step = 1
    MaxRounds = 1
    ListenerDisconnects = FALSE
    MaxClock = 2
    MaxFlows = 2
    MaxDuels = 1
    MaxRevision = 0
SYMMETRY Symmetry
ACTION_CONSTRAINT Settled
SPECIFICATION Spec
PROPERTIES KeepsPromise
