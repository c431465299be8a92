CONSTANTS
    Players = {p1, p2, p3, p4}
    Decks = {d1}
    None = None
    Step = 1
    MaxRounds = 1
    ListenerDisconnects = FALSE
    MaxClock = 1
    MaxFlows = 2
    MaxDuels = 0
    MaxRevision = 0
SYMMETRY Symmetry
ACTION_CONSTRAINT Gathered
SPECIFICATION Spec
PROPERTIES ExpiresOnce
