CONSTANTS
    Players = {p1, p2}
    Decks = {d1}
    None = None
    Step = 1
    MaxRounds = 1
    ListenerDisconnects = TRUE
    MaxClock = 2
    MaxFlows = 1
    MaxDuels = 1
    MaxRevision = 0
SYMMETRY Symmetry
SPECIFICATION Spec
INVARIANTS NoGhostScreen
