CONSTANTS
    Players = {p1, p2}
    Decks = {d1, d2}
    None = None
    Step = 1
    MaxRounds = 2
    ListenerDisconnects = FALSE
    MaxClock = 2
    MaxFlows = 1
    MaxDuels = 1
    MaxRevision = 2
SYMMETRY Symmetry
SPECIFICATION Spec
INVARIANTS TypeOK FlowsPaired DuelsPaired NothingLeftBehind ClientsAgree
           PromptReached OfflineReleased WinnerChooses
PROPERTIES OverdueNeverAdvances ViewsFollowRevision HandsStand StartsPrepared
