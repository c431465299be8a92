CONSTANTS
    Codes = {1, 2}
    Depositable = {1}
    NoCard = NoCard
    Foreign = Foreign
    MainSlots = 3
    MAX_STACK = 2
    MAX_AMOUNT = 4
    x = x
    y = y
    Decks = {1}
    Contents = {x, y}
    NoDeck = NoDeck
    COUNT_PAGE = 1
    SUMMARY_PAGE = 1
    Worlds <- MCWorlds
    MaxChanges = 1
    Amounts = {2, 4}
    MaxPending = 2
    MaxConnections = 2
SPECIFICATION Spec
ACTION_CONSTRAINT LaterLooks
CHECK_DEADLOCK FALSE
INVARIANTS
    TypeOK
    ViewTrue
    DeckOfView
    RefreshAwaits
PROPERTIES
    RefreshSucceeds
    TransfersExact
