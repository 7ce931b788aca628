SPECIFICATION FairSpec
CONSTANTS
    Mids <- MidsMC
    MaxOrders = 3
    MaxDisconnects = 1
    MaxUnread = 2
    Reordered = FALSE
INVARIANTS
    IdleHasNoOrder
    KnowsItsOrder
    PositionIsCompleted
    WaitIsDriven
PROPERTIES
    OneOrderPerSide
    RequestsEnd
