SPECIFICATION Spec
CONSTANTS
    Mids <- MidsMC
    MaxOrders = 3
    MaxDisconnects = 0
    MaxUnread = 1
    Reordered = FALSE
INVARIANT
    AcksExpected
