SPECIFICATION FairSpec
CONSTANTS
    NDEBUG = TRUE
    MaxOrders = 4
    MaxDisconnects = 2
INVARIANTS
    CleanExit
PROPERTIES
    OneOrderAtATime
    Terminates
