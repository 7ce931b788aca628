SPECIFICATION Spec
CONSTANTS
    NDEBUG = FALSE
    MaxOrders = 3
    MaxDisconnects = 1
INVARIANT
    StateChanges
