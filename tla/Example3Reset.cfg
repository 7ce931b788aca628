SPECIFICATION Spec
CONSTANTS
    warmup = 1
    enable_trading = TRUE
    Lot = 1
    Held = 0
    AccountInside = FALSE
    MaxOrders = 2
    MaxRequests = 2
    MaxDisconnects = 1
INVARIANT
    CachedStateReset
