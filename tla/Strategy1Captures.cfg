SPECIFICATION Spec
CONSTANTS
    MaxRetries = 2
    price_low = 1
    price_high = 4
    NDEBUG = TRUE
    Reordered = FALSE
    MayCancel = FALSE
    MaxDisconnects = 0
INVARIANT
    CapturesAlive
