SPECIFICATION FairSpec
CONSTANTS
    MaxRetries = 2
    price_low = 1
    price_high = 4
    NDEBUG = TRUE
    Reordered = TRUE
    MayCancel = TRUE
    MaxDisconnects = 1
INVARIANTS
    TypeOK
    OneDriver
    OneOrderPerLeg
    RestingAtWantedPrice
    StartTogether
    NeverSelfCross
    PendingIsDriven
PROPERTIES
    FinishedIsFinal
    OtherRepriced
