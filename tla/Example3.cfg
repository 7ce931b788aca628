SPECIFICATION Spec
CONSTANTS
    warmup = 4
    enable_trading = TRUE
    Lot = 2
    Held = 1
    AccountInside = TRUE
    MaxOrders = 3
    MaxRequests = 2
    MaxDisconnects = 1
INVARIANTS
    ReadyIsCurrent
    KnowsItsOrder
    PositionKnown
    PositionLimited
PROPERTIES
    OneWorkingOrder
    TradesWarmedUp
