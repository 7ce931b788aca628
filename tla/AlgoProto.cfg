SPECIFICATION Spec
CONSTANTS
    Sources = {"g0", "g1"}
    SourceOf <- SourceOfMC
    Configs <- ConfigsMC
    UnsetTick <- UnsetTickMC
    Prices = {5, 6}
    Spread = 2
    MaxOrders = 2
    MaxRequests = 2
    MaxOutages = 1
INVARIANTS
    ReadyIsCurrent
    RoutedToOwner
    RestingAtTarget
PROPERTY
    OneOrder
