SPECIFICATION SamplesSpec
CONSTANTS
    REQUEST_LIMIT = 2
    MONITOR_PERIOD = 3
    MaxTime = 10
    MaxSends = 6
    filter_symbols = TRUE
    Symbols = {"a"}
    MaxSessions = 3
    REQUEST_FREQ = 2
    REQUEST_TIMEOUT = 2
    MaxRestTime = 12
    MaxQueue = 2
    MaxConnections = 2
    depth = 2
    Prices = {1, 2, 3}
    Quantities = {0, 1}
    Matched = {"a", "b"}
    Mids = {"p", "q"}
    MaxVersion = 4
    DELAY_1 = 1
    DELAY_2 = 3
    COUNTDOWN = 2
    MaxReceive = 9
    Gateways = {0, 1}
    OrderIds = {1, 2}
    MaxCancels = 2
INVARIANTS
    WindowRespected
    SessionAlive
    RequestsSpaced
    AverageIsCurrent
    DepthIsTop
    RowsAreHistory
    OrdersPaced
    ReadyIsSafe
    StreamKeepsItsWord
PROPERTIES
    ZombiesRemoved
    StopReturns
    LogIsRead
