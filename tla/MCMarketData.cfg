SPECIFICATION Spec
CONSTANTS
    Prices = {1, 2}
    Horizons <- MCHorizons
    MinCoverage = 65
    MaxPoints = 4
    MaxBarIds = 1
    Boot = 2
    MaxTime = 5
    Trades = 4
    Window = 1
    MaxIds = 2
    FlowTime = 4
    MaxPause = 4
    MaxOutages = 2
    Drifts <- MCDrifts
    RecvWindow = 5
    Ahead = 1
    MaxRetries = 3
    MaxSteps = 2
    Closes = {1, 2}
    MaxHistory = 2
    Fetch = 3
    FirstDay = 1
    LastDay = 5
    LastBar = 3
    PageSize = 2
    MaxRequests = 4
    MaxTries = 2
    LastUpdate = 6
    MaxBuffer = 2
    Resyncs = 1
    Numbers = {1, 2, 3}
    MinBars = 2
    MaxDeliveries = 4
    MaxAttempts = 3
    OrderWindow = 1
    RestartDelay = 2
    Patience = 6
    MaxFaults = 2
INVARIANTS
    SubmissionInv
    EvidenceIsTrue
    DriftIsSurvived
    DownloadsAreWhole
PROPERTIES
    MarketIsHeard
    IsSubmittedOrder
    OrdersSettle
CHECK_DEADLOCK FALSE
