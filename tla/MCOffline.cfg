SPECIFICATION Spec
CONSTANTS
    Postures = {"DEFENSIVA", "NEUTRAL"}
    MaxPages = 2
    AgeLimit = 1
    StillLimit = 3
    LastSecond = 6
    Figures <- MCFigures
    Missing = 99
    LastHour = 4
    LogPrices = {0, 3}
    Holes = {0, 1, 4}
    Fee = 1
    Cadence = 2
    DayLength = 2
    Warmup = 1
    Bars = 8
    MaxRequests = 2
    MaxVersions = 2
    StepDays = 2
    Turns = 4
    Whole = 2
    Regimes = {1, 2, 3}
    Cautious = 1
    MinHistory = 1
    MaxHorizon = 2
    Count = 2
    Cost = 2
    LastDay = 6
    Policies = {"POL-101", "POL-102", "POL-103"}
    Timeout = 2
    MaxHolding = 1
    LadderPrices = {2, 3, 4, 5}
    Slots = 2
    Spacing = 1
    TakeProfit = 1
    TrancheStop = 2
    Disaster = 3
    LadderFee = 1
    MaxBars = 4
    PlanRegimes = {0, 3}
    Invested = {3}
    Minimum <- MCMinimum
    Persistence <- MCPersistence
    Convictions = {40, 65}
    Cooldowns = {1}
    Steps = {1, 2}
    LastClose = 3
    NetReturns <- MCNetReturns
    CandleHours = {1, 2}
    WarmupBars = 1
    ArmTimeout = 1
    LongestHold = 2
    FoldCount = 2
    LastStudyHour = 9
INVARIANTS
    ReportsAreTrue
    DecisionsAreSound
    SimulationIsHonest
PROPERTIES
    WorseIsNotApproved
    EntriesAreEarned
CHECK_DEADLOCK FALSE
