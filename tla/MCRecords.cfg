SPECIFICATION Spec
CONSTANTS
    MaxEntries = 4
    Cadence = 2
    Tolerance = 1
    LastHour = 6
    MaxCrashes = 2
    Quotes = {1, 2}
    HorizonHours = {1, 2}
    MinSamples = 2
    MaxRows = 3
    LastTick = 4
    MaxSaves = 4
    Equities = {12, 13, 14, 15, 16, 17, 18, 19, 20, 21, 22}
    Moves <- MCMoves
    DailyLoss = 10
    MaxDrawdown = 25
    LastDate = 3
    Marks = {10, 14}
    MaxActivities = 3
    LabelPrices = {1, 2}
    Edge = 1
    Delay = 2
    LabelTolerance = 1
    PendingCadence = 1
    LastTime = 6
    MaxDeaths = 2
INVARIANTS
    OneAuthority
    
    LearningIsHonest
    OutcomeIsEarned
PROPERTIES
    LossesStop
CHECK_DEADLOCK FALSE
