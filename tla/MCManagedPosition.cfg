SPECIFICATION Spec
CONSTANTS
    Labels = {0, 1, 2, 3}
    Horizon <- MCHorizon
    Cautious = 1
    None = None
    MaxAge = 2
    Cash = 1000
    Prices = {90, 100, 110}
    Vols = {200, 1200}
    Convictions = {75, 100}
    Choices = {"DEFENSIVA", "AGRESIVA"}
    MaxTrades = 2
INVARIANTS
    PositionInv
PROPERTIES
    SwitchIsEarned
    StopOnlyRises
    OpeningRisksItsBudget
    AdjustmentSettles
CHECK_DEADLOCK FALSE
