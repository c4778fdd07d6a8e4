SPECIFICATION FairSpec
CONSTANTS
    MaxLots = 3
    MaxPrice = 2
    MinLots = 1
    StopLots = 2
    wide = wide
    Plans = {wide}
    NoPlan = NoPlan
    Width <- MCWidth
    Slack = 1
    StopIds = {i1, i2}
    NoId = NoId
    BuyIds = {b1}
    SellIds = {s1}
    CalmPrices = {2}
    NoCkpt = NoCkpt
PROPERTIES
    KeepsRunning
    NakedIsTemporary
