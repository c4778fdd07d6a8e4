SPECIFICATION Spec
CONSTANTS
    MaxLots = 2
    MaxPrice = 2
    MinLots = 1
    StopLots = 1
    wide = wide
    Plans = {wide}
    NoPlan = NoPlan
    Width <- MCWidth
    Slack = 0
    StopIds = {i1, i2}
    NoId = NoId
    BuyIds = {b1}
    SellIds = {s1}
    CalmPrices = {2}
    NoCkpt = NoCkpt
SYMMETRY MCSymmetry
PROPERTIES
    StopFillIsBooked
