SPECIFICATION FairSpec
CONSTANTS
    Cadence = 2
    MaxFails = 3
    Threads = {1, 2}
INVARIANTS
    DeliberationInv
PROPERTIES
    CollectedOnce
    OnlyVerdictsOpen
    AttemptsAreSpaced
    KeepsDeliberating
    OutageIsManaged
