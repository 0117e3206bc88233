SPECIFICATION FairSpec
CONSTANTS
    Apps <- SenderApps
    AtStart = {TRUE, FALSE}
    PushAfterPop = FALSE
    MaxVisited = 1
    MaxDepth = 4
    MaxPending = 2
    MaxLaunches = 1
    MaxRequests = 1
INVARIANTS
    NoDanglingSource
    CarrierIsAccountedFor
    OwnersAreAlive
PROPERTIES
    BurstEnds
