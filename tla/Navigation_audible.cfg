SPECIFICATION Spec
CONSTANTS
    Apps <- ListeningApps
    AtStart = {TRUE}
    PushAfterPop = FALSE
    MaxVisited = 2
    MaxDepth = 3
    MaxPending = 1
    MaxLaunches = 1
    MaxRequests = 0
INVARIANTS
    ListeningAppAudible
