SPECIFICATION Spec
CONSTANTS
    Apps <- KeyfobOnly
    AtStart = {TRUE}
    PushAfterPop = FALSE
    MaxVisited = 1
    MaxDepth = 3
    MaxPending = 1
    MaxLaunches = 0
    MaxRequests = 1
INVARIANTS
    SendingIsAlwaysOnAir
