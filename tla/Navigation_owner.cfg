SPECIFICATION Spec
CONSTANTS
    Apps <- PromptingApps
    AtStart = {TRUE}
    PushAfterPop = TRUE
    MaxVisited = 1
    MaxDepth = 4
    MaxPending = 2
    MaxLaunches = 1
    MaxRequests = 1
INVARIANTS
    OwnersAreAlive
