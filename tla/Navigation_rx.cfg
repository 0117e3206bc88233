SPECIFICATION Spec
CONSTANTS
    Apps <- ReceiverApps
    AtStart = {TRUE}
    PushAfterPop = FALSE
    MaxVisited = 2
    MaxDepth = 4
    MaxPending = 1
    MaxLaunches = 1
    MaxRequests = 0
INVARIANTS
    ShownAsConfigured
    ResourcesHaveOwners
PROPERTIES
    FoundIsRestored
