SPECIFICATION PortalFairSpec
CONSTANTS
    Browsers = {b1, b2}
    Generations = {g1, g2}
    NoLoop = none
    Limits <- EitherSide
    MaxPending = 1
    MaxQueued = 1
INVARIANTS
    KeysReleased
PROPERTIES
    CatchesUp
    NobodyLooksNobodyPolls
