SPECIFICATION PortalSpec
CONSTANTS
    Browsers = {b1, b2}
    Generations = {g1, g2}
    NoLoop = none
    Limits <- KeyOnly
    MaxPending = 2
    MaxQueued = 2
INVARIANT ReleasedOnDisconnect
