SPECIFICATION FairSpec
CONSTANTS
    r1 = r1
    r2 = r2
    Callers <- TwoCallers
    Freqs <- TwoFreqs
    Ops <- AllOps
    MaxRequests = 3
    MaxFaults = 2
CHECK_DEADLOCK FALSE
INVARIANTS
    OwnReply
    OpenIsReachable
    NeverPanics
PROPERTIES
    SpectrumFollows
