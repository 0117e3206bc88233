SPECIFICATION Spec
CONSTANTS
    r1 = r1
    r2 = r2
    Callers <- TwoCallers
    Freqs <- TwoFreqs
    Ops <- StateOps
    MaxRequests = 3
    MaxFaults = 0
CHECK_DEADLOCK FALSE
INVARIANTS
    StateIsDevice
    StreamingIsTrue
