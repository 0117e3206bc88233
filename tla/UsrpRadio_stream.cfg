SPECIFICATION FairSpec
CONSTANT MaxFaults = 4
CHECK_DEADLOCK FALSE
INVARIANTS
    ReplacementIsAnnounced
PROPERTIES
    StopReturns
    SamplesResume
