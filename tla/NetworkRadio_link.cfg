SPECIFICATION FairSpec
CONSTANTS
    lowest = lowest unset = unset default = default
    freq = freq lo = lo fine = fine rounded = rounded
    Settings <- Tunings
    Replayed <- Tunings
    ZeroIsAbsence <- Tunings
    Seeded <- Tunings
    Values = {fine, rounded}
    Achieved <- Rounding
    Unset = unset
    Lowest = lowest
    Default = default
    Policies = {0, 2}
    MaxFaults = 4
    HalfOpen = TRUE
INVARIANTS
    TuningSurvives
    StreamIsTuned
    ClosedStaysClosed
PROPERTIES
    CallsReturn
    LinkRecovers
