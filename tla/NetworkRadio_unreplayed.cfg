SPECIFICATION Spec
CONSTANTS
    lowest = lowest unset = unset default = default
    freq = freq lo = lo fine = fine rounded = rounded
    Settings <- AllSettings
    Replayed <- Tunings
    ZeroIsAbsence <- Tunings
    Seeded <- Tunings
    Values = {rounded}
    Achieved <- Exactly
    Unset = unset
    Lowest = lowest
    Default = default
    Policies = {2}
    MaxFaults = 1
    HalfOpen = FALSE
PROPERTY EveryCachedSettingSurvives
