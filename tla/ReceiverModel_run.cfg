SPECIFICATION Spec
CONSTANTS
    NotReal = NotReal
    Denormal = Denormal
    Tolerance = 0
    Targets = {20, 23}
    Rates = {4, 10}
    Hints = {0, 6}
    Gains = {0, NotReal}
    Modes = {NFM, SPEC}
    Spectrum = SPEC
    NFM = NFM
    Ring = 2
    LoStep = 2
    RateRange <- SlowRadio
    WidthRange <- NarrowFilter
    GainRange <- SomeGain
INVARIANTS
    TargetInTheBand
    LateByOneBlock
    FrontEndFollowsRate
