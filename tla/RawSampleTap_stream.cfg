SPECIFICATION FairSpec
CONSTANTS
    Capacities = {2, 3}
    Counts = {1, 3}
    MaxStream = 5
    Zero = Zero
INVARIANTS
    BlockContiguousAndPlaced
    EverySampleAccountedFor
    CountersBalanceAtRest
    NoSlotRace
    ExclusiveReallocation
PROPERTIES
    ImplementsGapStream
    TearHeals
