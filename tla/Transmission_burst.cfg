SPECIFICATION FairSpec
CONSTANTS
    Slots = 4
    Length = 4
    Block = 2
    TxBlock = 2
CHECK_DEADLOCK FALSE
INVARIANTS
    SentInOrder
    SamplesOutliveTheSource
PROPERTIES
    ImplementsFifo
    BurstEnds
