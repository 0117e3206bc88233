SPECIFICATION Spec
CONSTANTS
    Slots = 4
    Length = 1
    Block = 1
    TxBlock = 1
CHECK_DEADLOCK FALSE
INVARIANT FinishedIsSent
