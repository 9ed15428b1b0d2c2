SPECIFICATION Spec
CONSTANTS
    a = a
    b = b
    Paths <- TwoNames
    Environments <- RebuildCrash
    MaxClock = 1
    MaxQueue = 2
    KernelMax = 2
    Batch = 1
INVARIANTS LiveRowHasDoc
CHECK_DEADLOCK FALSE
