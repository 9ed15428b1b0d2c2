SPECIFICATION FairSpec
CONSTANTS
    a = a
    b = b
    Paths <- TwoNames
    Environments <- Settling
    MaxClock = 2
    MaxQueue = 1
    KernelMax = 1
    Batch = 1
PROPERTIES EventuallyFresh
CHECK_DEADLOCK FALSE
