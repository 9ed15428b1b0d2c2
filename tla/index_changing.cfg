SPECIFICATION Spec
CONSTANTS
    a = a
    b = b
    Paths <- TwoNames
    Environments <- Changing
    MaxClock = 2
    MaxQueue = 2
    KernelMax = 2
    Batch = 2
INVARIANTS QuietExact ExcludedGoes
CHECK_DEADLOCK FALSE
