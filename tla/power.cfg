SPECIFICATION FairSpec
CONSTANTS
    MaxActions = 2
    Environments <- Configurations
INVARIANTS Agree AskedFirst
PROPERTIES DialogEnds
CHECK_DEADLOCK FALSE
