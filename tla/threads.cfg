SPECIFICATION FairSpec
CONSTANTS
    Files = 2
    Batch = 2
    MaxWork = 3
    MaxCommands = 2
    Environments <- AllEnvironments
PROPERTIES QueueServed RequestsServed ShutdownEnds
CHECK_DEADLOCK FALSE
