SPECIFICATION FairSpec
CONSTANTS
    MaxForks = 2
    MaxTabs = 2
    MaxAttempts = 2
    Environments <- Usual
INVARIANTS NoOrphan StateMatchesChild PlacementTruth
PROPERTIES SpawningEnds
CHECK_DEADLOCK FALSE
