SPECIFICATION Spec
CONSTANTS
    d1 = d1
    d2 = d2
    Root = root
    Dirs <- TwoDirs
    Names <- TwoNames
    MaxDepth = 2
    MaxOps = 4
    Limits <- RoomyOrTight
    Queues <- LongOrShort
SYMMETRY Symmetry
INVARIANTS NoFileMissed UnwatchedIsBackedUp WatchNamesTruth
CHECK_DEADLOCK FALSE
