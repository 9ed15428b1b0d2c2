SPECIFICATION FairSpec
CONSTANTS
    o1 = o1
    o2 = o2
    Outputs = {o1, o2}
    Monitors <- MCMonitors
    Percent <- MCPercent
    Shapes <- MCShapes
    Band = 2
    MinTab = 3
    Epsilon = 2
    MaxOps = 5
    MaxWire = 2
    None = None
    Environments <- MCEnvironments
INVARIANTS StripFits PaintsWhatItMay
PROPERTIES StripAppears
CHECK_DEADLOCK FALSE
