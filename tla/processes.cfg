SPECIFICATION Spec
CONSTANTS
    None = None
    Processes = {p1, p2, p3}
    Keys = {k1, k2}
    Modes = {"launcher", "switcher", "dropdown"}
    Slots <- AllOrAllButOne
    MaxUse = 2
    MaxFaults = 1
    Daemons = {d1, d2}
    Clients = {c1, c2}
    MaxInput = 5
    MaxOutput = 4
    Capacity = 1
    MaxText = 2
    MaxEvents = 4
    Long = {2}
    MaxBuffered = 3
    MaxBackoff = 2
    Files = 2
    Batch = 2
    MaxWork = 3
    MaxCommands = 2
    Environments <- AllEnvironments
INVARIANTS SavesKept PressesReach ControlTrue OutputWhole EventsInOrder NoLostEnqueue PauseHolds
PROPERTIES ChildrenReturn
CHECK_DEADLOCK FALSE
