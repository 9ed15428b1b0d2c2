SPECIFICATION FairSpec
CONSTANTS
    Wins <- ThreeWins
    AppOf <- Owner
    Initially <- TermAndWeb
    Noone = none
    Unknown = "unknown"
    MaxSteps = 3
INVARIANTS OneOpinion GrabReleased ShownIsMapped MruIsFocusOrder
PROPERTY PressShows
CHECK_DEADLOCK FALSE
