SPECIFICATION Spec
CONSTANTS
    Modes = {"flood", "drought"}
    FirstMode = "flood"
    Nothing = Nothing
    MaxSwitches = 4
    MaxDetails = 2
    Patience = 2
    OrderedHttp = TRUE
    MayRefuse = FALSE
INVARIANT SettledPanesAgree DetailFollowsMode
CHECK_DEADLOCK FALSE
