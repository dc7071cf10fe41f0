SPECIFICATION Spec
CONSTANTS
    Modes = {"flood", "drought"}
    FirstMode = "flood"
    Nothing = Nothing
    MaxSwitches = 3
    MaxDetails = 0
    Patience = 1
    OrderedHttp = TRUE
    MayRefuse = FALSE
INVARIANT PanelFollowsMode
CHECK_DEADLOCK FALSE
