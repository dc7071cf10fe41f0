SPECIFICATION Spec
CONSTANTS
    Modes = {"flood", "drought"}
    FirstMode = "flood"
    Nothing = Nothing
    MaxSwitches = 2
    MaxDetails = 0
    Patience = 0
    OrderedHttp = FALSE
    MayRefuse = TRUE
INVARIANT IInv
PROPERTY PanelNeverGoesBack
CHECK_DEADLOCK FALSE
