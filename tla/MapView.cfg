SPECIFICATION Spec
CONSTANTS
    Modes = {"flood", "drought"}
    FirstMode = "flood"
    Stations = {s1, s2}
    Risks = {r1}
    Null = Null
    WebGL = TRUE
    MaxEvents = 3
SYMMETRY StationSymmetry
INVARIANT IInv ChartCanBeLeft CarefulInv ScreenMatchesView MapShowsFilter
CHECK_DEADLOCK FALSE
