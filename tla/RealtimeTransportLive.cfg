SPECIFICATION FairSpec
CONSTANTS
    Modes = {"flood", "drought"}
    FirstMode = "flood"
    Times = {past}
    Latest = Latest
    NoView = NoView
    NoSub = NoSub
    NoTimer = NoTimer
    NotAsked = NotAsked
    MaxHour = 2
    MaxClicks = 2
PROPERTY LatestLagsOneHour
CHECK_DEADLOCK FALSE
