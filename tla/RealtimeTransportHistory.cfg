SPECIFICATION Spec
CONSTANTS
    Modes = {"flood", "drought"}
    FirstMode = "flood"
    Times = {past}
    Latest = Latest
    NoView = NoView
    NoSub = NoSub
    NoTimer = NoTimer
    NotAsked = NotAsked
    MaxHour = 1
    MaxClicks = 2
PROPERTY PushesSkipHistory
CHECK_DEADLOCK FALSE
