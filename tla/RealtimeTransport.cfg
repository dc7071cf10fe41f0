SPECIFICATION Spec
CONSTANTS
    Modes = {"flood", "drought"}
    FirstMode = "flood"
    Times = {past}
    Latest = Latest
    NoView = NoView
    NoSub = NoSub
    NoTimer = NoTimer
    NotAsked = NotAsked
    MaxHour = 1
    MaxClicks = 3
INVARIANTS
    IInv
    OneSubscription
    OneHttpTimer
    RefreshArmed
PROPERTY HistoryIsQuiet
CHECK_DEADLOCK FALSE
