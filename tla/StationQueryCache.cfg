SPECIFICATION Spec
CONSTANTS
    Requests = {r1, r2}
    Modes = {"flood", "drought"}
    MaxHour = 3
    Queried = {0}
    Life = 1
    Capacity = 2
    DayOf <- MCDayOf
    Row <- MCRow
    Latest = Latest
    NoEntry = NoEntry
INVARIANTS
    ModeIsolation
    LatestNeverFromEarlierDay
    HistoryIsExact
    IInv
SYMMETRY Threads
CHECK_DEADLOCK FALSE
