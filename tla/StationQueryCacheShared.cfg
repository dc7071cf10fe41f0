SPECIFICATION Spec
CONSTANTS
    Requests = {r1}
    Modes = {"flood"}
    MaxHour = 3
    Queried = {0, 1}
    Life = 1
    Capacity = 2
    DayOf <- MCDayOf
    Row <- MCRow
    Latest = Latest
    NoEntry = NoEntry
INVARIANT ExplicitAnswersItsHour
CHECK_DEADLOCK FALSE
