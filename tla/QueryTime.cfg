SPECIFICATION Spec
CONSTANTS
    Months = 2
    Hours = 2
    CommonYear <- MCCommonYear
    LeapYear <- MCLeapYear
    Start <- MCStart
    Ranges <- MCRanges
    Null = Null
    Modes = {"flood", "drought"}
    FirstMode = "flood"
    MaxEvents = 6
INVARIANT IInv CardsFollowSelection SelectsSpellADate AnnouncedIsApplied
CHECK_DEADLOCK FALSE
