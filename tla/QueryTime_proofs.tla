-------------------------- MODULE QueryTime_proofs --------------------------
(***************************************************************************)
(* The time selector for any calendar, any ranges and any bound: what the  *)
(* selects spell is a time, and the time a quick action announces is the   *)
(* one that the button applies.                                            *)
(***************************************************************************)
EXTENDS QueryTime, FiniteSetTheorems, TLAPS

-----------------------------------------------------------------------------
\* The calendar.
LEMMA DaysInType == ASSUME NEW y, NEW m \in MonthNames PROVE DaysIn(y, m) \in Nat \ {0}
BY CalendarAssumption DEF DaysIn, MonthNames

LEMMA NextMonthType ==
    ASSUME NEW d \in Fields
    PROVE  NextMonth(d) \in Fields
<1>1. 1 \in MonthNames /\ (d.month < Months => d.month + 1 \in MonthNames)
    BY CalendarAssumption DEF Fields, MonthNames
<1>2. CASE d.month < Months
    BY <1>1, <1>2 DEF NextMonth, Fields
<1>3. CASE ~(d.month < Months)
    <2>1. d.year + 1 \in Int /\ d \in Fields
        BY DEF Fields
    <2>2. NextMonth(d) = [d EXCEPT !.month = 1, !.year = d.year + 1]
        BY <1>3, <2>1 DEF NextMonth, Fields
    <2> QED BY <1>1, <2>1, <2>2 DEF Fields
<1> QED BY <1>2, <1>3

LEMMA PrevMonthType ==
    ASSUME NEW d \in Fields
    PROVE  PrevMonth(d) \in Fields
<1>1. Months \in MonthNames /\ (d.month > 1 => d.month - 1 \in MonthNames)
    BY CalendarAssumption DEF Fields, MonthNames
<1>2. CASE d.month > 1
    BY <1>1, <1>2 DEF PrevMonth, Fields
<1>3. CASE ~(d.month > 1)
    <2>1. d.year - 1 \in Int /\ d \in Fields
        BY DEF Fields
    <2>2. PrevMonth(d) = [d EXCEPT !.month = Months, !.year = d.year - 1]
        BY <1>3, <2>1 DEF PrevMonth, Fields
    <2> QED BY <1>1, <2>1, <2>2 DEF Fields
<1> QED BY <1>2, <1>3

LEMMA NextDayType == ASSUME NEW d \in Dates PROVE NextDay(d) \in Dates
<1>1. NextMonth(d) \in Fields
    BY NextMonthType DEF Dates
<1>2. DaysIn(d.year, d.month) \in Nat \ {0}
    BY DaysInType DEF Dates, Fields
<1>3. DaysIn(NextMonth(d).year, NextMonth(d).month) \in Nat \ {0}
    BY <1>1, DaysInType DEF Fields
<1>4. CASE d.day < DaysIn(d.year, d.month)
    BY <1>2, <1>4 DEF NextDay, Dates, Fields
<1>5. CASE ~(d.day < DaysIn(d.year, d.month))
    BY <1>1, <1>3, <1>5 DEF NextDay, Dates, Fields
<1> QED BY <1>4, <1>5

LEMMA PrevDayType == ASSUME NEW d \in Dates PROVE PrevDay(d) \in Dates
<1>1. PrevMonth(d) \in Fields
    BY PrevMonthType DEF Dates
<1>2. DaysIn(d.year, d.month) \in Nat \ {0}
    BY DaysInType DEF Dates, Fields
<1>3. DaysIn(PrevMonth(d).year, PrevMonth(d).month) \in Nat \ {0}
    BY <1>1, DaysInType DEF Fields
<1>4. CASE d.day > 1
    BY <1>2, <1>4 DEF PrevDay, Dates, Fields
<1>5. CASE ~(d.day > 1)
    BY <1>1, <1>3, <1>5 DEF PrevDay, LastDay, Dates, Fields
<1> QED BY <1>4, <1>5

LEMMA PrevHourType == ASSUME NEW d \in Dates PROVE PrevHour(d) \in Dates
<1>1. CASE d.hour > 0
    <2>1. d.hour - 1 \in HourNames
        BY <1>1, CalendarAssumption DEF Dates, Fields, HourNames
    <2> QED BY <1>1, <2>1 DEF PrevHour, Dates, Fields
<1>2. CASE ~(d.hour > 0)
    <2>1. Hours - 1 \in HourNames
        BY CalendarAssumption DEF HourNames
    <2> QED BY <1>2, <2>1, PrevDayType DEF PrevHour, Dates, Fields
<1> QED BY <1>1, <1>2

LEMMA NextHourType == ASSUME NEW d \in Dates PROVE NextHour(d) \in Dates
<1>1. CASE d.hour < Hours - 1
    <2>1. d.hour + 1 \in HourNames
        BY <1>1, CalendarAssumption DEF Dates, Fields, HourNames
    <2> QED BY <1>1, <2>1 DEF NextHour, Dates, Fields
<1>2. CASE ~(d.hour < Hours - 1)
    <2>1. 0 \in HourNames
        BY CalendarAssumption DEF HourNames
    <2> QED BY <1>2, <2>1, NextDayType DEF NextHour, Dates, Fields
<1> QED BY <1>1, <1>2

\* A day of any month is a day of this month or, less its length, of the next.
LEMMA RolledType ==
    ASSUME NEW d \in Fields, NEW y, NEW m \in MonthNames, d.day \in 1 .. DaysIn(y, m)
    PROVE  Rolled(d) \in Dates
<1> DEFINE e == NextMonth(d)
<1>1. e \in Fields
    BY NextMonthType
<1>2. /\ DaysIn(y, m) \in Nat /\ DaysIn(d.year, d.month) \in Nat \ {0}
      /\ DaysIn(e.year, e.month) \in Nat \ {0}
    BY <1>1, DaysInType DEF Fields
<1>3. CASE d.day <= DaysIn(d.year, d.month)
    BY <1>2, <1>3 DEF Rolled, Dates, Fields
<1>4. CASE ~(d.day <= DaysIn(d.year, d.month))
    <2>1. DaysIn(y, m) <= DaysIn(d.year, d.month) + DaysIn(e.year, e.month)
        <3>1. DaysIn(y, m) <= 2 * DaysIn(d.year, d.month)
            BY MonthsAssumption DEF DaysIn, MonthNames, Fields
        <3>2. DaysIn(y, m) <= 2 * DaysIn(e.year, e.month)
            BY <1>1, MonthsAssumption DEF DaysIn, MonthNames, Fields
        <3> QED BY <1>2, <3>1, <3>2
    <2>2. d.day - DaysIn(d.year, d.month) \in 1 .. DaysIn(e.year, e.month)
        BY <1>2, <1>4, <2>1
    <2> QED BY <1>1, <1>2, <1>4, <2>2 DEF Rolled, Dates, Fields
<1> QED BY <1>3, <1>4

-----------------------------------------------------------------------------
\* The range.
LEMMA ClampType ==
    ASSUME NEW range \in Ranges \union {Null}, NEW d \in Dates
    PROVE  clampToAvailableRange(range, d) \in Dates
BY TimeAssumption DEF clampToAvailableRange

\* What is moved into a range stays, and its year is one of the range.
LEMMA ClampInRange ==
    ASSUME NEW range \in Ranges, NEW d \in Dates
    PROVE  LET c == clampToAvailableRange(range, d) IN
           /\ clampToAvailableRange(range, c) = c
           /\ c.year \in range.min.year .. range.max.year
<1>1. range.min \in Dates /\ range.max \in Dates /\ ~Before(range.max, range.min) /\ range # Null
    BY TimeAssumption
<1> USE DEF Before, Dates, Fields, MonthNames, HourNames
<1>2. CASE Before(d, range.min)
    <2>1. clampToAvailableRange(range, d) = range.min
        BY <1>1, <1>2 DEF clampToAvailableRange
    <2>2. ~Before(range.min, range.min)
        BY <1>1
    <2>3. clampToAvailableRange(range, range.min) = range.min
        BY <1>1, <2>2 DEF clampToAvailableRange
    <2>4. range.min.year \in range.min.year .. range.max.year
        BY <1>1
    <2> QED BY <2>1, <2>3, <2>4
<1>3. CASE ~Before(d, range.min) /\ Before(range.max, d)
    <2>1. clampToAvailableRange(range, d) = range.max
        BY <1>1, <1>3 DEF clampToAvailableRange
    <2>2. ~Before(range.max, range.max)
        BY <1>1
    <2>3. clampToAvailableRange(range, range.max) = range.max
        BY <1>1, <2>2 DEF clampToAvailableRange
    <2>4. range.max.year \in range.min.year .. range.max.year
        BY <1>1
    <2> QED BY <2>1, <2>3, <2>4
<1>4. CASE ~Before(d, range.min) /\ ~Before(range.max, d)
    <2>1. clampToAvailableRange(range, d) = d
        BY <1>4 DEF clampToAvailableRange
    <2>2. d.year \in range.min.year .. range.max.year
        BY <1>1, <1>4
    <2> QED BY <2>1, <2>2
<1> QED BY <1>2, <1>3, <1>4

-----------------------------------------------------------------------------
\* The selects.
NullIsNone == Null \notin Int /\ Null \notin Nat

LEMMA NullNot == NullIsNone
BY TimeAssumption DEF NullIsNone

\* The options of the day, and a day among them.
LEMMA DayOptions ==
    ASSUME NEW c \in Controls
    PROVE  /\ WithDayOptions(c) \in Controls
           /\ WithDayOptions(c) = [c EXCEPT !.days = WithDayOptions(c).days,
                                            !.day = WithDayOptions(c).day]
           /\ WithDayOptions(c).days = DaysIn(c.year, c.month)
           /\ WithDayOptions(c).day \in 1 .. WithDayOptions(c).days
<1> DEFINE days == DaysIn(c.year, c.month)
           day  == Lower(IF c.day = Null THEN 1 ELSE c.day, days)
<1>1. days \in Nat \ {0}
    BY DaysInType DEF Controls
<1>2. day \in 1 .. days /\ day \in Nat \ {0}
    BY <1>1 DEF Lower, Controls
<1>3. WithDayOptions(c) = [c EXCEPT !.days = days, !.day = day]
    BY DEF WithDayOptions
<1> HIDE DEF days, day
<1>4. WithDayOptions(c) \in Controls
    BY <1>1, <1>2, <1>3 DEF Controls
<1>5. WithDayOptions(c).days = days /\ WithDayOptions(c).day = day
    BY <1>3 DEF Controls
<1> QED BY <1>2, <1>3, <1>4, <1>5 DEF days

LEMMA YearOptionsType ==
    ASSUME NEW c \in Controls, NEW range \in Ranges \union {Null}, NEW d \in Dates
    PROVE  /\ YearOptions(c, range, d) \in SUBSET Int
           /\ YearOptions(c, range, d) # {}
<1>1. range # Null => range.min \in Dates /\ range.max \in Dates /\ ~Before(range.max, range.min)
    BY TimeAssumption
<1>2. range # Null => /\ range.min.year .. range.max.year \in SUBSET Int
                      /\ range.min.year \in range.min.year .. range.max.year
    BY <1>1 DEF Before, Dates, Fields
<1>3. d.year \in Int
    BY DEF Dates, Fields
<1> QED BY <1>2, <1>3 DEF YearOptions, Controls

\* What populateControls leaves in the selects.
LEMMA PopulatedType ==
    ASSUME NEW c \in Controls, NEW range \in Ranges \union {Null}, NEW base \in Dates
    PROVE  LET p == Populated(c, range, base)
               d == clampToAvailableRange(range, base)
           IN  /\ p \in Controls
               /\ p.years = YearOptions(c, range, d) /\ p.years # {}
               /\ p.year = Select(d.year, p.years)
               /\ p.month = d.month /\ p.hour = d.hour
               /\ p.days = DaysIn(p.year, p.month)
               /\ p.day = Select(d.day, 1 .. p.days)
<1> DEFINE d     == clampToAvailableRange(range, base)
           years == YearOptions(c, range, d)
           e     == [c EXCEPT !.years = years, !.year = Select(d.year, years),
                              !.month = d.month]
           m     == WithDayOptions(e)
           day   == Select(d.day, 1 .. m.days)
           p     == Populated(c, range, base)
<1>1. d \in Dates
    BY ClampType
<1>2. years \in SUBSET Int /\ years # {}
    BY <1>1, YearOptionsType
<1>3. Select(d.year, years) \in Int \union {Null} /\ d.month \in MonthNames
    BY <1>1, <1>2 DEF Select, Dates, Fields
<1>4. e \in Controls /\ e.years = years /\ e.year = Select(d.year, years) /\ e.month = d.month
    BY <1>2, <1>3 DEF Controls
<1>5. /\ m \in Controls /\ m.years = years /\ m.year = e.year /\ m.month = d.month
      /\ m.days = DaysIn(e.year, e.month)
    BY <1>4, DayOptions DEF Controls
<1>6. day \in (Nat \ {0}) \union {Null} /\ d.hour \in HourNames
    BY <1>1, <1>5 DEF Select, Dates, Fields, Controls
<1>7. p = [m EXCEPT !.day = day, !.hour = d.hour]
    BY DEF Populated, WithMonth
<1> HIDE DEF p, d, years, e, m, day
<1>8. /\ p \in Controls /\ p.years = m.years /\ p.year = m.year /\ p.month = m.month
      /\ p.days = m.days /\ p.day = day /\ p.hour = d.hour
    BY <1>5, <1>6, <1>7 DEF Controls
<1>9. day = Select(d.day, 1 .. m.days) /\ e.month = d.month
    BY <1>4 DEF day
<1> QED BY <1>2, <1>4, <1>5, <1>8, <1>9 DEF p, d, years

\* Within a range every part of the time has its option.
LEMMA PopulatedSpells ==
    ASSUME NEW c \in Controls, NEW range \in Ranges, NEW base \in Dates,
           c.years # {} => c.years = range.min.year .. range.max.year
    PROVE  LET p == Populated(c, range, base)
           IN  /\ p.years = range.min.year .. range.max.year
               /\ Spelled(p) = clampToAvailableRange(range, base)
<1> DEFINE d == clampToAvailableRange(range, base)
           p == Populated(c, range, base)
<1>1. d \in Dates /\ d.year \in range.min.year .. range.max.year
    BY ClampType, ClampInRange
<1>2. range # Null
    BY TimeAssumption
<1>3. YearOptions(c, range, d) = range.min.year .. range.max.year
    BY <1>2 DEF YearOptions
<1>4. /\ p.years = YearOptions(c, range, d) /\ p.year = Select(d.year, p.years)
      /\ p.month = d.month /\ p.hour = d.hour /\ p.days = DaysIn(p.year, p.month)
      /\ p.day = Select(d.day, 1 .. p.days)
    BY PopulatedType
<1>5. p.year = d.year
    BY <1>1, <1>3, <1>4 DEF Select
<1>6. p.day = d.day
    BY <1>1, <1>4, <1>5 DEF Select, Dates
<1>7. d = [year |-> d.year, month |-> d.month, day |-> d.day, hour |-> d.hour]
    BY <1>1 DEF Dates, Fields
<1> QED BY <1>3, <1>4, <1>5, <1>6, <1>7 DEF Spelled

\* What the button reads: a time; the one that is spelled, if one is.
LEMMA BuildType ==
    ASSUME NEW c \in Controls, NEW now \in Dates,
           c.days = DaysIn(c.year, c.month), c.day # Null => c.day <= c.days
    PROVE  buildDateFromControls(c, now) \in Dates
<1> DEFINE d == [year  |-> IF c.year = Null THEN now.year ELSE c.year,
                 month |-> c.month,
                 day   |-> IF c.day = Null THEN now.day ELSE c.day,
                 hour  |-> c.hour]
<1>1. d \in Fields
    BY DEF Controls, Dates, Fields
<1>2. CASE c.day = Null
    <2>1. d.day \in 1 .. DaysIn(now.year, now.month) /\ now.month \in MonthNames
        BY <1>2 DEF Dates, Fields
    <2> QED BY <1>1, <2>1, RolledType DEF buildDateFromControls
<1>3. CASE c.day # Null
    <2>1. c.days \in Nat /\ c.day \in Nat \ {0} /\ c.day <= c.days /\ c.month \in MonthNames
        BY <1>3 DEF Controls
    <2>2. d.day \in 1 .. DaysIn(c.year, c.month)
        BY <1>3, <2>1
    <2> QED BY <1>1, <2>1, <2>2, RolledType DEF buildDateFromControls
<1> QED BY <1>2, <1>3

LEMMA BuildIsSpelled ==
    ASSUME NEW c, NEW now, Spelled(c) \in Dates
    PROVE  buildDateFromControls(c, now) = Spelled(c)
<1>1. c.year # Null /\ c.day # Null
    BY NullNot DEF NullIsNone, Spelled, Dates, Fields
<1>2. buildDateFromControls(c, now) = Rolled(Spelled(c))
    BY <1>1 DEF buildDateFromControls, Spelled
<1>3. Spelled(c).day <= DaysIn(Spelled(c).year, Spelled(c).month)
    <2>1. Spelled(c).day \in 1 .. DaysIn(Spelled(c).year, Spelled(c).month)
        BY DEF Dates
    <2>2. DaysIn(Spelled(c).year, Spelled(c).month) \in Nat
        BY DaysInType DEF Dates, Fields
    <2> QED BY <2>1, <2>2
<1> QED BY <1>2, <1>3 DEF Rolled

-----------------------------------------------------------------------------
\* The requests.
PendingTyped == pending \subseteq Requests /\ IsFiniteSet(pending)

LEMMA RequestType ==
    ASSUME PendingTyped, NEW kind \in Kinds, NEW m \in Modes, NEW time \in Times
    PROVE  Request(kind, m, time) \in Requests /\ Request(kind, m, time).kind = kind
<1> DEFINE r == [kind |-> kind, mode |-> m, time |-> time, n |-> 0]
<1>1. IsFiniteSet(Twins(r))
    BY FS_Subset DEF Twins, PendingTyped
<1>2. Cardinality(Twins(r)) \in Nat
    BY <1>1, FS_CardinalityType
<1> QED BY <1>2 DEF Request, Requests

LEMMA PendingGrows ==
    ASSUME PendingTyped, RangeOnce, NEW old, NEW a \in Requests, a.kind # "range",
           pending' = (pending \ old) \union {a}, UNCHANGED controlsInitialized
    PROVE  PendingTyped' /\ RangeOnce'
<1>1. IsFiniteSet(pending \ old) /\ IsFiniteSet({a})
    BY FS_Subset, FS_Singleton DEF PendingTyped
<1>2. PendingTyped'
    BY <1>1, FS_Union DEF PendingTyped
<1>3. RangeOnce'
    BY DEF RangeOnce
<1> QED BY <1>2, <1>3

LEMMA PendingShrinks ==
    ASSUME PendingTyped, NEW old, pending' = pending \ old
    PROVE  PendingTyped'
BY FS_Subset DEF PendingTyped

\* The invariant in parts.
PageTypes ==
    /\ currentMode \in Modes /\ dataMode \in Modes
    /\ cards \in [mode : Modes, time : Times]
    /\ careful \in BOOLEAN
    /\ events \in Nat

PickerInv ==
    /\ NothingYet /\ OptionsFit /\ StatusTells /\ SelectedInRange
    /\ SelectsSpellADate /\ AnnouncedIsApplied

LEMMA IInvParts ==
    IInv <=> PickerTypes /\ PageTypes /\ PendingTyped /\ RangeOnce /\ PickerInv
BY DEF IInv, TypeOK, PickerTypes, PageTypes, PendingTyped, PickerInv

LEMMA IInvPartsNext ==
    ASSUME PickerTypes', PageTypes', PendingTyped', RangeOnce', PickerInv'
    PROVE  IInv'
BY DEF IInv, TypeOK, PickerTypes, PageTypes, PendingTyped, PickerInv

LEMMA InitIInv == Init => IInv
<1> SUFFICES ASSUME Init PROVE IInv
    OBVIOUS
<1> USE TimeAssumption DEF Init
<1>1. NoControls \in Controls
    <2>1. 1 \in MonthNames /\ 0 \in HourNames
        BY CalendarAssumption DEF MonthNames, HourNames
    <2> QED BY <2>1 DEF NoControls, Controls
<1>2. PickerTypes
    BY <1>1 DEF PickerTypes, Times, Statuses, Latest
<1>3. PageTypes
    BY DEF PageTypes, Times
<1>4. RangeRequest \in Requests
    BY DEF RangeRequest, Requests, Kinds, Times
<1>5. PendingTyped
    BY <1>4, FS_Singleton DEF PendingTyped
<1>6. RangeOnce /\ PickerInv
    BY DEF RangeOnce, PickerInv, NothingYet, OptionsFit, StatusTells, SelectedInRange,
           SelectsSpellADate, AnnouncedIsApplied, Latest
<1> QED BY <1>2, <1>3, <1>5, <1>6, IInvParts

-----------------------------------------------------------------------------
\* Times at hand.
LEMMA BaseType == ASSUME PickerTypes PROVE BaseDate \in Dates
BY DEF PickerTypes, BaseDate, Times

LEMMA StatusType ==
    ASSUME NEW time \in Times
    PROVE  /\ ShownStatus(time) \in Statuses
           /\ ShownStatus(time).kind \in {"latest", "shown"}
           /\ ShownStatus(time).kind = "shown" => ShownStatus(time).time = time
           /\ ShownStatus(time).kind = "latest" => time = Null
BY DEF ShownStatus, Statuses, Latest, Times

\* The selects filled in for a time.
LEMMA FilledIn ==
    ASSUME PickerTypes, OptionsFit, controlsInitialized, NEW base \in Dates,
           populateControls(base), UNCHANGED <<availableQueryTimeRange, controlsInitialized>>
    PROVE  /\ controls' \in Controls
           /\ OptionsFit' /\ SelectsSpellADate'
           /\ availableQueryTimeRange # Null =>
                  Spelled(controls') = clampToAvailableRange(availableQueryTimeRange, base)
<1> DEFINE range == availableQueryTimeRange
           p     == Populated(controls, range, base)
<1>1. controls' = p /\ controls \in Controls /\ range \in Ranges \union {Null}
    BY DEF populateControls, PickerTypes
<1>2. /\ p \in Controls /\ p.years # {} /\ p.days = DaysIn(p.year, p.month)
      /\ p.day = Select(p.day, 1 .. p.days)
    BY <1>1, PopulatedType DEF Select
<1>3. p.day # Null => p.day <= p.days
    BY <1>2 DEF Select, Controls
<1>4. range # Null => /\ p.years = range.min.year .. range.max.year
                      /\ Spelled(p) = clampToAvailableRange(range, base)
                      /\ clampToAvailableRange(range, base) \in Dates
    BY <1>1, PopulatedSpells, ClampType DEF OptionsFit
<1> QED BY <1>1, <1>2, <1>3, <1>4 DEF OptionsFit, SelectsSpellADate

LEMMA OpenPanelStep == ASSUME IInv, OpenPanel PROVE IInv'
<1> USE DEF OpenPanel, pageVars
<1>1. PickerTypes /\ PageTypes /\ PendingTyped /\ RangeOnce /\ PickerInv
    BY IInvParts
<1>2. controls' \in Controls /\ OptionsFit' /\ SelectsSpellADate'
    BY <1>1, BaseType, FilledIn DEF PickerInv
<1>3. PickerTypes'
    BY <1>1, <1>2 DEF PickerTypes
<1>4. PageTypes'
    BY <1>1 DEF PageTypes, Event
<1>5. PendingTyped' /\ RangeOnce'
    BY <1>1 DEF PendingTyped, RangeOnce
<1>6. NothingYet' /\ StatusTells' /\ SelectedInRange' /\ AnnouncedIsApplied'
    BY <1>1 DEF PickerInv, NothingYet, StatusTells, SelectedInRange, AnnouncedIsApplied
<1> QED BY <1>2, <1>3, <1>4, <1>5, <1>6, IInvPartsNext DEF PickerInv

LEMMA ClosePanelStep == ASSUME IInv, ClosePanel PROVE IInv'
<1> USE DEF ClosePanel, pageVars
<1>1. PickerTypes /\ PageTypes /\ PendingTyped /\ RangeOnce /\ PickerInv
    BY IInvParts
<1>2. PickerTypes' /\ PageTypes'
    BY <1>1 DEF PickerTypes, PageTypes
<1>3. PendingTyped' /\ RangeOnce'
    BY <1>1 DEF PendingTyped, RangeOnce
<1>4. PickerInv'
    BY <1>1 DEF PickerInv, NothingYet, OptionsFit, StatusTells, SelectedInRange,
                SelectsSpellADate, AnnouncedIsApplied
<1> QED BY <1>2, <1>3, <1>4, IInvPartsNext

\* A quick action announces what the selects then spell.
LEMMA QuickStepStep == ASSUME IInv, NEW next \in Dates, QuickStep(next) PROVE IInv'
<1> USE DEF QuickStep, pageVars
<1> DEFINE range == availableQueryTimeRange
           d     == clampToAvailableRange(range, next)
<1>1. PickerTypes /\ PageTypes /\ PendingTyped /\ RangeOnce /\ PickerInv
    BY IInvParts
<1>2. controlsInitialized
    BY <1>1 DEF PickerInv, NothingYet
<1>3. /\ controls' \in Controls /\ OptionsFit' /\ SelectsSpellADate'
      /\ range # Null => Spelled(controls') = d
    BY <1>1, <1>2, FilledIn DEF PickerInv
<1>4. d \in Dates /\ status' \in Statuses /\ status'.time = d
      /\ status'.kind \in {"pending", "moved"}
    BY <1>1, ClampType DEF PickerTypes, Statuses, Times
<1>5. PickerTypes'
    BY <1>1, <1>3, <1>4 DEF PickerTypes
<1>6. PageTypes'
    BY <1>1 DEF PageTypes, Event
<1>7. PendingTyped' /\ RangeOnce'
    BY <1>1 DEF PendingTyped, RangeOnce
<1>8. AnnouncedIsApplied'
    <2>1. SUFFICES ASSUME range # Null
                   PROVE  clampToAvailableRange(range, buildDateFromControls(controls', clock))
                              = status'.time
        BY DEF AnnouncedIsApplied
    <2>2. buildDateFromControls(controls', clock) = d
        BY <1>3, <1>4, <2>1, BuildIsSpelled
    <2>3. clampToAvailableRange(range, d) = d
        BY <1>1, <2>1, ClampInRange DEF PickerTypes
    <2> QED BY <1>4, <2>2, <2>3
<1>9. NothingYet' /\ StatusTells' /\ SelectedInRange'
    BY <1>1, <1>2, <1>4 DEF PickerInv, NothingYet, StatusTells, SelectedInRange
<1> QED BY <1>3, <1>5, <1>6, <1>7, <1>8, <1>9, IInvPartsNext DEF PickerInv

-----------------------------------------------------------------------------
\* Selects set by hand keep their options, and stay full when they were.
LEMMA ByHandStep ==
    ASSUME IInv, NEW c \in Controls, ByHand(c),
           c.years = controls.years, c.days = DaysIn(c.year, c.month),
           c.day # Null => c.day <= c.days,
           Spelled(controls) \in Dates => Spelled(c) \in Dates
    PROVE  IInv'
<1> USE DEF ByHand, pageVars
<1>1. PickerTypes /\ PageTypes /\ PendingTyped /\ RangeOnce /\ PickerInv
    BY IInvParts
<1>2. PickerTypes' /\ PageTypes'
    BY <1>1 DEF PickerTypes, PageTypes, Event
<1>3. PendingTyped' /\ RangeOnce'
    BY <1>1 DEF PendingTyped, RangeOnce
<1>4. OptionsFit' /\ SelectsSpellADate'
    BY <1>1 DEF PickerInv, OptionsFit, SelectsSpellADate
<1>5. NothingYet' /\ StatusTells' /\ SelectedInRange' /\ AnnouncedIsApplied'
    BY <1>1 DEF PickerInv, NothingYet, StatusTells, SelectedInRange, AnnouncedIsApplied
<1> QED BY <1>2, <1>3, <1>4, <1>5, IInvPartsNext DEF PickerInv

\* A year or a month brings its days with it.
LEMMA OtherDays ==
    ASSUME IInv, NEW c \in Controls, ByHand(WithDayOptions(c)), c.years = controls.years,
           c.hour = controls.hour, Spelled(controls) \in Dates => c.year \in Int
    PROVE  IInv'
<1> DEFINE days == DaysIn(c.year, c.month)
           w == WithDayOptions(c)
<1>0. PICK day : w = [c EXCEPT !.days = days, !.day = day]
    BY DEF WithDayOptions
<1>a. /\ w.years = c.years /\ w.year = c.year /\ w.month = c.month /\ w.hour = c.hour
      /\ w.days = days
    <2> HIDE DEF w
    <2> QED BY <1>0 DEF Controls
<1>b. w \in Controls /\ w.day \in 1 .. w.days
    BY DayOptions DEF Controls
<1>1. /\ w \in Controls /\ w.years = controls.years /\ w.year = c.year /\ w.month = c.month
      /\ w.hour = c.hour /\ w.days = DaysIn(w.year, w.month) /\ w.day \in 1 .. w.days
    <2> HIDE DEF w
    <2> QED BY <1>a, <1>b
<1>2. w.day # Null => w.day <= w.days
    BY <1>1 DEF Controls
<1>3. c.year \in Int => Spelled(w) \in Dates
    BY <1>1 DEF Spelled, Dates, Fields, Controls
<1> HIDE DEF w
<1>4. ByHand(w)
    BY DEF w
<1> QED BY <1>1, <1>2, <1>3, <1>4, ByHandStep

LEMMA ChangeStep ==
    ASSUME IInv,
           \/ \E y \in controls.years : ChangeYear(y)
           \/ \E m \in MonthNames : ChangeMonth(m)
           \/ \E d \in 1 .. controls.days : ChangeDay(d)
           \/ \E h \in HourNames : ChangeHour(h)
    PROVE  IInv'
<1>1. controls \in Controls /\ OptionsFit /\ NothingYet
    BY IInvParts DEF PickerTypes, PickerInv
<1>2. ASSUME NEW y \in controls.years, ChangeYear(y) PROVE IInv'
    <2> DEFINE c == [controls EXCEPT !.year = y]
    <2>1. y \in Int
        BY <1>1 DEF Controls
    <2>2. c \in Controls /\ c.years = controls.years /\ c.hour = controls.hour /\ c.year = y
        BY <1>1, <2>1 DEF Controls
    <2> QED BY <1>2, <2>1, <2>2, OtherDays DEF ChangeYear
<1>3. ASSUME NEW m \in MonthNames, ChangeMonth(m) PROVE IInv'
    <2> DEFINE c == [controls EXCEPT !.month = m]
    <2>1. /\ c \in Controls /\ c.years = controls.years /\ c.hour = controls.hour
          /\ c.year = controls.year
        BY <1>1 DEF Controls
    <2>2. Spelled(controls) \in Dates => c.year \in Int
        BY <2>1 DEF Spelled, Dates, Fields
    <2> QED BY <1>3, <2>1, <2>2, OtherDays DEF ChangeMonth
<1>4. ASSUME NEW d \in 1 .. controls.days, ChangeDay(d) PROVE IInv'
    <2> DEFINE c == [controls EXCEPT !.day = d]
    <2>1. controlsInitialized
        BY <1>1, <1>4 DEF NothingYet, ChangeDay, ByHand
    <2>2. d \in Nat \ {0} /\ d <= controls.days /\ controls.days = DaysIn(controls.year, controls.month)
        BY <1>1, <2>1 DEF Controls, OptionsFit
    <2>3. /\ c \in Controls /\ c.years = controls.years /\ c.hour = controls.hour
          /\ c.year = controls.year /\ c.month = controls.month /\ c.days = controls.days
          /\ c.day = d
        BY <1>1, <2>2 DEF Controls
    <2>4. Spelled(controls) \in Dates => Spelled(c) \in Dates
        BY <2>2, <2>3 DEF Spelled, Dates, Fields
    <2> HIDE DEF c
    <2>5. ByHand(c)
        BY <1>4 DEF ChangeDay, c
    <2> QED BY <2>2, <2>3, <2>4, <2>5, ByHandStep
<1>5. ASSUME NEW h \in HourNames, ChangeHour(h) PROVE IInv'
    <2> DEFINE c == [controls EXCEPT !.hour = h]
    <2>1. controlsInitialized
        BY <1>1, <1>5 DEF NothingYet, ChangeHour, ByHand
    <2>2. /\ controls.days = DaysIn(controls.year, controls.month)
          /\ controls.day # Null => controls.day <= controls.days
        BY <1>1, <2>1 DEF OptionsFit
    <2>3. /\ c \in Controls /\ c.years = controls.years
          /\ c.year = controls.year /\ c.month = controls.month /\ c.days = controls.days
          /\ c.day = controls.day /\ c.hour = h
        BY <1>1 DEF Controls
    <2>4. Spelled(controls) \in Dates => Spelled(c) \in Dates
        BY <2>3 DEF Spelled, Dates, Fields
    <2> HIDE DEF c
    <2>5. ByHand(c)
        BY <1>5 DEF ChangeHour, c
    <2> QED BY <2>2, <2>3, <2>4, <2>5, ByHandStep
<1> QED BY <1>2, <1>3, <1>4, <1>5

\* Selecting a time, or the latest.
LEMMA SelectStep ==
    ASSUME PickerTypes, PageTypes, PendingTyped, RangeOnce, NEW time \in Times,
           setSelectedQueryTime(time), UNCHANGED controlsInitialized
    PROVE  /\ selectedQueryTime' \in Times /\ status' \in Statuses /\ panelOpen' \in BOOLEAN
           /\ status'.kind \in {"latest", "shown"} /\ StatusTells'
           /\ PendingTyped' /\ RangeOnce'
<1> USE DEF setSelectedQueryTime
<1>1. Request("event", currentMode, Null) \in Requests
      /\ Request("event", currentMode, Null).kind = "event"
    BY RequestType DEF PageTypes, Kinds, Times
<1>2. PendingTyped' /\ RangeOnce'
    <2>1. pending' = (pending \ {}) \union {Request("event", currentMode, Null)}
        OBVIOUS
    <2> QED BY <1>1, <2>1, PendingGrows
<1>3. status' \in Statuses /\ status'.kind \in {"latest", "shown"} /\ StatusTells'
    BY StatusType DEF StatusTells
<1> QED BY <1>2, <1>3

LEMMA QuickLatestStep == ASSUME IInv, QuickLatest PROVE IInv'
<1> USE DEF QuickLatest, pageVars
<1>1. PickerTypes /\ PageTypes /\ PendingTyped /\ RangeOnce /\ PickerInv
    BY IInvParts
<1>2. controlsInitialized
    BY <1>1 DEF PickerInv, NothingYet
<1>3. /\ selectedQueryTime' \in Times /\ status' \in Statuses /\ panelOpen' \in BOOLEAN
      /\ status'.kind \in {"latest", "shown"} /\ StatusTells'
      /\ PendingTyped' /\ RangeOnce'
    BY <1>1, SelectStep DEF Times
<1>4. controls' \in Controls /\ OptionsFit' /\ SelectsSpellADate'
    BY <1>1, <1>2, FilledIn DEF PickerInv, PickerTypes
<1>5. PickerTypes'
    BY <1>1, <1>3, <1>4 DEF PickerTypes
<1>6. PageTypes'
    <2>1. careful' \in BOOLEAN /\ events' \in Nat
        BY <1>1 DEF PageTypes, Patient, Event
    <2> QED BY <1>1, <2>1 DEF PageTypes
<1>7. NothingYet' /\ SelectedInRange' /\ AnnouncedIsApplied'
    BY <1>2, <1>3 DEF NothingYet, SelectedInRange, AnnouncedIsApplied, setSelectedQueryTime
<1> QED BY <1>3, <1>4, <1>5, <1>6, <1>7, IInvPartsNext DEF PickerInv

LEMMA ApplyStep == ASSUME IInv, Apply PROVE IInv'
<1> USE DEF Apply, pageVars
<1> DEFINE range == availableQueryTimeRange
           d     == buildDateFromControls(controls, clock)
           time  == clampToAvailableRange(range, d)
<1>1. PickerTypes /\ PageTypes /\ PendingTyped /\ RangeOnce /\ PickerInv
    BY IInvParts
<1>2. controlsInitialized
    BY <1>1 DEF PickerInv, NothingYet
<1>3. d \in Dates
    BY <1>1, <1>2, BuildType DEF PickerInv, OptionsFit, PickerTypes
<1>4. time \in Dates
    BY <1>1, <1>3, ClampType DEF PickerTypes
<1>5. range # Null => clampToAvailableRange(range, time) = time
    BY <1>1, <1>3, ClampInRange DEF PickerTypes
<1>6. /\ selectedQueryTime' \in Times /\ status' \in Statuses /\ panelOpen' \in BOOLEAN
      /\ status'.kind \in {"latest", "shown"} /\ StatusTells'
      /\ PendingTyped' /\ RangeOnce'
    BY <1>1, <1>4, SelectStep DEF Times
<1>7. PickerTypes'
    BY <1>1, <1>6 DEF PickerTypes
<1>8. PageTypes'
    <2>1. careful' \in BOOLEAN /\ events' \in Nat
        BY <1>1 DEF PageTypes, Patient, Event
    <2> QED BY <1>1, <2>1 DEF PageTypes
<1>9. SelectedInRange'
    BY <1>5 DEF SelectedInRange, setSelectedQueryTime
<1>10. NothingYet' /\ OptionsFit' /\ SelectsSpellADate' /\ AnnouncedIsApplied'
    BY <1>1, <1>2, <1>6 DEF PickerInv, NothingYet, OptionsFit, SelectsSpellADate,
                            AnnouncedIsApplied
<1> QED BY <1>6, <1>7, <1>8, <1>9, <1>10, IInvPartsNext DEF PickerInv

\* The range comes once, before anything is selected.
LEMMA RangeStep == ASSUME IInv, NEW r \in pending, RangeAnswered(r) PROVE IInv'
<1> USE DEF RangeAnswered, pageVars
<1>1. PickerTypes /\ PageTypes /\ PendingTyped /\ RangeOnce /\ PickerInv
    BY IInvParts
<1>2. r = RangeRequest /\ ~controlsInitialized
    BY <1>1 DEF RangeOnce
<1>3. selectedQueryTime = Null /\ controls = NoControls /\ controls \in Controls
    BY <1>1, <1>2 DEF PickerInv, NothingYet, PickerTypes
<1>4. PICK range \in Ranges \union {Null} : /\ availableQueryTimeRange' = range
                                            /\ controls' = Populated(controls, range, clock)
    OBVIOUS
<1>5. /\ controls' \in Controls /\ controls'.years # {}
      /\ controls'.days = DaysIn(controls'.year, controls'.month)
      /\ controls'.day = Select(controls'.day, 1 .. controls'.days)
    BY <1>1, <1>3, <1>4, PopulatedType DEF PickerTypes, Select
<1>6. controls'.day # Null => controls'.day <= controls'.days
    BY <1>5 DEF Select, Controls
<1>7. range # Null => /\ controls'.years = range.min.year .. range.max.year
                      /\ Spelled(controls') \in Dates
    <2>1. controls.years = {}
        BY <1>3 DEF NoControls
    <2> QED BY <1>1, <1>3, <1>4, <2>1, PopulatedSpells, ClampType DEF PickerTypes
<1>8. PickerTypes'
    BY <1>1, <1>4, <1>5 DEF PickerTypes, Latest, Statuses, Times
<1>9. PageTypes'
    BY <1>1 DEF PageTypes
<1>10. PendingTyped' /\ RangeOnce'
    BY <1>1, <1>2, PendingShrinks DEF RangeOnce
<1>11. OptionsFit' /\ SelectsSpellADate'
    BY <1>4, <1>5, <1>6, <1>7 DEF OptionsFit, SelectsSpellADate
<1>12. NothingYet' /\ StatusTells' /\ SelectedInRange' /\ AnnouncedIsApplied'
    BY <1>3 DEF NothingYet, StatusTells, SelectedInRange, AnnouncedIsApplied, Latest
<1> QED BY <1>8, <1>9, <1>10, <1>11, <1>12, IInvPartsNext DEF PickerInv

-----------------------------------------------------------------------------
\* The page: it leaves the selector alone, but for the status and the clock.
LEMMA PickerUntouched ==
    ASSUME PickerTypes, PickerInv, UNCHANGED <<selectedQueryTime, pickerVars, status, clock>>
    PROVE  PickerTypes' /\ PickerInv'
BY DEF pickerVars, PickerTypes, PickerInv, NothingYet, OptionsFit, StatusTells,
       SelectedInRange, SelectsSpellADate, AnnouncedIsApplied

LEMMA PageStep ==
    ASSUME IInv,
           \/ \E r \in pending : EventAnswered(r) \/ FinishSwitch(r)
           \/ \E m \in Modes : SwitchMode(m)
    PROVE  IInv'
<1>1. PickerTypes /\ PageTypes /\ PendingTyped /\ RangeOnce /\ PickerInv
    BY IInvParts
<1>2. ASSUME NEW r \in pending, EventAnswered(r) \/ FinishSwitch(r) PROVE IInv'
    <2> USE <1>2 DEF EventAnswered, FinishSwitch, pageVars
    <2>1. r.mode \in Modes /\ selectedQueryTime \in Times
        BY <1>1 DEF PendingTyped, Requests, PickerTypes
    <2>2. CardRequest(r.mode, selectedQueryTime) \in Requests
          /\ CardRequest(r.mode, selectedQueryTime).kind = "card"
        BY <1>1, <2>1, RequestType DEF CardRequest, Kinds
    <2>3. PendingTyped' /\ RangeOnce'
        BY <1>1, <2>2, PendingGrows DEF pickerVars
    <2>4. PageTypes'
        BY <1>1, <2>1 DEF PageTypes
    <2> QED BY <1>1, <2>3, <2>4, PickerUntouched, IInvPartsNext
<1>3. ASSUME NEW m \in Modes, SwitchMode(m) PROVE IInv'
    <2> USE <1>3 DEF SwitchMode
    <2>1. Request("switch", m, Null) \in Requests /\ Request("switch", m, Null).kind = "switch"
        BY <1>1, RequestType DEF Kinds, Times
    <2>2. pending' = (pending \ {}) \union {Request("switch", m, Null)}
        OBVIOUS
    <2>3. PendingTyped' /\ RangeOnce'
        BY <1>1, <2>1, <2>2, PendingGrows DEF pickerVars
    <2>4. PageTypes'
        <3>1. careful' \in BOOLEAN /\ events' \in Nat
            BY <1>1 DEF PageTypes, Patient, Event
        <3> QED BY <1>1, <3>1 DEF PageTypes
    <2> QED BY <1>1, <2>3, <2>4, PickerUntouched, IInvPartsNext
<1> QED BY <1>2, <1>3

\* The selects spell the time by themselves, so that an hour that passes while
\* the panel is open changes nothing.
LEMMA HourStep == ASSUME IInv, HourPasses PROVE IInv'
<1> USE DEF HourPasses, pickerVars, pageVars
<1>1. PickerTypes /\ PageTypes /\ PendingTyped /\ RangeOnce /\ PickerInv
    BY IInvParts
<1>2. PickerTypes'
    BY <1>1, NextHourType DEF PickerTypes
<1>3. PageTypes'
    BY <1>1 DEF PageTypes, Event
<1>4. CardRequest(dataMode, selectedQueryTime) \in Requests
      /\ CardRequest(dataMode, selectedQueryTime).kind = "card"
    BY <1>1, RequestType DEF CardRequest, Kinds, PageTypes, PickerTypes
<1>5. pending' = (pending \ {}) \union {CardRequest(dataMode, selectedQueryTime)}
    OBVIOUS
<1>6. PendingTyped' /\ RangeOnce'
    BY <1>1, <1>4, <1>5, PendingGrows
<1>7. AnnouncedIsApplied'
    <2>1. availableQueryTimeRange # Null => Spelled(controls) \in Dates
        BY <1>1 DEF PickerInv, NothingYet, SelectsSpellADate
    <2>2. availableQueryTimeRange # Null =>
              buildDateFromControls(controls, clock') = buildDateFromControls(controls, clock)
        BY <2>1, BuildIsSpelled
    <2> QED BY <1>1, <2>2 DEF PickerInv, AnnouncedIsApplied
<1>8. NothingYet' /\ OptionsFit' /\ StatusTells' /\ SelectedInRange' /\ SelectsSpellADate'
    BY <1>1 DEF PickerInv, NothingYet, OptionsFit, StatusTells, SelectedInRange,
                SelectsSpellADate
<1> QED BY <1>2, <1>3, <1>6, <1>7, <1>8, IInvPartsNext DEF PickerInv

LEMMA CardsStep == ASSUME IInv, NEW r \in pending, CardsAnswered(r) PROVE IInv'
<1> USE DEF CardsAnswered, pickerVars
<1>1. PickerTypes /\ PageTypes /\ PendingTyped /\ RangeOnce /\ PickerInv
    BY IInvParts
<1>2. PageTypes'
    <2>1. [mode |-> r.mode, time |-> r.time] \in [mode : Modes, time : Times]
        BY <1>1 DEF PendingTyped, Requests
    <2>2. careful' \in BOOLEAN /\ cards' \in [mode : Modes, time : Times]
        BY <1>1, <2>1 DEF PageTypes
    <2> QED BY <1>1, <2>2 DEF PageTypes
<1>3. PendingTyped' /\ RangeOnce'
    BY <1>1, PendingShrinks DEF RangeOnce
<1>4. status' = status \/ status' = ShownStatus(selectedQueryTime)
    OBVIOUS
<1>5. /\ ShownStatus(selectedQueryTime) \in Statuses
      /\ ShownStatus(selectedQueryTime).kind \in {"latest", "shown"}
      /\ ShownStatus(selectedQueryTime).kind = "shown" =>
             ShownStatus(selectedQueryTime).time = selectedQueryTime
      /\ ShownStatus(selectedQueryTime).kind = "latest" => selectedQueryTime = Null
    BY <1>1, StatusType DEF PickerTypes
<1>6. PickerTypes'
    BY <1>1, <1>4, <1>5 DEF PickerTypes
<1>7. StatusTells' /\ AnnouncedIsApplied'
    BY <1>1, <1>4, <1>5 DEF PickerInv, StatusTells, AnnouncedIsApplied
<1>8. NothingYet' /\ OptionsFit' /\ SelectedInRange' /\ SelectsSpellADate'
    BY <1>1 DEF PickerInv, NothingYet, OptionsFit, SelectedInRange, SelectsSpellADate
<1> QED BY <1>2, <1>3, <1>6, <1>7, <1>8, IInvPartsNext DEF PickerInv

LEMMA StutterStep == ASSUME IInv, UNCHANGED vars PROVE IInv'
BY DEF vars, pickerVars, pageVars, IInv, TypeOK, PickerTypes, NothingYet, RangeOnce, OptionsFit,
       StatusTells, SelectedInRange, SelectsSpellADate, AnnouncedIsApplied

LEMMA IInvStep == IInv /\ [Next]_vars => IInv'
<1> SUFFICES ASSUME IInv, Next PROVE IInv'
    BY StutterStep
<1>1. BaseDate \in Dates
    BY BaseType DEF IInv, TypeOK
<1>2. PrevHour(BaseDate) \in Dates /\ PrevDay(BaseDate) \in Dates
    BY <1>1, PrevHourType, PrevDayType
<1>3. CASE OpenPanel \/ ClosePanel \/ QuickLatest \/ Apply
    BY <1>3, OpenPanelStep, ClosePanelStep, QuickLatestStep, ApplyStep
<1>4. CASE QuickStep(PrevHour(BaseDate)) \/ QuickStep(PrevDay(BaseDate))
    BY <1>2, <1>4, QuickStepStep
<1>5. CASE \/ \E y \in controls.years : ChangeYear(y)
           \/ \E m \in MonthNames : ChangeMonth(m)
           \/ \E d \in 1 .. controls.days : ChangeDay(d)
           \/ \E h \in HourNames : ChangeHour(h)
    BY <1>5, ChangeStep
<1>6. CASE HourPasses
    BY <1>6, HourStep
<1>7. CASE \E m \in Modes : SwitchMode(m)
    BY <1>7, PageStep
<1>8. ASSUME NEW r \in pending,
             RangeAnswered(r) \/ EventAnswered(r) \/ FinishSwitch(r) \/ CardsAnswered(r)
      PROVE  IInv'
    BY <1>8, RangeStep, PageStep, CardsStep
<1> QED BY <1>3, <1>4, <1>5, <1>6, <1>7, <1>8 DEF Next

\* The selector's state fits the range and the calendar, whatever is clicked
\* and whenever the answers and the hours come (queryTimeContext.js).
THEOREM Invariance == Spec => []IInv
BY InitIInv, IInvStep, PTL DEF Spec

\* With a range known, the four selects always spell a time of the calendar
\* (populateControls and updateDayOptions).
THEOREM AlwaysADate == Spec => []SelectsSpellADate
<1>1. IInv => SelectsSpellADate
    BY DEF IInv
<1> QED BY <1>1, Invariance, PTL

\* With a range known, what a quick action announces is what the button would
\* apply: hours that pass and answers that come in between do not change it.
THEOREM AnnouncementsHold == Spec => []AnnouncedIsApplied
<1>1. IInv => AnnouncedIsApplied
    BY DEF IInv
<1> QED BY <1>1, Invariance, PTL

-----------------------------------------------------------------------------
\* The careful user: what is in flight is about the mode and the time selected,
\* and as long as the cards are not, something is in flight.
Ours(r) == r.kind # "range" => r.mode = currentMode

CarefulInv == careful =>
    /\ dataMode = currentMode
    /\ \A r \in pending : Ours(r)
    /\ \A r \in pending : r.kind = "card" => r.time = selectedQueryTime
    /\ \/ cards = [mode |-> currentMode, time |-> selectedQueryTime]
       \/ \E r \in pending : r.kind # "range"

LEMMA RequestFields ==
    ASSUME NEW kind, NEW m, NEW time
    PROVE  /\ Request(kind, m, time).kind = kind
           /\ Request(kind, m, time).mode = m
           /\ Request(kind, m, time).time = time
BY DEF Request

\* A click of a user who has waited: its request is the only one in flight.
LEMMA CarefulClick ==
    ASSUME Patient, CarefulInv, NEW kind \in {"event", "switch"},
           pending' = pending \union {Request(kind, currentMode', Null)},
           careful => dataMode' = currentMode'
    PROVE  CarefulInv'
<1> SUFFICES ASSUME careful' PROVE CarefulInv'
    BY DEF CarefulInv
<1> DEFINE q == Request(kind, currentMode', Null)
<1>1. careful /\ pending = {}
    BY DEF Patient
<1>2. pending' = {q}
    BY <1>1
<1>3. q.kind = kind /\ q.mode = currentMode'
    BY RequestFields
<1> HIDE DEF q
<1> QED BY <1>1, <1>2, <1>3 DEF CarefulInv, Ours

\* A question about the cards, by the hour or after an answer.
LEMMA CarefulQuestion ==
    ASSUME CarefulInv, UNCHANGED <<careful, selectedQueryTime, cards>>,
           NEW R, NEW m,
           pending' = (pending \ R) \union {CardRequest(m, selectedQueryTime)},
           careful => m = currentMode /\ currentMode' = currentMode /\ dataMode' = currentMode
    PROVE  CarefulInv'
<1> SUFFICES ASSUME careful' PROVE CarefulInv'
    BY DEF CarefulInv
<1> DEFINE q == CardRequest(m, selectedQueryTime)
<1>1. careful /\ m = currentMode /\ currentMode' = currentMode /\ dataMode' = currentMode
    OBVIOUS
<1>2. q.kind = "card" /\ q.mode = m /\ q.time = selectedQueryTime
    BY RequestFields DEF CardRequest
<1> HIDE DEF q
<1>3. \A r \in pending' : r \in pending \/ r = q
    BY DEF q
<1>4. q \in pending'
    BY DEF q
<1>5. /\ \A r \in pending' : r.kind # "range" => r.mode = currentMode'
      /\ \A r \in pending' : r.kind = "card" => r.time = selectedQueryTime'
    BY <1>1, <1>2, <1>3 DEF CarefulInv, Ours
<1>6. \E r \in pending' : r.kind # "range"
    BY <1>2, <1>4
<1> QED BY <1>1, <1>5, <1>6 DEF CarefulInv, Ours

\* The cards' answer is about the mode and the time selected; a failure is not
\* what the careful user meets.
LEMMA CarefulCards ==
    ASSUME CarefulInv, NEW r \in pending, CardsAnswered(r)
    PROVE  CarefulInv'
<1> USE DEF CardsAnswered
<1> SUFFICES ASSUME careful' PROVE CarefulInv'
    BY DEF CarefulInv
<1>1. careful /\ cards' = [mode |-> r.mode, time |-> r.time]
    OBVIOUS
<1>2. r.kind = "card" /\ r.mode = currentMode /\ r.time = selectedQueryTime
    BY <1>1 DEF CarefulInv, Ours
<1>3. UNCHANGED <<selectedQueryTime, currentMode, dataMode>> /\ pending' \subseteq pending
    OBVIOUS
<1> QED BY <1>1, <1>2, <1>3 DEF CarefulInv, Ours

\* The range's answer is none of the cards' business.
LEMMA CarefulRange ==
    ASSUME CarefulInv, NEW r \in pending, RangeAnswered(r)
    PROVE  CarefulInv'
<1>1. UNCHANGED <<selectedQueryTime, currentMode, dataMode, cards, careful>>
    BY DEF RangeAnswered, pageVars
<1>2. r.kind = "range" /\ pending' = pending \ {r}
    BY DEF RangeAnswered
<1>3. ASSUME NEW s \in pending, s.kind # "range" PROVE s \in pending'
    BY <1>2, <1>3
<1> QED BY <1>1, <1>2, <1>3 DEF CarefulInv, Ours

LEMMA CarefulUntouched ==
    ASSUME CarefulInv, UNCHANGED <<selectedQueryTime, pageVars, pending, careful>>
    PROVE  CarefulInv'
BY DEF CarefulInv, Ours, pageVars

LEMMA CarefulStep == CarefulInv /\ [Next]_vars => CarefulInv'
<1> SUFFICES ASSUME CarefulInv, [Next]_vars PROVE CarefulInv'
    OBVIOUS
<1>1. CASE UNCHANGED vars
    BY <1>1, CarefulUntouched DEF vars
<1>2. CASE OpenPanel \/ ClosePanel \/ QuickStep(PrevHour(BaseDate))
           \/ QuickStep(PrevDay(BaseDate))
    BY <1>2, CarefulUntouched DEF OpenPanel, ClosePanel, QuickStep
<1>3. CASE \/ \E y \in controls.years : ChangeYear(y)
           \/ \E m \in MonthNames : ChangeMonth(m)
           \/ \E d \in 1 .. controls.days : ChangeDay(d)
           \/ \E h \in HourNames : ChangeHour(h)
    BY <1>3, CarefulUntouched DEF ChangeYear, ChangeMonth, ChangeDay, ChangeHour, ByHand
<1>4. CASE QuickLatest \/ Apply
    <2>1. Patient /\ UNCHANGED pageVars
          /\ pending' = pending \union {Request("event", currentMode, Null)}
        BY <1>4 DEF QuickLatest, Apply, setSelectedQueryTime
    <2>2. currentMode' = currentMode /\ dataMode' = dataMode
        BY <2>1 DEF pageVars
    <2>3. careful => dataMode' = currentMode'
        BY <2>2 DEF CarefulInv
    <2> QED BY <2>1, <2>2, <2>3, CarefulClick
<1>5. ASSUME NEW m \in Modes, SwitchMode(m) PROVE CarefulInv'
    <2>1. Patient /\ currentMode' = m /\ dataMode' = m
          /\ pending' = pending \union {Request("switch", m, Null)}
        BY <1>5 DEF SwitchMode
    <2> QED BY <2>1, CarefulClick
<1>6. CASE HourPasses
    <2>1. /\ UNCHANGED <<careful, selectedQueryTime, pageVars>>
          /\ pending' = (pending \ {}) \union {CardRequest(dataMode, selectedQueryTime)}
        BY <1>6 DEF HourPasses
    <2>2. careful => dataMode = currentMode
        BY DEF CarefulInv
    <2> QED BY <2>1, <2>2, CarefulQuestion DEF pageVars
<1>7. ASSUME NEW r \in pending, EventAnswered(r) \/ FinishSwitch(r) PROVE CarefulInv'
    <2>1. careful => r.mode = currentMode /\ dataMode = currentMode
        BY <1>7 DEF CarefulInv, Ours, EventAnswered, FinishSwitch
    <2>2. /\ UNCHANGED <<careful, selectedQueryTime, cards>>
          /\ pending' = (pending \ {r}) \union {CardRequest(r.mode, selectedQueryTime)}
        BY <1>7 DEF EventAnswered, FinishSwitch, pageVars
    <2>3. careful => currentMode' = currentMode /\ dataMode' = currentMode
        BY <1>7, <2>1 DEF EventAnswered, FinishSwitch, pageVars
    <2> QED BY <2>1, <2>2, <2>3, CarefulQuestion
<1>8. ASSUME NEW r \in pending, RangeAnswered(r) \/ CardsAnswered(r) PROVE CarefulInv'
    BY <1>8, CarefulRange, CarefulCards
<1> QED BY <1>1, <1>2, <1>3, <1>4, <1>5, <1>6, <1>7, <1>8 DEF Next

\* For a user who waits, on a page whose requests do not fail, the cards are of
\* the mode and the time selected once all is answered, in whatever order the
\* hours and the answers come (initNumberAnimations and its callers).
THEOREM CardsFollow == Spec => []CardsFollowSelection
<1>1. Init => CarefulInv
    BY DEF Init, CarefulInv, Ours, RangeRequest
<1>2. CarefulInv => CardsFollowSelection
    BY DEF CarefulInv, CardsFollowSelection
<1> QED BY <1>1, <1>2, CarefulStep, PTL DEF Spec
=============================================================================
