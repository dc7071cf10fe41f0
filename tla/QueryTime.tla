------------------------------ MODULE QueryTime ------------------------------
(***************************************************************************)
(* The time selector of the flood control page (queryTimeContext.js) and   *)
(* the summary cards that follow it (numberAnimation.js): the range of     *)
(* hours that have data, four select elements that spell a time, the quick *)
(* actions, the button that applies a time, and the event that makes the   *)
(* page ask for its data again.                                            *)
(*                                                                         *)
(* Times are whole hours of a calendar: every time that the code handles   *)
(* has its minutes set to 0.  It starts when the page is up and the range  *)
(* has been requested.                                                     *)
(***************************************************************************)
EXTENDS Integers, FiniteSets

CONSTANTS
    Months, Hours,           \* months of a year, hours of a day
    CommonYear, LeapYear,    \* lengths of the months
    Start,                   \* the hour in which the page is opened
    Ranges,                  \* ranges of times that the server may have data for
    Null,                    \* no time selected, no range, no option selected
    Modes, FirstMode,        \* "flood" and "drought"
    MaxEvents                \* bound: clicks, changes of a select, hours passed

MonthNames == 1 .. Months
HourNames  == 0 .. Hours - 1

Leap(y) == y % 4 = 0 /\ (y % 100 # 0 \/ y % 400 = 0)

\* No year selected counts as 1900: new Date(0, month, 0).
DaysIn(y, m) == IF y # Null /\ Leap(y) THEN LeapYear[m] ELSE CommonYear[m]

Fields == [year : Int, month : MonthNames, day : Nat, hour : HourNames]

Dates == {d \in Fields : d.day \in 1 .. DaysIn(d.year, d.month)}

Before(a, b) ==
    \/ a.year < b.year
    \/ a.year = b.year /\ a.month < b.month
    \/ a.year = b.year /\ a.month = b.month /\ a.day < b.day
    \/ a.year = b.year /\ a.month = b.month /\ a.day = b.day /\ a.hour < b.hour

ASSUME CalendarAssumption ==
    /\ Months \in Nat \ {0} /\ Hours \in Nat \ {0}
    /\ CommonYear \in [1 .. Months -> Nat \ {0}]
    /\ LeapYear \in [1 .. Months -> Nat \ {0}]

\* A day too many in a month is a day of the next: 31 days are less than 2 * 28.
ASSUME MonthsAssumption ==
    \A f, g \in {CommonYear, LeapYear} : \A m, n \in 1 .. Months : f[m] <= 2 * g[n]

ASSUME TimeAssumption ==
    /\ Start \in Dates
    /\ \A r \in Ranges : r.min \in Dates /\ r.max \in Dates /\ ~Before(r.max, r.min)
    /\ Null \notin Int /\ Null \notin Ranges /\ Null \notin Dates
    /\ FirstMode \in Modes
    /\ MaxEvents \in Nat

VARIABLES
    \* queryTimeContext.js
    selectedQueryTime, availableQueryTimeRange,
    controlsInitialized,   \* whether the listeners are there
    panelOpen,
    controls,              \* the select elements: options and what is selected
    status,                \* the element queryTimeStatus
    \* the rest of the page
    currentMode,           \* of initMap.js
    dataMode,              \* data-mode of the body
    cards,                 \* the mode and time of the summary cards
    clock,
    pending,               \* requests in flight and what awaits them
    touched,               \* history: selects were set by hand or filled anew
                           \* since the last quick action
    careful,               \* history: the user has waited for every answer and
                           \* no request has failed
    events                 \* bound only

pickerVars == <<availableQueryTimeRange, controlsInitialized, panelOpen, controls, touched>>
pageVars   == <<currentMode, dataMode, cards>>
vars == <<selectedQueryTime, pickerVars, status, pageVars, clock, pending, careful, events>>

-----------------------------------------------------------------------------
\* Arithmetic of JavaScript's Date.
NextMonth(d) == IF d.month < Months THEN [d EXCEPT !.month = @ + 1]
                                    ELSE [d EXCEPT !.month = 1, !.year = @ + 1]

PrevMonth(d) == IF d.month > 1 THEN [d EXCEPT !.month = @ - 1]
                               ELSE [d EXCEPT !.month = Months, !.year = @ - 1]

LastDay(d) == [d EXCEPT !.day = DaysIn(d.year, d.month)]

NextDay(d) == IF d.day < DaysIn(d.year, d.month) THEN [d EXCEPT !.day = @ + 1]
                                                 ELSE [NextMonth(d) EXCEPT !.day = 1]

\* "yesterday-same-hour" and "prev-hour"
PrevDay(d)  == IF d.day > 1 THEN [d EXCEPT !.day = @ - 1] ELSE LastDay(PrevMonth(d))
PrevHour(d) == IF d.hour > 0 THEN [d EXCEPT !.hour = @ - 1]
                             ELSE [PrevDay(d) EXCEPT !.hour = Hours - 1]

NextHour(d) == IF d.hour < Hours - 1 THEN [d EXCEPT !.hour = @ + 1]
                                     ELSE [NextDay(d) EXCEPT !.hour = 0]

\* A day that the month does not have is one of the next month.
Rolled(d) == IF d.day <= DaysIn(d.year, d.month) THEN d
             ELSE [NextMonth(d) EXCEPT !.day = d.day - DaysIn(d.year, d.month)]

-----------------------------------------------------------------------------
\* The selects.  Setting a value that no option has leaves nothing selected.
clampToAvailableRange(range, d) ==
    CASE range # Null /\ Before(d, range.min) -> range.min
      [] range # Null /\ Before(range.max, d) -> range.max
      [] OTHER -> d

Select(v, options) == IF v \in options THEN v ELSE Null

Lower(a, b) == IF a < b THEN a ELSE b

\* Fault: the day is kept even if the month does not have it.
WithDayOptionsKeepingDay(c) ==
    LET days == DaysIn(c.year, c.month)
    IN  [c EXCEPT !.days = days, !.day = Select(IF @ = Null THEN 1 ELSE @, 1 .. days)]

\* updateDayOptions: the days of the month, and the day kept if it is there.
WithDayOptions(c) ==
    LET days == DaysIn(c.year, c.month)
    IN  [c EXCEPT !.days = days, !.day = Lower(IF @ = Null THEN 1 ELSE @, days)]

\* The years are filled in once, from the range or from the time at hand.
YearOptions(c, range, d) ==
    CASE c.years # {} -> c.years
      [] c.years = {} /\ range = Null -> {d.year}
      [] c.years = {} /\ range # Null -> range.min.year .. range.max.year

WithMonth(c, range, d) ==
    LET years == YearOptions(c, range, d)
    IN  WithDayOptions([c EXCEPT !.years = years, !.year = Select(d.year, years),
                                 !.month = d.month])

\* Fault: the day is selected before the options of its month are made.
PopulatedDayFirst(c, range, base) ==
    LET d == clampToAvailableRange(range, base)
    IN  WithMonth([c EXCEPT !.day = Select(d.day, 1 .. c.days), !.hour = d.hour], range, d)

\* populateControls
Populated(c, range, base) ==
    LET d == clampToAvailableRange(range, base)
        m == WithMonth(c, range, d)
    IN  [m EXCEPT !.day = Select(d.day, 1 .. m.days), !.hour = d.hour]

\* What the selects spell; the clock stands in for an empty one.
buildDateFromControls(c, now) ==
    Rolled([year  |-> IF c.year = Null THEN now.year ELSE c.year,
            month |-> c.month,
            day   |-> IF c.day = Null THEN now.day ELSE c.day,
            hour  |-> c.hour])

-----------------------------------------------------------------------------
\* "range" asks for the range; "event" is the listener of QUERY_TIME_EVENT
\* while it awaits the stations, "switch" switchMode while it awaits the
\* resources, and "card" asks for the summary cards.  n tells equal ones apart.
Kinds == {"range", "event", "switch", "card"}

Times == Dates \union {Null}

Requests == [kind : Kinds, mode : Modes, time : Times, n : Nat]

Twins(r) == {s \in pending : s.kind = r.kind /\ s.mode = r.mode /\ s.time = r.time}

Request(kind, m, time) ==
    LET r == [kind |-> kind, mode |-> m, time |-> time, n |-> 0]
    IN  [r EXCEPT !.n = Cardinality(Twins(r))]

Answered(r) == r \in pending /\ \A s \in Twins(r) : s.n <= r.n

\* initNumberAnimations up to its await
CardRequest(m, time) == Request("card", m, time)

Statuses == [kind : {"latest", "shown", "pending", "moved"}, time : Times]

Latest == [kind |-> "latest", time |-> Null]

ShownStatus(time) == IF time = Null THEN Latest ELSE [kind |-> "shown", time |-> time]

Controls == [years : SUBSET Int, year : Int \union {Null}, month : MonthNames,
             days : Nat, day : (Nat \ {0}) \union {Null}, hour : HourNames]

NoControls == [years |-> {}, year |-> Null, month |-> 1, days |-> 0, day |-> Null, hour |-> 0]

PickerTypes ==
    /\ selectedQueryTime \in Times
    /\ availableQueryTimeRange \in Ranges \union {Null}
    /\ controlsInitialized \in BOOLEAN /\ panelOpen \in BOOLEAN /\ touched \in BOOLEAN
    /\ controls \in Controls
    /\ status \in Statuses
    /\ clock \in Dates

TypeOK ==
    /\ PickerTypes
    /\ currentMode \in Modes /\ dataMode \in Modes
    /\ cards \in [mode : Modes, time : Times]
    /\ pending \subseteq Requests /\ IsFiniteSet(pending)
    /\ careful \in BOOLEAN
    /\ events \in Nat

RangeRequest == [kind |-> "range", mode |-> FirstMode, time |-> Null, n |-> 0]

\* The first cards are there; initQueryTimeControls awaits the range.
Init ==
    /\ selectedQueryTime = Null
    /\ availableQueryTimeRange = Null
    /\ controlsInitialized = FALSE /\ panelOpen = FALSE /\ touched = FALSE
    /\ controls = NoControls
    /\ status = Latest
    /\ currentMode = FirstMode /\ dataMode = FirstMode
    /\ cards = [mode |-> FirstMode, time |-> Null]
    /\ clock = Start
    /\ pending = {RangeRequest}
    /\ careful = TRUE
    /\ events = 0

-----------------------------------------------------------------------------
\* initQueryTimeControls after its await.  A range that is refused, or of an
\* empty table, is no range; it is never asked for again.
RangeAnswered(r) ==
    /\ Answered(r) /\ r.kind = "range"
    /\ \E range \in Ranges \union {Null} :
           /\ availableQueryTimeRange' = range
           /\ controls' = Populated(controls, range, clock)
    /\ controlsInitialized' = TRUE
    /\ status' = Latest
    /\ pending' = pending \ {r}
    /\ UNCHANGED <<selectedQueryTime, panelOpen, touched, pageVars, clock, careful, events>>

Event ==
    /\ events < MaxEvents
    /\ events' = events + 1

\* A click that makes the page ask for data; the user of the history variable
\* has waited for the last ones.
Patient == careful' = (careful /\ pending = {})

BaseDate == IF selectedQueryTime = Null THEN clock ELSE selectedQueryTime

populateControls(d) == controls' = Populated(controls, availableQueryTimeRange, d)

\* The trigger; nothing is applied yet.
OpenPanel ==
    /\ controlsInitialized /\ ~panelOpen
    /\ Event
    /\ panelOpen' = TRUE
    /\ populateControls(BaseDate)
    /\ touched' = TRUE
    /\ UNCHANGED <<selectedQueryTime, availableQueryTimeRange, controlsInitialized, status,
                   pageVars, clock, pending, careful>>

\* The trigger once more, or a click beside the panel.
ClosePanel ==
    /\ panelOpen
    /\ panelOpen' = FALSE
    /\ UNCHANGED <<selectedQueryTime, availableQueryTimeRange, controlsInitialized, controls,
                   touched, status, pageVars, clock, pending, careful, events>>

ByHand(c) ==
    /\ panelOpen
    /\ Event
    /\ controls' = c
    /\ touched' = TRUE
    /\ UNCHANGED <<selectedQueryTime, availableQueryTimeRange, controlsInitialized, panelOpen,
                   status, pageVars, clock, pending, careful>>

ChangeYear(y)  == ByHand(WithDayOptions([controls EXCEPT !.year = y]))
ChangeMonth(m) == ByHand(WithDayOptions([controls EXCEPT !.month = m]))
ChangeDay(d)   == ByHand([controls EXCEPT !.day = d])
ChangeHour(h)  == ByHand([controls EXCEPT !.hour = h])

\* setSelectedQueryTime: its event reaches the listener in main.js, which keeps
\* the mode of the moment while it awaits the stations.
setSelectedQueryTime(time) ==
    /\ selectedQueryTime' = time
    /\ status' = ShownStatus(time)
    /\ pending' = pending \union {Request("event", currentMode, Null)}
    /\ panelOpen' = FALSE

\* The quick action "latest"
QuickLatest ==
    /\ panelOpen
    /\ Event /\ Patient
    /\ setSelectedQueryTime(Null)
    /\ populateControls(clock)
    /\ touched' = FALSE
    /\ UNCHANGED <<availableQueryTimeRange, controlsInitialized, pageVars, clock>>

\* "prev-hour" and "yesterday-same-hour" announce a time; it is not applied.
QuickStep(next) ==
    /\ panelOpen
    /\ Event
    /\ populateControls(next)
    /\ LET d == clampToAvailableRange(availableQueryTimeRange, next)
       IN  status' = [kind |-> IF d = next THEN "pending" ELSE "moved", time |-> d]
    /\ touched' = FALSE
    /\ UNCHANGED <<selectedQueryTime, availableQueryTimeRange, controlsInitialized, panelOpen,
                   pageVars, clock, pending, careful>>

\* The button.  A time moved into the range is announced, and the announcement
\* overwritten at once.
Apply ==
    /\ panelOpen
    /\ Event /\ Patient
    /\ setSelectedQueryTime(clampToAvailableRange(availableQueryTimeRange,
                                                  buildDateFromControls(controls, clock)))
    /\ UNCHANGED <<availableQueryTimeRange, controlsInitialized, controls, touched, pageVars,
                   clock>>

-----------------------------------------------------------------------------
\* The page.

\* Fault: the cards are asked for without the time selected.
EventAnsweredLatest(r) ==
    /\ Answered(r) /\ r.kind = "event"
    /\ pending' = (pending \ {r}) \union {CardRequest(r.mode, Null)}
    /\ UNCHANGED <<selectedQueryTime, pickerVars, status, pageVars, clock, careful, events>>

\* The listener after its await: the cards of its mode, for the time of now.
EventAnswered(r) ==
    /\ Answered(r) /\ r.kind = "event"
    /\ pending' = (pending \ {r}) \union {CardRequest(r.mode, selectedQueryTime)}
    /\ UNCHANGED <<selectedQueryTime, pickerVars, status, pageVars, clock, careful, events>>

\* switchMode up to its await, and after it, where updateMapForFlood or
\* -Drought sets the mode once more.
SwitchMode(m) ==
    /\ currentMode # m
    /\ Event /\ Patient
    /\ currentMode' = m /\ dataMode' = m
    /\ pending' = pending \union {Request("switch", m, Null)}
    /\ UNCHANGED <<selectedQueryTime, pickerVars, status, cards, clock>>

FinishSwitch(r) ==
    /\ Answered(r) /\ r.kind = "switch"
    /\ currentMode' = r.mode
    /\ pending' = (pending \ {r}) \union {CardRequest(r.mode, selectedQueryTime)}
    /\ UNCHANGED <<selectedQueryTime, pickerVars, status, dataMode, cards, clock, careful,
                   events>>

\* The timer of startAutoRefresh fires at each full hour.
HourPasses ==
    /\ Event
    /\ clock' = NextHour(clock)
    /\ pending' = pending \union {CardRequest(dataMode, selectedQueryTime)}
    /\ UNCHANGED <<selectedQueryTime, pickerVars, status, pageVars, careful>>

\* Fault: the status names the time asked for.
CardsAnsweredNamingTheirs(r) ==
    /\ Answered(r) /\ r.kind = "card"
    /\ \/ /\ cards' = [mode |-> r.mode, time |-> r.time]
          /\ status' = ShownStatus(r.time)
          /\ UNCHANGED careful
       \/ careful' = FALSE /\ UNCHANGED <<cards, status>>
    /\ pending' = pending \ {r}
    /\ UNCHANGED <<selectedQueryTime, pickerVars, currentMode, dataMode, clock, events>>

\* initNumberAnimations after its await: the cards are of the time asked for,
\* the status names the time of now.  A failed request changes nothing.
CardsAnswered(r) ==
    /\ Answered(r) /\ r.kind = "card"
    /\ \/ /\ cards' = [mode |-> r.mode, time |-> r.time]
          /\ status' = ShownStatus(selectedQueryTime)
          /\ UNCHANGED careful
       \/ careful' = FALSE /\ UNCHANGED <<cards, status>>
    /\ pending' = pending \ {r}
    /\ UNCHANGED <<selectedQueryTime, pickerVars, currentMode, dataMode, clock, events>>

Next ==
    \/ OpenPanel \/ ClosePanel \/ QuickLatest \/ Apply
    \/ QuickStep(PrevHour(BaseDate)) \/ QuickStep(PrevDay(BaseDate))
    \/ \E y \in controls.years : ChangeYear(y)
    \/ \E m \in MonthNames : ChangeMonth(m)
    \/ \E d \in 1 .. controls.days : ChangeDay(d)
    \/ \E h \in HourNames : ChangeHour(h)
    \/ \E m \in Modes : SwitchMode(m)
    \/ HourPasses
    \/ \E r \in pending : \/ RangeAnswered(r) \/ EventAnswered(r) \/ FinishSwitch(r)
                          \/ CardsAnswered(r)

Spec == Init /\ [][Next]_vars

-----------------------------------------------------------------------------
\* The time the selects spell, when none of them is empty.
Spelled(c) == [year |-> c.year, month |-> c.month, day |-> c.day, hour |-> c.hour]

\* With a range known, the selects always spell a time of the calendar: no
\* select is empty, so that the clock never completes what the user chose, and
\* no day is one of the next month (populateControls, updateDayOptions).
SelectsSpellADate ==
    controlsInitialized /\ availableQueryTimeRange # Null => Spelled(controls) \in Dates

\* With a range known and until the selects are touched, the time that a quick
\* action announced ("to be applied", "moved to the nearest") is the one that the
\* button would apply.
AnnouncedIsApplied ==
    availableQueryTimeRange # Null /\ status.kind \in {"pending", "moved"} /\ ~touched
        => clampToAvailableRange(availableQueryTimeRange, buildDateFromControls(controls, clock))
               = status.time

\* A user who waits, on a page whose requests do not fail: once all is answered
\* the cards are of the mode and the time selected, whenever the hour passes.
CardsFollowSelection == careful /\ pending = {} =>
    /\ cards = [mode |-> currentMode, time |-> selectedQueryTime]
    /\ dataMode = currentMode

\* A time that the status calls "shown" is the one selected, which has data.
StatusTells ==
    /\ status.kind = "shown" => status.time = selectedQueryTime
    /\ status.kind = "latest" => selectedQueryTime = Null
SelectedInRange ==
    availableQueryTimeRange # Null /\ selectedQueryTime # Null
        => clampToAvailableRange(availableQueryTimeRange, selectedQueryTime) = selectedQueryTime

\* The select of years has the years of the range; days are those of the month.
OptionsFit == controlsInitialized =>
    /\ controls.years # {}
    /\ controls.days = DaysIn(controls.year, controls.month)
    /\ controls.day # Null => controls.day <= controls.days
    /\ availableQueryTimeRange # Null =>
           controls.years = availableQueryTimeRange.min.year .. availableQueryTimeRange.max.year

\* Before the range is answered nothing can be selected; it is asked for once.
NothingYet == ~controlsInitialized =>
    /\ selectedQueryTime = Null /\ availableQueryTimeRange = Null
    /\ controls = NoControls /\ ~panelOpen
RangeOnce == \A r \in pending : r.kind = "range" => r = RangeRequest /\ ~controlsInitialized

IInv ==
    /\ TypeOK
    /\ NothingYet /\ RangeOnce /\ OptionsFit
    /\ StatusTells /\ SelectedInRange
    /\ SelectsSpellADate /\ AnnouncedIsApplied
=============================================================================
