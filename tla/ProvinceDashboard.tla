------------------------- MODULE ProvinceDashboard -------------------------
(***************************************************************************)
(* The start page: the map whose provinces are loaded one after the other, *)
(* the carousel that selects them in turn and pauses when the user clicks  *)
(* (index.html), and the panels that show the data of the province         *)
(* selected, each in its own way (js.js, ProvinceDashboardService.java).   *)
(*                                                                         *)
(* Every province has an adcode, and its rows do not change meanwhile.     *)
(* The names of types and series are those the page starts with, as in the *)
(* tables shipped with it; ECharts merges the series of such an option by  *)
(* their names.  Levels of pollution are hundredths.                       *)
(***************************************************************************)
EXTENDS Integers, Sequences, FiniteSets

CONSTANTS
    Provinces,
    Districts,      \* the provinces as the map service lists them
    Types, Series,  \* station types that have a card, lines of the flow chart
    TypesOf, SeriesOf, ProjectsOf, WorstOf,  \* the rows of each province
    Demo,           \* the data that the page starts with
    Null,           \* no province, no timer, a type that the pie does not have
    TimerIds,       \* ids that the browser gives to intervals and timeouts
    MaxClicks,      \* bound: clicks of the user
    MaxPending      \* bound: requests in flight

ASSUME ProvinceAssumption ==
    /\ Districts \in Seq(Provinces)
    /\ \A i, j \in DOMAIN Districts : Districts[i] = Districts[j] => i = j
    /\ Null \notin Provinces /\ Demo \notin Provinces
    /\ Null \notin TimerIds /\ TimerIds # {}
    /\ MaxClicks \in Nat /\ MaxPending \in Nat

ASSUME RowsAssumption ==
    /\ TypesOf \in [Provinces -> SUBSET Types]
    /\ SeriesOf \in [Provinces -> SUBSET Series]
    /\ ProjectsOf \in [Provinces -> {"none", "zero", "some"}]
    /\ WorstOf \in [Provinces -> Nat]

VARIABLES
    \* loading of the provinces
    phase,          \* what loadNextProvince is waiting for
    index,
    loadedProvinces,
    \* the carousel
    provinceCarouselList, provinceCarouselIndex,
    provinceCarouselTimer, provinceCarouselResumeTimer,
    intervals, timeouts,   \* the timers that the browser runs
    \* the map
    selectedProvinceAdcode,
    style,          \* of the polygons of a province, "none" if it has none yet
    mouse,          \* the province under the mouse
    \* the panels: whose data they show
    pie,            \* stationTypeData
    cards,          \* the count of each type at the top of the page
    axis, lines,    \* zhexian
    radar,          \* leida: the worst level and the end of its scale
    projects, noData,   \* echarts3, and its text "no data"
    \* requests
    pending,        \* in the order they were sent
    overtaken,      \* history: the request sent last has failed, or was answered
                    \* before an earlier one
    clicks          \* bound only

loadVars  == <<phase, index, loadedProvinces>>
timerVars == <<provinceCarouselTimer, provinceCarouselResumeTimer, intervals, timeouts>>
turnVars  == <<provinceCarouselList, provinceCarouselIndex>>
mapVars   == <<selectedProvinceAdcode, style, pending, overtaken>>
panelVars == <<pie, cards, axis, lines, radar, projects, noData>>
vars == <<loadVars, turnVars, timerVars, mapVars, mouse, panelVars, clicks>>

Owners == Provinces \union {Demo}

TypeOK ==
    /\ phase \in {"list", "search", "wait", "done", "failed"}
    /\ index \in 0 .. Len(Districts)
    /\ loadedProvinces \in Seq(Provinces) /\ provinceCarouselList \in Seq(Provinces)
    /\ provinceCarouselIndex \in Nat
    /\ provinceCarouselTimer \in TimerIds \union {Null}
    /\ provinceCarouselResumeTimer \in TimerIds \union {Null}
    /\ intervals \subseteq TimerIds /\ timeouts \subseteq TimerIds
    /\ selectedProvinceAdcode \in Provinces \union {Null}
    /\ style \in [Provinces -> {"none", "default", "hover", "selected"}]
    /\ mouse \in Provinces \union {Null}
    /\ pie \in [Types -> Owners \union {Null}] /\ cards \in [Types -> Owners]
    /\ axis \in Owners /\ lines \in [Series -> Owners]
    /\ radar \in [of : Owners, worst : Nat, max : Nat]
    /\ projects \in Owners /\ noData \in BOOLEAN
    /\ pending \in Seq(Provinces)
    /\ overtaken \in BOOLEAN /\ clicks \in Nat

Init ==
    /\ phase = "list" /\ index = 0 /\ loadedProvinces = <<>>
    /\ provinceCarouselList = <<>> /\ provinceCarouselIndex = 0
    /\ provinceCarouselTimer = Null /\ provinceCarouselResumeTimer = Null
    /\ intervals = {} /\ timeouts = {}
    /\ selectedProvinceAdcode = Null
    /\ style = [p \in Provinces |-> "none"]
    /\ mouse = Null
    /\ pie = [t \in Types |-> Demo] /\ cards = [t \in Types |-> Demo]
    /\ axis = Demo /\ lines = [s \in Series |-> Demo]
    /\ radar = [of |-> Demo, worst |-> 1800, max |-> 3000]
    /\ projects = Demo /\ noData = FALSE
    /\ pending = <<>>
    /\ overtaken = FALSE
    /\ clicks = 0

-----------------------------------------------------------------------------
\* applyStyleToProvince, for polygons that are on the map
Drawn(p) == style[p] # "none"

Styled(p, s, st) == IF Drawn(p) THEN [st EXCEPT ![p] = s] ELSE st

\* Fault: nothing is asked for while a request is in flight.
RequestWhenIdle(p) ==
    /\ pending' = IF pending = <<>> THEN <<p>> ELSE pending
    /\ overtaken' = FALSE

\* loadProvinceData: the data of p are asked for, whatever requests are still in
\* flight.
Request(p) ==
    /\ pending' = Append(pending, p)
    /\ overtaken' = FALSE

\* Fault: the new province is recorded before the old one is looked up.
SelectProvinceFirst(p) ==
    /\ Len(pending) < MaxPending
    /\ style' = Styled(p, "selected", style)
    /\ selectedProvinceAdcode' = p
    /\ Request(p)

\* selectProvince
SelectProvince(p) ==
    LET old == selectedProvinceAdcode
        plain == IF old # Null /\ old # p THEN Styled(old, "default", style) ELSE style
    IN  /\ Len(pending) < MaxPending
        /\ style' = Styled(p, "selected", plain)
        /\ selectedProvinceAdcode' = p
        /\ Request(p)

\* setInterval and setTimeout return an id that is not in use.
Fresh(used) == CHOOSE id \in TimerIds : id \notin used

\* The place of a province in the list, counted from 0; -1 if it is not there.
IndexOf(p, list) ==
    IF \E i \in DOMAIN list : list[i] = p
       THEN (CHOOSE i \in DOMAIN list : list[i] = p) - 1
       ELSE -1

StartInterval(running) ==
    LET id == Fresh(running)
    IN  provinceCarouselTimer' = id /\ intervals' = running \union {id}

\* Fault: the interval that runs already is not stopped.
RestartIntervalOnly == StartInterval(intervals)

\* stopProvinceCarousel before a new interval
RestartInterval == StartInterval(intervals \ {provinceCarouselTimer})

\* startProvinceCarousel: it goes on at the province selected, or selects the
\* first.  Names come without duplicates.
StartProvinceCarousel(list) ==
    IF list = <<>>
       THEN UNCHANGED <<turnVars, provinceCarouselTimer, intervals, mapVars>>
       ELSE /\ provinceCarouselList' = list
            /\ RestartInterval
            /\ IF selectedProvinceAdcode # Null
                  THEN /\ provinceCarouselIndex' =
                              LET i == IndexOf(selectedProvinceAdcode, list)
                              IN  IF i >= 0 THEN i ELSE 0
                       /\ UNCHANGED mapVars
                  ELSE /\ provinceCarouselIndex' = 0
                       /\ SelectProvince(list[1])

\* The interval fires: nextProvinceInCarousel.
NextProvinceInCarousel(id) ==
    /\ id \in intervals
    /\ provinceCarouselIndex' = (provinceCarouselIndex + 1) % Len(provinceCarouselList)
    /\ SelectProvince(provinceCarouselList[provinceCarouselIndex' + 1])
    /\ UNCHANGED <<loadVars, provinceCarouselList, timerVars, mouse, panelVars, clicks>>

\* Fault: a timeout that was set, even if it has fired, is not set again.
PauseProvinceCarouselOnce ==
    /\ provinceCarouselTimer' = Null
    /\ intervals' = intervals \ {provinceCarouselTimer}
    /\ IF provinceCarouselResumeTimer = Null
          THEN LET id == Fresh(timeouts)
               IN  provinceCarouselResumeTimer' = id /\ timeouts' = timeouts \union {id}
          ELSE UNCHANGED <<provinceCarouselResumeTimer, timeouts>>

\* Fault: a further click does not cancel the timeout of the one before.
PauseProvinceCarouselTwice ==
    LET id == Fresh(timeouts)
    IN  /\ provinceCarouselTimer' = Null
        /\ intervals' = intervals \ {provinceCarouselTimer}
        /\ provinceCarouselResumeTimer' = id
        /\ timeouts' = timeouts \union {id}

\* pauseProvinceCarousel: a further click makes the pause longer.
PauseProvinceCarousel ==
    LET left == timeouts \ {provinceCarouselResumeTimer}
        id   == Fresh(left)
    IN  /\ provinceCarouselTimer' = Null
        /\ intervals' = intervals \ {provinceCarouselTimer}
        /\ provinceCarouselResumeTimer' = id
        /\ timeouts' = left \union {id}

\* The timeout of a pause fires; its id is kept.
PauseEnds(id) ==
    /\ id \in timeouts
    /\ timeouts' = timeouts \ {id}
    /\ StartProvinceCarousel(provinceCarouselList)
    /\ UNCHANGED <<loadVars, provinceCarouselResumeTimer, mouse, panelVars, clicks>>

-----------------------------------------------------------------------------
\* Loading.

\* The list of provinces arrives, and the first one is searched for, or no list.
ListAnswered ==
    /\ phase = "list"
    /\ phase' \in {"wait", "failed"}
    /\ UNCHANGED <<index, loadedProvinces, turnVars, timerVars, mapVars, mouse, panelVars,
                   clicks>>

\* loadNextProvince, at once or after a delay.  The carousel starts at the end.
LoadNextProvince ==
    /\ phase = "wait"
    /\ IF index < Len(Districts)
          THEN /\ phase' = "search"
               /\ UNCHANGED <<turnVars, provinceCarouselTimer, intervals, mapVars>>
          ELSE /\ phase' = "done"
               /\ StartProvinceCarousel(loadedProvinces)
    /\ UNCHANGED <<index, loadedProvinces, provinceCarouselResumeTimer, timeouts, mouse,
                   panelVars, clicks>>

\* drawProvince after its search, which may fail, and its callback
DrawProvince ==
    LET p == Districts[index + 1] IN
    /\ phase = "search"
    /\ phase' = "wait"
    /\ index' = index + 1
    /\ \/ /\ style' = [style EXCEPT ![p] = "default"]
          /\ loadedProvinces' = Append(loadedProvinces, p)
       \/ UNCHANGED <<style, loadedProvinces>>
    /\ UNCHANGED <<turnVars, timerVars, selectedProvinceAdcode, pending, overtaken, mouse,
                   panelVars, clicks>>

-----------------------------------------------------------------------------
\* The user.

\* "mouseover" and "mouseout" of the polygons.
EnterProvince(p) ==
    /\ mouse = Null /\ Drawn(p)
    /\ mouse' = p
    /\ style' = [style EXCEPT ![p] = IF p = selectedProvinceAdcode THEN "selected" ELSE "hover"]
    /\ UNCHANGED <<loadVars, turnVars, timerVars, selectedProvinceAdcode, pending, overtaken,
                   panelVars, clicks>>

LeaveProvince ==
    /\ mouse # Null
    /\ mouse' = Null
    /\ style' = [style EXCEPT
           ![mouse] = IF mouse = selectedProvinceAdcode THEN "selected" ELSE "default"]
    /\ UNCHANGED <<loadVars, turnVars, timerVars, selectedProvinceAdcode, pending, overtaken,
                   panelVars, clicks>>

Click ==
    /\ clicks < MaxClicks
    /\ clicks' = clicks + 1

\* userSelectProvince.  The click bubbles to the map, which pauses once more.
ClickProvince ==
    /\ mouse # Null
    /\ Click
    /\ LET i == IndexOf(mouse, provinceCarouselList)
       IN  provinceCarouselIndex' = IF i >= 0 THEN i ELSE provinceCarouselIndex
    /\ SelectProvince(mouse)
    /\ PauseProvinceCarousel
    /\ UNCHANGED <<loadVars, provinceCarouselList, mouse, panelVars>>

\* A click beside the provinces
ClickMap ==
    /\ mouse = Null
    /\ Click
    /\ PauseProvinceCarousel
    /\ UNCHANGED <<loadVars, turnVars, mapVars, mouse, panelVars>>

-----------------------------------------------------------------------------
\* The panels, from the answer for p.

\* Fault: the types of the answer are added to the old ones.
UpdateStationTypeMerging(p) ==
    /\ pie' = [t \in Types |-> IF t \in TypesOf[p] THEN p ELSE pie[t]]
    /\ cards' = [t \in Types |-> IF t \in TypesOf[p] THEN p ELSE cards[t]]

\* updateStationType and updateStationCards: an empty answer changes nothing, and
\* a type that the answer lacks leaves the pie but keeps its card.
UpdateStationType(p) ==
    IF TypesOf[p] = {}
       THEN UNCHANGED <<pie, cards>>
       ELSE /\ pie' = [t \in Types |-> IF t \in TypesOf[p] THEN p ELSE Null]
            /\ cards' = [t \in Types |-> IF t \in TypesOf[p] THEN p ELSE cards[t]]

\* updateFlow: the years are replaced, the lines merged.
UpdateFlow(p) ==
    /\ axis' = p
    /\ lines' = [s \in Series |-> IF s \in SeriesOf[p] THEN p ELSE lines[s]]

Higher(a, b) == IF a > b THEN a ELSE b

\* Fault: no room is left.
IndicatorMaxUnpadded(worst) ==
    LET raw == Higher(worst, 100)
    IN  IF raw >= 1000 THEN ((raw + 99) \div 100) * 100 ELSE ((raw + 5) \div 10) * 10

\* The scale of an indicator ends a quarter above its values, and not below 1.25;
\* a whole number from 10 on, else rounded to a tenth.  The largest value is also
\* the one that the server sends as the maximum.
IndicatorMax(worst) ==
    LET padded == Higher(worst, 100) * 125   \* in hundredths of hundredths
    IN  IF padded >= 100000 THEN ((padded + 9999) \div 10000) * 100
                            ELSE ((padded + 500) \div 1000) * 10

\* updateWaterQuality: values, scale and years are replaced.
UpdateWaterQuality(p) ==
    radar' = [of |-> p, worst |-> WorstOf[p], max |-> IndicatorMax(WorstOf[p])]

\* updateProjects: without any row nothing happens.  With zeros only a text is
\* shown, but an empty list of series, merged, clears nothing; and no later
\* answer removes the text.
UpdateProjects(p) ==
    /\ projects' = IF ProjectsOf[p] = "some" THEN p ELSE projects
    /\ noData' = (noData \/ ProjectsOf[p] = "zero")

Without(s, i) == SubSeq(s, 1, i - 1) \o SubSeq(s, i + 1, Len(s))

Answered(i) ==
    /\ i \in DOMAIN pending
    /\ pending' = Without(pending, i)

\* applyProvinceData: whatever has been selected since.
ApplyProvinceData(i) ==
    /\ Answered(i)
    /\ UpdateStationType(pending[i]) /\ UpdateFlow(pending[i])
    /\ UpdateWaterQuality(pending[i]) /\ UpdateProjects(pending[i])
    /\ overtaken' = (overtaken \/ (i = Len(pending) /\ i > 1))
    /\ UNCHANGED <<loadVars, turnVars, timerVars, selectedProvinceAdcode, style, mouse, clicks>>

\* An error, or nothing for 12 seconds: the panels stay as they are.
LoadFails(i) ==
    /\ Answered(i)
    /\ overtaken' = (overtaken \/ i = Len(pending))
    /\ UNCHANGED <<loadVars, turnVars, timerVars, selectedProvinceAdcode, style, mouse,
                   panelVars, clicks>>

Load    == ListAnswered \/ LoadNextProvince \/ DrawProvince
Turn    == \E id \in TimerIds : NextProvinceInCarousel(id)
Resume  == \E id \in TimerIds : PauseEnds(id)
Answers == \E i \in 1 .. MaxPending : ApplyProvinceData(i) \/ LoadFails(i)
User    == (\E p \in Provinces : EnterProvince(p)) \/ LeaveProvince \/ ClickProvince \/ ClickMap

Next == Load \/ Turn \/ Resume \/ Answers \/ User

Spec == Init /\ [][Next]_vars

\* Timers fire, the map service answers or fails, and every request is answered
\* or given up after its timeout.  Nothing is asked of the user.
FairSpec ==
    /\ Spec
    /\ WF_vars(Load) /\ WF_vars(Turn) /\ WF_vars(Resume) /\ WF_vars(Answers)

-----------------------------------------------------------------------------
\* The browser runs no interval and no timeout but the ones whose ids are kept:
\* the carousel never runs twice, and a click always stops it, even when it was
\* started during a pause (startProvinceCarousel, pauseProvinceCarousel).
NoLostTimer ==
    /\ intervals = {provinceCarouselTimer} \ {Null}
    /\ timeouts \subseteq {provinceCarouselResumeTimer}

\* The map highlights the province selected, once it is drawn, and no other one,
\* however the mouse, the clicks and the carousel take turns.
OneHighlight == \A p \in Provinces :
    style[p] = "selected" <=> p = selectedProvinceAdcode

\* The panels that merge show the rows of q, as far as q has any.  A station type,
\* a line or projects that q lacks stay those of an earlier province, a pie too
\* when q has no stations at all.
ShowsRowsOf(q) ==
    /\ TypesOf[q] # {} => pie = [t \in Types |-> IF t \in TypesOf[q] THEN q ELSE Null]
    /\ \A t \in TypesOf[q] : cards[t] = q
    /\ \A s \in SeriesOf[q] : lines[s] = q
    /\ ProjectsOf[q] = "some" => projects = q

\* In whatever order answers come, and whichever fail: the years of the flow chart
\* and the radar are of one province, every panel for which it has rows shows it,
\* and a type that is in the pie has the same count on its card (applyProvinceData).
\* The comment on stationTypeData wants pie and cards to agree in every type; a type
\* that left the pie still has its card.
PanelsAgree ==
    /\ radar.of = axis
    /\ axis # Demo => ShowsRowsOf(axis)
    /\ \A t \in Types : pie[t] # Null => cards[t] = pie[t]

\* With no request pending, the province that the panels agree on is the one
\* selected, unless the request sent last has failed or was answered before an
\* earlier one; the next selection makes up for that, whatever came before it
\* (selectProvince, loadProvinceData).
PanelsFollowSelection ==
    LET p == selectedProvinceAdcode IN
    ~overtaken /\ pending = <<>> /\ p # Null => axis = p /\ radar.of = p /\ ShowsRowsOf(p)

\* The values of the radar chart never reach the rim, which leaves room for them
\* after rounding too (updateWaterQuality).
RadarLeavesRoom == radar.worst < radar.max

\* Once the user stops clicking, the carousel goes through all the provinces in
\* its list again and again.
CarouselGoesOn == \A p \in Provinces :
    []<>(IndexOf(p, provinceCarouselList) >= 0) => []<>(selectedProvinceAdcode = p)

\* A pause lasts 30 seconds from the last click, says the comment above the
\* carousel.  Clicks do make it longer; but the end of loading cuts it short,
\* and nothing else does (pauseProvinceCarousel, loadNextProvince).
OnlyLoadingCutsPause ==
    [][timeouts # {} /\ intervals = {} /\ intervals' # {}
           => timeouts' = {} \/ (phase = "wait" /\ phase' = "done")]_vars

\* The provinces of the lists, under the mouse and selected are on the map; the
\* ones that are still to be loaded are not.
InProgress ==
    /\ phase = "search" => index < Len(Districts)
    /\ \A i \in DOMAIN Districts : i > index => ~Drawn(Districts[i])
    /\ \A i \in DOMAIN loadedProvinces : Drawn(loadedProvinces[i])
    /\ \A i \in DOMAIN provinceCarouselList : Drawn(provinceCarouselList[i])
    /\ mouse # Null => Drawn(mouse)

\* A carousel that runs has a list, and its index is a place in it.
Turning ==
    /\ intervals # {} => provinceCarouselList # <<>>
    /\ provinceCarouselList # <<>> => provinceCarouselIndex < Len(provinceCarouselList)

\* What the request sent last will show.
LastIsSelected ==
    ~overtaken /\ pending # <<>> => pending[Len(pending)] = selectedProvinceAdcode

\* The inductive invariant: types, timers, what is on the map, and what the
\* panels show or will show.
IInv ==
    /\ TypeOK
    /\ NoLostTimer /\ Turning
    /\ InProgress /\ OneHighlight
    /\ LastIsSelected /\ PanelsAgree /\ PanelsFollowSelection
    /\ RadarLeavesRoom
=============================================================================
