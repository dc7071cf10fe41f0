------------------------------- MODULE MapView -------------------------------
(***************************************************************************)
(* The element #map of the flood control page: the 2D map of initMap.js,   *)
(* the 3D map of map3D.js and the history chart of stationHistoryChart.js  *)
(* take turns in it, each with a chart of its own, while switchMode of     *)
(* modeSwitch.js, the hourly refresh, the legend and the station list      *)
(* redraw whatever is there.                                               *)
(*                                                                         *)
(* It starts when bootstrap() has removed the loading screen.  Stations    *)
(* come by HTTP; RealtimeTransport has the other transport.                *)
(***************************************************************************)
EXTENDS Integers, FiniteSets

CONSTANTS
    Modes,        \* "flood" and "drought"
    FirstMode,
    Stations,     \* names of stations
    Risks,        \* RISK_LEVELS
    Null,         \* JavaScript's null, and a list without items
    WebGL,        \* whether the browser can make a WebGL context
    MaxEvents     \* bound: hourly refreshes, and clicks on a mode, the 3D
                  \* button, a station or "back"

ASSUME ViewAssumption ==
    /\ FirstMode \in Modes
    /\ Null \notin Modes \union Stations \union Risks
    /\ Stations \intersect Risks = {}
    /\ WebGL \in BOOLEAN
    /\ MaxEvents \in Nat

VARIABLES
    \* initMap.js
    currentMode, currentView, mapReady,
    chart,               \* the chart of the map
    points,              \* the mode of allMonitoringPoints
    hoverStation, hoverRisk,
    hidden,              \* the levels that activeRisks leaves out
    \* map3D.js
    refresh3DMapListener,
    \* stationHistoryChart.js
    historyChart, currentStationName, isChartVisible,
    backButton,          \* whether the element chartBackButton exists
    \* the rest of the page
    ec,                  \* ECharts: which charts live, what is drawn on them,
                         \* and which of them the element #map shows
    list,                \* the mode the items of the station list open charts in
    mouse,               \* the item of the list or the legend under the mouse
    pending,             \* requests in flight and what awaits them
    careful,             \* history: the user has waited for every answer and
                         \* left every chart by its button; nothing has failed
    events               \* bound only

mapVars     == <<currentView, mapReady, chart, refresh3DMapListener>>
filterVars  == <<hoverStation, hoverRisk, hidden>>
historyVars == <<historyChart, currentStationName, isChartVisible, backButton>>
vars == <<currentMode, mapVars, points, filterVars, historyVars, ec, list, mouse, pending,
          careful, events>>

-----------------------------------------------------------------------------
\* ECharts.  A chart drawn twice without notMerge shows both; an element shows
\* one chart; disposing of any chart made of an element empties the element.
Charts  == 1 .. 3
NoChart == 0

Filters  == [mode : Modes, station : Stations \union {Null}, risk : Risks \union {Null},
             hidden : SUBSET Risks]
Drawings == [layers : SUBSET {"2d", "3d", "history"}, mode : Modes, points : Modes,
             filter : Filters, station : Stations \union {Null}]

Engines == [live : SUBSET Charts, canvas : [Charts -> Drawings],
            screen : Charts \union {NoChart}]

Blank == [layers |-> {}, mode |-> FirstMode, points |-> FirstMode,
          filter |-> [mode |-> FirstMode, station |-> Null, risk |-> Null, hidden |-> {}],
          station |-> Null]

\* showChartContainer empties the element.
ShowChartContainer(e) == [e EXCEPT !.screen = NoChart]

Disposed(e, c) ==
    IF c \in e.live
    THEN [live |-> e.live \ {c}, canvas |-> [e.canvas EXCEPT ![c] = Blank], screen |-> NoChart]
    ELSE e

\* echarts.init returns the chart that the element shows already.
Opened(e, c) ==
    IF e.screen = NoChart THEN [e EXCEPT !.live = @ \union {c}, !.screen = c] ELSE e

\* setOption of a disposed chart only warns.
Drawn(e, c, d) == IF c \in e.live THEN [e EXCEPT !.canvas[c] = d] ELSE e

NewChart == CHOOSE c \in Charts : c \notin ec.live \union {chart, historyChart}

-----------------------------------------------------------------------------
\* "stations" is the request of modeChanged and of the hourly refresh, "switch"
\* the one for resources that switchMode awaits, "map" that of updateMapForFlood
\* and -Drought, "init" and "files" those of initMap, "back" and "backFiles" the
\* same when switchTo2DMap awaits initMap; "first" opens a chart of a station,
\* "more" reuses it.  n tells equal ones apart.
Kinds == {"stations", "switch", "list", "map", "init", "files", "back", "backFiles", "first",
          "more"}

Requests == [kind : Kinds, mode : Modes, station : Stations \union {Null}, n : Nat]

Twins(r) == {s \in pending : s.kind = r.kind /\ s.mode = r.mode /\ s.station = r.station}

Request(kind, m, s) ==
    LET r == [kind |-> kind, mode |-> m, station |-> s, n |-> 0]
    IN  [r EXCEPT !.n = Cardinality(Twins(r))]

Answered(r) == r \in pending /\ \A s \in Twins(r) : s.n <= r.n

PageTypes ==
    /\ currentMode \in Modes /\ points \in Modes /\ list \in Modes \union {Null}
    /\ currentView \in {"2d", "3d", "chart"}
    /\ mapReady \in BOOLEAN /\ refresh3DMapListener \in BOOLEAN
    /\ chart \in Charts \union {NoChart} /\ historyChart \in Charts \union {NoChart}
    /\ isChartVisible \in BOOLEAN /\ backButton \in BOOLEAN
    /\ currentStationName \in Stations \union {Null}
    /\ hoverStation \in Stations \union {Null} /\ hoverRisk \in Risks \union {Null}
    /\ hidden \in SUBSET Risks
    /\ mouse \in Stations \union Risks \union {Null}
    /\ careful \in BOOLEAN
    /\ events \in Nat

TypeOK ==
    /\ PageTypes
    /\ ec \in Engines
    /\ pending \subseteq Requests /\ IsFiniteSet(pending)

\* What getFilteredMonitoringPoints goes by.  The level of a point is that for
\* the mode of the page (getRiskKeyByMode), whatever mode the points are of.
Filter == [mode |-> currentMode, station |-> hoverStation, risk |-> hoverRisk,
           hidden |-> hidden]

Map2D(d, m, data, filter) ==
    [d EXCEPT !.layers = @ \union {"2d"}, !.mode = m, !.points = data, !.filter = filter]

\* build3DMapOption, drawn with notMerge; it knows no filter.
Map3D(m, data) == [Blank EXCEPT !.layers = {"3d"}, !.mode = m, !.points = data]

History(d, s, m) == [d EXCEPT !.layers = @ \union {"history"}, !.mode = m, !.station = s]

\* The series with the id monitoringPoints, where there is one.
WithPoints(d, data, filter) ==
    IF "2d" \in d.layers THEN [d EXCEPT !.points = data, !.filter = filter] ELSE d

\* refreshMonitoringPointsOnMap
Refreshed(e, data, filter) ==
    IF currentView # "chart" /\ chart # NoChart /\ mapReady
    THEN Drawn(e, chart, WithPoints(e.canvas[chart], data, filter))
    ELSE e

Redraw(filter) == ec' = Refreshed(ec, points, filter)

Init ==
    /\ currentMode = FirstMode /\ points = FirstMode /\ list = FirstMode
    /\ currentView = "2d" /\ mapReady = TRUE /\ chart = 1
    /\ hoverStation = Null /\ hoverRisk = Null /\ hidden = {}
    /\ refresh3DMapListener = FALSE
    /\ historyChart = NoChart /\ currentStationName = Null
    /\ isChartVisible = FALSE /\ backButton = FALSE
    /\ ec = [live |-> {1}, screen |-> 1,
             canvas |-> [c \in Charts |-> IF c = 1 THEN Map2D(Blank, FirstMode, FirstMode, Filter)
                                                   ELSE Blank]]
    /\ mouse = Null
    /\ pending = {}
    /\ careful = TRUE
    /\ events = 0

-----------------------------------------------------------------------------
\* The filter: hovering and clicking in the legend, hovering over the list.
\* The loading mask covers the legend, and showChartContainer hides it.
FilterStep == UNCHANGED <<currentMode, mapVars, points, historyVars, list, pending, careful,
                          events>>

LegendShown == mapReady /\ ~isChartVisible

\* New items; the one under the mouse goes without a mouseleave.
RenderRiskLegend == mouse' = IF mouse \in Risks THEN Null ELSE mouse

EnterItem(s) ==
    /\ mouse = Null /\ list # Null
    /\ mouse' = s
    /\ hoverStation' = s
    /\ Redraw([Filter EXCEPT !.station = s])
    /\ UNCHANGED <<hoverRisk, hidden>>
    /\ FilterStep

LeaveItem ==
    /\ mouse \in Stations
    /\ mouse' = Null
    /\ hoverStation' = Null
    /\ Redraw([Filter EXCEPT !.station = Null])
    /\ UNCHANGED <<hoverRisk, hidden>>
    /\ FilterStep

EnterLegend(r) ==
    /\ mouse = Null /\ LegendShown
    /\ mouse' = r
    /\ hoverRisk' = r
    /\ Redraw([Filter EXCEPT !.risk = r])
    /\ UNCHANGED <<hoverStation, hidden>>
    /\ FilterStep

LeaveLegend ==
    /\ mouse \in Risks
    /\ mouse' = Null
    /\ hoverRisk' = Null
    /\ Redraw([Filter EXCEPT !.risk = Null])
    /\ UNCHANGED <<hoverStation, hidden>>
    /\ FilterStep

ClickLegend(r) ==
    /\ mouse = r /\ LegendShown
    /\ hidden' = IF r \in hidden THEN hidden \ {r} ELSE hidden \union {r}
    /\ Redraw([Filter EXCEPT !.hidden = hidden'])
    /\ UNCHANGED <<hoverStation, hoverRisk, mouse>>
    /\ FilterStep

ResetLegend ==
    /\ mouse = Null /\ LegendShown /\ hidden # {}
    /\ hidden' = {}
    /\ Redraw([Filter EXCEPT !.hidden = {}])
    /\ UNCHANGED <<hoverStation, hoverRisk, mouse>>
    /\ FilterStep

-----------------------------------------------------------------------------
\* A click; the user of the history variable has waited for all answers.
Click ==
    /\ events < MaxEvents
    /\ events' = events + 1

Patient == careful' = (careful /\ pending = {})

\* initStationHistoryChart up to its await, and what its caller does to a map
\* that stays (redrawn).  The element is emptied even when it shows the map.
OpenHistory(s, m, redrawn) ==
    /\ currentStationName' = s
    /\ IF isChartVisible /\ historyChart # NoChart
       THEN /\ pending' = pending \union {Request("more", m, s)}
            /\ ec' = redrawn
            /\ UNCHANGED <<currentView, historyChart, isChartVisible>>
       ELSE /\ isChartVisible' = TRUE
            /\ currentView' = "chart"
            /\ IF historyChart \in ec.live
               THEN ec' = ShowChartContainer(ec) /\ UNCHANGED historyChart
               ELSE ec' = Opened(ShowChartContainer(ec), NewChart) /\ historyChart' = NewChart
            /\ pending' = pending \union {Request("first", m, s)}
    /\ UNCHANGED <<currentMode, mapReady, chart, refresh3DMapListener, points, backButton, list,
                   hoverRisk, hidden>>

ClickItem ==
    /\ mouse \in Stations /\ list # Null
    /\ Click /\ Patient
    /\ OpenHistory(mouse, list, ec)
    /\ UNCHANGED <<hoverStation, mouse>>

\* The click handler of the map, for a station that is drawn.  It leaves the
\* station in hoverStation.
ClickMap(s) ==
    /\ mouse = Null /\ mapReady
    /\ chart # NoChart /\ ec.screen = chart
    /\ "2d" \in ec.canvas[chart].layers
    /\ ec.canvas[chart].filter.station \in {Null, s}
    /\ Click /\ Patient
    /\ OpenHistory(s, currentMode, Refreshed(ec, points, [Filter EXCEPT !.station = s]))
    /\ hoverStation' = s
    /\ UNCHANGED mouse

\* Only the branch that opens the chart creates the button.
CreateBackButton(r) == backButton' = (backButton \/ r.kind = "first")

\* Fault: an answer for a station that is not the last one clicked is dropped.
HistoryAnsweredInTime(r) ==
    /\ Answered(r) /\ r.kind \in {"first", "more"}
    /\ pending' = pending \ {r}
    /\ IF historyChart = NoChart \/ r.station # currentStationName
       THEN UNCHANGED <<ec, backButton>>
       ELSE /\ ec' = Drawn(ec, historyChart, History(ec.canvas[historyChart], r.station, r.mode))
            /\ CreateBackButton(r)
    /\ UNCHANGED <<currentMode, mapVars, points, filterVars, historyChart, currentStationName,
                   isChartVisible, list, mouse, careful, events>>

\* initStationHistoryChart after its await; a failed request draws an empty
\* history of the same station.  When hideChart has set the chart to null,
\* hideLoading throws and that is all.
HistoryAnswered(r) ==
    /\ Answered(r) /\ r.kind \in {"first", "more"}
    /\ pending' = pending \ {r}
    /\ IF historyChart = NoChart
       THEN UNCHANGED <<ec, backButton>>
       ELSE /\ ec' = Drawn(ec, historyChart, History(ec.canvas[historyChart], r.station, r.mode))
            /\ CreateBackButton(r)
    /\ UNCHANGED <<currentMode, mapVars, points, filterVars, historyChart, currentStationName,
                   isChartVisible, list, mouse, careful, events>>

\* hideChart, when its initMap will find the mode m.  The module initMap.js is
\* loaded already: initMap starts before the next event.
HideChart(m) ==
    /\ ec' = Disposed(ec, historyChart)
    /\ historyChart' = NoChart
    /\ backButton' = FALSE
    /\ isChartVisible' = FALSE
    /\ currentView' = "2d"
    /\ mapReady' = FALSE
    /\ UNCHANGED <<currentStationName, chart, refresh3DMapListener>>

ClickBack ==
    /\ backButton /\ mouse = Null
    /\ Click /\ Patient
    /\ HideChart(currentMode)
    /\ pending' = pending \union {Request("init", currentMode, Null)}
    /\ UNCHANGED <<currentMode, points, filterVars, list, mouse>>

-----------------------------------------------------------------------------
\* initMap
InitKinds == {"init", "back"}
FileKinds == {"files", "backFiles"}

\* fetchStationData after its await: a failed request leaves allMonitoringPoints.
FetchStations(r) ==
    \/ points' = r.mode /\ UNCHANGED careful
    \/ UNCHANGED points /\ careful' = FALSE

\* After the stations come three files.
InitStations(r) ==
    /\ Answered(r) /\ r.kind \in InitKinds
    /\ FetchStations(r)
    /\ pending' = (pending \ {r}) \union
           {Request(IF r.kind = "init" THEN "files" ELSE "backFiles", r.mode, Null)}
    /\ UNCHANGED <<currentMode, mapVars, filterVars, historyVars, ec, list, mouse, events>>

\* Fault: the filter is not applied to a new map.
DrawMapUnfiltered(e) ==
    /\ chart' = e.screen
    /\ ec' = Drawn(e, e.screen, Map2D(e.canvas[e.screen], currentMode, points, Blank.filter))

DrawMap(e) ==
    /\ chart' = e.screen
    /\ ec' = Drawn(e, e.screen, Map2D(e.canvas[e.screen], currentMode, points, Filter))

\* A new chart for the map, in the mode of the moment and whatever the view is
\* by now.  switchTo2DMap renders the legend again.
FilesLoaded(r) ==
    /\ Answered(r) /\ r.kind \in FileKinds
    /\ DrawMap(Opened(Disposed(ec, chart), NewChart))
    /\ mapReady' = TRUE
    /\ IF r.kind = "backFiles" THEN RenderRiskLegend ELSE UNCHANGED mouse
    /\ pending' = pending \ {r}
    /\ UNCHANGED <<currentMode, currentView, refresh3DMapListener, points, filterVars,
                   historyVars, list, careful, events>>

FilesFail(r) ==
    /\ Answered(r) /\ r.kind \in FileKinds
    /\ mapReady' = FALSE
    /\ careful' = FALSE
    /\ pending' = pending \ {r}
    /\ UNCHANGED <<currentMode, currentView, chart, refresh3DMapListener, points, filterVars,
                   historyVars, ec, list, mouse, events>>

-----------------------------------------------------------------------------
CanShow3D == mapReady /\ chart \in ec.live /\ WebGL

\* update3DMapForCurrentMode
Show3D(data) == IF mapReady THEN Drawn(ec, chart, Map3D(currentMode, data)) ELSE ec

\* Fault: the view is not set back when the map cannot be drawn in 3D.
SwitchTo3DKeepingView ==
    /\ currentView = "2d" /\ mouse = Null
    /\ Click /\ Patient
    /\ currentView' = "3d"
    /\ IF CanShow3D
       THEN ec' = Show3D(points) /\ refresh3DMapListener' = TRUE
       ELSE UNCHANGED <<ec, refresh3DMapListener>>
    /\ UNCHANGED <<currentMode, mapReady, chart, points, filterVars, historyVars, list, mouse,
                   pending>>

\* toggle3DView: from the 2D map.
SwitchTo3D ==
    /\ currentView = "2d" /\ mouse = Null
    /\ Click /\ Patient
    /\ IF CanShow3D
       THEN /\ currentView' = "3d"
            /\ ec' = Show3D(points)
            /\ refresh3DMapListener' = TRUE
       ELSE UNCHANGED <<currentView, ec, refresh3DMapListener>>
    /\ UNCHANGED <<currentMode, mapReady, chart, points, filterVars, historyVars, list, mouse,
                   pending>>

\* Fault: the flag of the 2D map is not reset when the map is disposed of.
SwitchTo2DKeepingReady ==
    /\ currentView # "2d" /\ mouse = Null
    /\ Click
    /\ careful' = (careful /\ pending = {} /\ currentView = "3d")
    /\ currentView' = "2d"
    /\ ec' = Disposed(ec, chart)
    /\ chart' = NoChart
    /\ refresh3DMapListener' = FALSE
    /\ pending' = pending \union {Request("back", currentMode, Null)}
    /\ UNCHANGED <<currentMode, mapReady, points, filterVars, historyVars, list, mouse>>

\* From the 3D map, and from a history chart too, which stays what it is.
SwitchTo2D ==
    /\ currentView # "2d" /\ mouse = Null
    /\ Click
    /\ careful' = (careful /\ pending = {} /\ currentView = "3d")
    /\ currentView' = "2d"
    /\ ec' = Disposed(ec, chart)
    /\ chart' = NoChart
    /\ refresh3DMapListener' = FALSE
    /\ mapReady' = FALSE
    /\ pending' = pending \union {Request("back", currentMode, Null)}
    /\ UNCHANGED <<currentMode, points, filterVars, historyVars, list, mouse>>

-----------------------------------------------------------------------------
\* switchMode up to its await; the modeChanged listener requests the stations.
SwitchMode(m) ==
    /\ currentMode # m /\ mouse = Null
    /\ Click /\ Patient
    /\ currentMode' = m
    /\ pending' = pending \union {Request("stations", m, Null), Request("switch", m, Null)}
    /\ UNCHANGED <<mapVars, points, filterVars, historyVars, ec, list, mouse>>

\* Fault: a history chart stays open when the mode is switched.
FinishSwitchKeepingChart(r) ==
    /\ Answered(r) /\ r.kind = "switch"
    /\ UNCHANGED <<currentView, mapReady, chart, refresh3DMapListener, historyVars>>
    /\ IF currentView' = "3d"
       THEN /\ ec' = Show3D(points)
            /\ pending' = (pending \ {r}) \union {Request("list", currentMode, Null)}
            /\ UNCHANGED currentMode
       ELSE /\ currentMode' = r.mode
            /\ UNCHANGED ec
            /\ pending' = (pending \ {r}) \union
                   {Request("list", currentMode, Null), Request("map", r.mode, Null)}
    /\ UNCHANGED <<points, filterVars, list, mouse, careful, events>>

\* switchMode after its await.  hideChart leads to the 2D map, so that its
\* initMap and updateMapForFlood or -Drought both load stations.
FinishSwitch(r) ==
    /\ Answered(r) /\ r.kind = "switch"
    /\ IF isChartVisible
       THEN HideChart(r.mode)
       ELSE /\ UNCHANGED <<currentView, mapReady, chart, refresh3DMapListener, historyVars>>
            /\ ec' = IF currentView = "3d" THEN Show3D(points) ELSE ec
    /\ currentMode' = IF currentView' = "3d" THEN currentMode ELSE r.mode
    /\ pending' = (pending \ {r}) \union {Request("list", currentMode, Null)}
           \union (IF currentView' = "3d" THEN {} ELSE {Request("map", r.mode, Null)})
           \union (IF isChartVisible THEN {Request("init", r.mode, Null)} ELSE {})
    /\ UNCHANGED <<points, filterVars, list, mouse, careful, events>>

\* updateMapForFlood or -Drought after its await: over the chart of the moment,
\* unless the map is hidden by a history chart or being loaded.
MapAnswered(r) ==
    /\ Answered(r) /\ r.kind = "map"
    /\ FetchStations(r)
    /\ ec' = IF currentView # "chart" /\ chart # NoChart /\ mapReady
             THEN Drawn(ec, chart, Map2D(ec.canvas[chart], r.mode, points', Filter))
             ELSE ec
    /\ pending' = pending \ {r}
    /\ UNCHANGED <<currentMode, mapVars, filterVars, historyVars, list, mouse, events>>

\* The items of the list are made anew, for the mode of the moment; data of
\* another mode make none.  The element under the mouse goes without a mouseleave.
RenderList(shown) ==
    /\ list' = IF shown = currentMode THEN shown ELSE Null
    /\ mouse' = IF mouse \in Stations THEN Null ELSE mouse

\* refreshCurrentHourStationsByHttp and applyStations; after a failure the list
\* is empty.  The event refresh3DMap ends in update3DMapForCurrentMode.
StationsAnswered(r) ==
    /\ Answered(r) /\ r.kind = "stations"
    /\ \/ points' = r.mode /\ RenderList(r.mode) /\ UNCHANGED careful
       \/ UNCHANGED points /\ RenderList(Null) /\ careful' = FALSE
    /\ ec' = IF currentView = "3d" /\ mapReady /\ refresh3DMapListener
             THEN Show3D(points')
             ELSE Refreshed(ec, points', Filter)
    /\ pending' = pending \ {r}
    /\ UNCHANGED <<currentMode, mapVars, filterVars, historyVars, events>>

\* fetchAndRenderStations; refused, it leaves the list.
ListAnswered(r) ==
    /\ Answered(r) /\ r.kind = "list"
    /\ \/ RenderList(r.mode) /\ UNCHANGED careful
       \/ RenderList(Null) /\ careful' = FALSE
       \/ UNCHANGED <<list, mouse>> /\ careful' = FALSE
    /\ pending' = pending \ {r}
    /\ UNCHANGED <<currentMode, mapVars, points, filterVars, historyVars, ec, events>>

\* The timer of scheduleNextHourHttpRefresh.
HourlyRefresh ==
    /\ events < MaxEvents
    /\ events' = events + 1
    /\ pending' = pending \union {Request("stations", currentMode, Null)}
    /\ UNCHANGED <<currentMode, mapVars, points, filterVars, historyVars, ec, list, mouse,
                   careful>>

Next ==
    \/ \E s \in Stations : EnterItem(s) \/ ClickMap(s)
    \/ \E k \in Risks : EnterLegend(k) \/ ClickLegend(k)
    \/ \E m \in Modes : SwitchMode(m)
    \/ LeaveItem \/ LeaveLegend \/ ResetLegend
    \/ ClickItem \/ ClickBack \/ SwitchTo3D \/ SwitchTo2D
    \/ HourlyRefresh
    \/ \E r \in pending : \/ HistoryAnswered(r) \/ InitStations(r) \/ FilesLoaded(r)
                          \/ FilesFail(r) \/ FinishSwitch(r) \/ MapAnswered(r)
                          \/ StationsAnswered(r) \/ ListAnswered(r)

Spec == Init /\ [][Next]_vars

-----------------------------------------------------------------------------
Shown == ec.canvas[ec.screen]

\* A user who waits for all answers, on a page whose requests do not fail, and
\* who leaves a history chart by its button: whenever all is answered, the
\* element shows the view that currentView names, for the mode of the page; the
\* map has the stations of that mode, the history is that of the last click.
ScreenMatchesView == careful /\ pending = {} =>
    /\ ec.screen = (IF currentView = "chart" THEN historyChart ELSE chart)
    /\ ec.screen # NoChart
    /\ Shown.layers = {IF currentView = "chart" THEN "history" ELSE currentView}
    /\ Shown.mode = currentMode
    /\ IF currentView = "chart" THEN Shown.station = currentStationName
                                ELSE Shown.points = currentMode

\* Why a careful user sees what the page believes.  Every answer to come is for
\* the mode of the page and the last station clicked, and data of another mode
\* are about to be replaced.
Awaited(kinds) == \E r \in pending : r.kind \in kinds

LoadKinds == InitKinds \union FileKinds

AnswersOfPage == \A r \in pending :
    /\ r.mode = currentMode
    /\ r.kind \in {"first", "more"} => r.station = currentStationName

DataOfPage == Awaited({"stations"}) \/ (points = currentMode /\ list = currentMode)

\* The variables that tell the view agree, and only a 2D map is being loaded.
ViewsAgree ==
    /\ isChartVisible <=> currentView = "chart"
    /\ isChartVisible <=> historyChart # NoChart
    /\ backButton => isChartVisible
    /\ Awaited(LoadKinds \union {"map"}) => currentView = "2d"

\* A map that can be used is shown and up to date, or an answer will make it so;
\* one that cannot is being loaded into an empty element.
MapOfPage == currentView # "chart" =>
    IF mapReady
    THEN /\ chart \in ec.live /\ ec.screen = chart
         /\ Shown.layers = {currentView}
         /\ Shown.mode = currentMode \/ Awaited({"switch", "map"})
         /\ Shown.points = currentMode \/ Awaited({"stations"})
    ELSE currentView = "2d" /\ ec.screen = NoChart /\ Awaited(LoadKinds)

\* The same of a history chart, which closes when the mode is switched.
HistoryOfPage == currentView = "chart" =>
    /\ historyChart \in ec.live /\ ec.screen = historyChart /\ historyChart # chart
    /\ \/ Awaited({"first", "more"}) /\ Shown.layers \subseteq {"history"}
       \/ /\ Shown.layers = {"history"} /\ Shown.station = currentStationName
          /\ Shown.mode = currentMode \/ Awaited({"switch"})

\* Nothing is left on a chart that was disposed of.
DeadChartsBlank == \A c \in Charts \ ec.live : ec.canvas[c] = Blank

PageInOrder == AnswersOfPage /\ DataOfPage /\ ViewsAgree /\ MapOfPage /\ HistoryOfPage

\* For a careful user the page is in order at every instant, between a click and
\* its last answer too (switchMode, initMap, initStationHistoryChart).
CarefulInv == DeadChartsBlank /\ (careful => PageInOrder)

\* The answers that redraw the map, failed ones too (applyStations, and
\* updateMapForFlood and -Drought).
Redrawing == Awaited({"stations", "map"})

\* However hovering, clicks, loads and switches interleave: a 2D map that can be
\* used is drawn with the station, the level and the hidden levels of the moment
\* (getFilteredMonitoringPoints), and with the levels of the points for the mode
\* of the moment, unless an answer is still to come that redraws it.  A switch
\* changes that mode at once and redraws nothing, so that until then the hidden
\* levels hide the points by their levels for the mode that was left.
MapShowsFilter ==
    mapReady /\ currentView # "chart" /\ chart \in ec.live /\ "2d" \in ec.canvas[chart].layers
        => LET drawn == ec.canvas[chart].filter IN
           /\ [drawn EXCEPT !.mode = currentMode] = Filter
           /\ drawn.mode = currentMode \/ Redrawing

\* A history chart can always be left: it has its back button, or the answer
\* that will create it (createBackButton) is still to come and finds a chart.
ChartCanBeLeft == currentView = "chart" =>
    /\ historyChart # NoChart
    /\ backButton \/ \E r \in pending : r.kind = "first"

\* The 3D map follows the data: while it is the view, refresh3DMap is heard.
ThreeDListens == currentView = "3d" => refresh3DMapListener

\* The bookkeeping: a chart that lives is known to the code, and so are a history
\* chart and its way out; the legend is not hovered under a history chart.
ChartsKnown == ec.live \subseteq {chart, historyChart}
VisibleHasChart == isChartVisible => historyChart # NoChart
ChartViewVisible == currentView = "chart" => isChartVisible

IInv ==
    /\ TypeOK
    /\ ChartsKnown /\ VisibleHasChart /\ ChartViewVisible
    /\ ChartCanBeLeft /\ ThreeDListens
=============================================================================
