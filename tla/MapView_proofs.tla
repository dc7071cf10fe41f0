--------------------------- MODULE MapView_proofs ---------------------------
(***************************************************************************)
(* The element #map for any modes, stations, risk levels and bounds: the   *)
(* bookkeeping of its charts, the way out of a history chart, and the      *)
(* filter a 2D map is drawn with.                                          *)
(*                                                                         *)
(* The operations on ECharts are functions of its state, so that a lemma   *)
(* says of each of them what it returns; an action is then a few of them.  *)
(***************************************************************************)
EXTENDS MapView, FiniteSetTheorems, TLAPS

\* There are three charts and the code knows two: a new one can be had.
LEMMA NewChartIsNew ==
    ASSUME ChartsKnown
    PROVE  /\ NewChart \in Charts /\ NewChart # NoChart /\ NewChart \notin ec.live
           /\ NewChart # chart
<1>1. \E c \in Charts : c \notin {chart, historyChart}
    BY DEF Charts
<1>2. \E c \in Charts : c \notin ec.live \union {chart, historyChart}
    BY <1>1 DEF ChartsKnown
<1>3. NewChart \in Charts /\ NewChart \notin ec.live \union {chart, historyChart}
    BY <1>2 DEF NewChart
<1> QED BY <1>3 DEF Charts, NoChart

LEMMA RequestTyped ==
    ASSUME IsFiniteSet(pending), NEW kind \in Kinds, NEW m \in Modes,
           NEW s \in Stations \union {Null}
    PROVE  Request(kind, m, s) \in Requests /\ Request(kind, m, s).kind = kind
<1> DEFINE r == [kind |-> kind, mode |-> m, station |-> s, n |-> 0]
<1>1. Twins(r) \subseteq pending
    BY DEF Twins
<1>2. Cardinality(Twins(r)) \in Nat
    BY <1>1, FS_Subset, FS_CardinalityType
<1> QED BY <1>2 DEF Request, Requests

\* What pending becomes: an answer less, some requests more.
PendingTyped == pending \subseteq Requests /\ IsFiniteSet(pending)

LEMMA PendingGrows ==
    ASSUME PendingTyped, NEW old, NEW a \in Requests,
           pending' = (pending \ old) \union {a}
    PROVE  PendingTyped'
<1>1. IsFiniteSet(pending \ old) /\ IsFiniteSet({a})
    BY FS_Subset, FS_Singleton DEF PendingTyped
<1> QED BY <1>1, FS_Union DEF PendingTyped

LEMMA PendingGrowsTwice ==
    ASSUME PendingTyped, NEW old, NEW a \in Requests, NEW b \in Requests,
           pending' = (pending \ old) \union {a, b}
    PROVE  PendingTyped'
<1>1. IsFiniteSet(pending \ old) /\ IsFiniteSet({a}) /\ IsFiniteSet({b})
    BY FS_Subset, FS_Singleton DEF PendingTyped
<1>2. IsFiniteSet({a} \union {b})
    BY <1>1, FS_Union
<1>3. IsFiniteSet((pending \ old) \union ({a} \union {b}))
    BY <1>1, <1>2, FS_Union
<1>4. (pending \ old) \union ({a} \union {b}) = pending'
    OBVIOUS
<1> QED BY <1>3, <1>4 DEF PendingTyped

LEMMA PendingShrinks ==
    ASSUME PendingTyped, NEW old, pending' = pending \ old
    PROVE  PendingTyped'
BY FS_Subset DEF PendingTyped

-----------------------------------------------------------------------------
\* The operations on ECharts return states of ECharts, and no chart comes to
\* life but the one that is made.
LEMMA FilterTyped == PageTypes => Filter \in Filters
BY DEF PageTypes, Filter, Filters

LEMMA BlankTyped == Blank \in Drawings
BY ViewAssumption DEF Blank, Drawings, Filters

LEMMA Map2DTyped ==
    ASSUME NEW d \in Drawings, NEW m \in Modes, NEW data \in Modes, NEW f \in Filters
    PROVE  /\ Map2D(d, m, data, f) \in Drawings
           /\ Map2D(d, m, data, f).filter = f
BY DEF Map2D, Drawings

LEMMA Map3DTyped ==
    ASSUME NEW m \in Modes, NEW data \in Modes
    PROVE  Map3D(m, data) \in Drawings /\ "2d" \notin Map3D(m, data).layers
BY BlankTyped DEF Map3D, Drawings, Blank

LEMMA HistoryTyped ==
    ASSUME NEW d \in Drawings, NEW s \in Stations \union {Null}, NEW m \in Modes
    PROVE  /\ History(d, s, m) \in Drawings
           /\ History(d, s, m).filter = d.filter
           /\ "2d" \in History(d, s, m).layers => "2d" \in d.layers
BY DEF History, Drawings

LEMMA WithPointsTyped ==
    ASSUME NEW d \in Drawings, NEW data \in Modes, NEW f \in Filters
    PROVE  /\ WithPoints(d, data, f) \in Drawings
           /\ "2d" \in WithPoints(d, data, f).layers => WithPoints(d, data, f).filter = f
BY DEF WithPoints, Drawings

LEMMA DrawnTyped ==
    ASSUME NEW e \in Engines, NEW c, NEW d \in Drawings
    PROVE  /\ Drawn(e, c, d) \in Engines
           /\ Drawn(e, c, d).live = e.live
           /\ c \in e.live => Drawn(e, c, d).canvas[c] = d
           /\ \A o \in Charts : o # c => Drawn(e, c, d).canvas[o] = e.canvas[o]
BY DEF Drawn, Engines

LEMMA DisposedTyped ==
    ASSUME NEW e \in Engines, NEW c
    PROVE  /\ Disposed(e, c) \in Engines
           /\ Disposed(e, c).live = e.live \ {c}
BY BlankTyped DEF Disposed, Engines, NoChart

LEMMA OpenedTyped ==
    ASSUME NEW e \in Engines, NEW c \in Charts
    PROVE  /\ Opened(e, c) \in Engines
           /\ Opened(e, c).live \subseteq e.live \union {c}
           /\ Opened(e, c).screen \in Charts
           /\ e.screen = NoChart => Opened(e, c).live = e.live \union {c} /\ Opened(e, c).screen = c
           /\ e.screen # NoChart => Opened(e, c) = e
           /\ Opened(e, c).canvas = e.canvas
BY DEF Opened, Engines, NoChart

LEMMA EmptiedTyped ==
    ASSUME NEW e \in Engines
    PROVE  /\ ShowChartContainer(e) \in Engines
           /\ ShowChartContainer(e).live = e.live
           /\ ShowChartContainer(e).screen = NoChart
           /\ ShowChartContainer(e).canvas = e.canvas
BY DEF ShowChartContainer, Engines, NoChart

LEMMA RefreshedTyped ==
    ASSUME PageTypes, ec \in Engines, NEW data \in Modes, NEW f \in Filters
    PROVE  /\ Refreshed(ec, data, f) \in Engines
           /\ Refreshed(ec, data, f).live = ec.live
<1>1. CASE chart \in Charts
    <2>1. WithPoints(ec.canvas[chart], data, f) \in Drawings
        BY <1>1, WithPointsTyped DEF Engines
    <2> QED BY <2>1, DrawnTyped DEF Refreshed
<1>2. CASE chart = NoChart
    BY <1>2 DEF Refreshed
<1> QED BY <1>1, <1>2 DEF PageTypes

LEMMA Show3DTyped ==
    ASSUME PageTypes, ec \in Engines, NEW data \in Modes
    PROVE  Show3D(data) \in Engines /\ Show3D(data).live = ec.live
BY Map3DTyped, DrawnTyped DEF Show3D, PageTypes

-----------------------------------------------------------------------------
\* The invariant but for the types.
Bookkeeping ==
    /\ ChartsKnown /\ VisibleHasChart /\ ChartViewVisible
    /\ ChartCanBeLeft /\ ThreeDListens

LEMMA IInvParts == IInv <=> PageTypes /\ ec \in Engines /\ PendingTyped /\ Bookkeeping
BY DEF IInv, TypeOK, PendingTyped, Bookkeeping

LEMMA IInvPartsNext ==
    ASSUME PageTypes', (ec \in Engines)', PendingTyped', Bookkeeping'
    PROVE  IInv'
BY DEF IInv, TypeOK, PendingTyped, Bookkeeping

\* A step that leaves the view and its charts alone, keeps the requests that
\* will create a back button, and leaves live only what lived.
Harmless ==
    /\ UNCHANGED <<currentView, chart, refresh3DMapListener, historyChart, isChartVisible>>
    /\ ec'.live \subseteq ec.live
    /\ backButton => backButton'
    /\ \A r \in pending : r.kind = "first" /\ r \notin pending' => backButton'

LEMMA HarmlessKeeps == ASSUME Bookkeeping, Harmless PROVE Bookkeeping'
BY DEF Bookkeeping, Harmless, ChartsKnown, VisibleHasChart, ChartViewVisible, ChartCanBeLeft,
       ThreeDListens

LEMMA InitIInv == Init => IInv
<1> SUFFICES ASSUME Init PROVE IInv
    OBVIOUS
<1> USE ViewAssumption DEF Init
<1>1. PageTypes
    <2>1. chart \in Charts
        BY DEF Charts
    <2> QED BY <2>1 DEF PageTypes
<1>2. ec \in Engines
    <2>1. Map2D(Blank, FirstMode, FirstMode, Filter) \in Drawings
        BY <1>1, BlankTyped, FilterTyped, Map2DTyped
    <2> QED BY <2>1, BlankTyped DEF Engines, Charts
<1>3. PendingTyped
    BY FS_EmptySet DEF PendingTyped
<1>4. Bookkeeping
    BY DEF Bookkeeping, ChartsKnown, VisibleHasChart, ChartViewVisible, ChartCanBeLeft,
           ThreeDListens
<1> QED BY <1>1, <1>2, <1>3, <1>4, IInvParts

-----------------------------------------------------------------------------
\* Hovering and the legend: the filter changes, the map is drawn with it.
LEMMA FilterSteps ==
    ASSUME IInv, FilterStep, NEW f \in Filters, Redraw(f),
           hoverStation' \in Stations \union {Null}, hoverRisk' \in Risks \union {Null},
           hidden' \in SUBSET Risks, mouse' \in Stations \union Risks \union {Null}
    PROVE  IInv'
<1>1. PageTypes'
    BY DEF IInv, TypeOK, PageTypes, FilterStep, mapVars, historyVars
<1>2. ec' \in Engines /\ ec'.live = ec.live
    BY RefreshedTyped DEF Redraw, IInv, TypeOK, PageTypes
<1>3. PendingTyped'
    BY DEF IInv, TypeOK, PendingTyped, FilterStep
<1>4. Harmless
    BY <1>2 DEF Harmless, FilterStep, mapVars, historyVars
<1> QED BY <1>1, <1>2, <1>3, <1>4, HarmlessKeeps, IInvParts, IInvPartsNext

LEMMA EnterItemStep ==
    ASSUME IInv, NEW s \in Stations, EnterItem(s)
    PROVE  IInv' /\ FilterStep /\ Redraw(Filter')
<1>1. Filter' \in Filters /\ Redraw(Filter')
    BY DEF EnterItem, FilterStep, Filter, Filters, IInv, TypeOK, PageTypes
<1> QED BY <1>1, FilterSteps DEF EnterItem, IInv, TypeOK, PageTypes

LEMMA LegendStep ==
    ASSUME IInv, NEW k \in Risks, EnterLegend(k) \/ ClickLegend(k)
    PROVE  IInv' /\ FilterStep /\ Redraw(Filter')
<1>1. hidden' \in SUBSET Risks
    BY DEF EnterLegend, ClickLegend, IInv, TypeOK, PageTypes
<1>2. CASE EnterLegend(k)
    <2>1. Filter' \in Filters /\ Redraw(Filter')
        BY <1>2 DEF EnterLegend, FilterStep, Filter, Filters, IInv, TypeOK, PageTypes
    <2> QED BY <1>2, <2>1, FilterSteps DEF EnterLegend, IInv, TypeOK, PageTypes
<1>3. CASE ClickLegend(k)
    <2>1. Filter' \in Filters /\ Redraw(Filter')
        BY <1>1, <1>3 DEF ClickLegend, FilterStep, Filter, Filters, IInv, TypeOK, PageTypes
    <2> QED BY <1>1, <1>3, <2>1, FilterSteps DEF ClickLegend, IInv, TypeOK, PageTypes
<1> QED BY <1>2, <1>3

LEMMA LeaveStep ==
    ASSUME IInv, LeaveItem \/ LeaveLegend \/ ResetLegend
    PROVE  IInv' /\ FilterStep /\ Redraw(Filter')
<1>1. CASE LeaveItem
    <2>1. Filter' \in Filters /\ Redraw(Filter')
        BY <1>1 DEF LeaveItem, FilterStep, Filter, Filters, IInv, TypeOK, PageTypes
    <2> QED BY <1>1, <2>1, FilterSteps DEF LeaveItem, IInv, TypeOK, PageTypes
<1>2. CASE LeaveLegend
    <2>1. Filter' \in Filters /\ Redraw(Filter')
        BY <1>2 DEF LeaveLegend, FilterStep, Filter, Filters, IInv, TypeOK, PageTypes
    <2> QED BY <1>2, <2>1, FilterSteps DEF LeaveLegend, IInv, TypeOK, PageTypes
<1>3. CASE ResetLegend
    <2>1. Filter' \in Filters /\ Redraw(Filter')
        BY <1>3 DEF ResetLegend, FilterStep, Filter, Filters, IInv, TypeOK, PageTypes
    <2> QED BY <1>3, <2>1, FilterSteps DEF ResetLegend, IInv, TypeOK, PageTypes
<1> QED BY <1>1, <1>2, <1>3

-----------------------------------------------------------------------------
\* Opening a history chart, answering it, leaving it.
LEMMA OpenHistoryStep ==
    ASSUME IInv, NEW s \in Stations, NEW m \in Modes, NEW redrawn \in Engines,
           redrawn.live = ec.live, OpenHistory(s, m, redrawn), Click, Patient,
           hoverStation' \in Stations \union {Null}, UNCHANGED mouse
    PROVE  IInv'
<1> USE DEF OpenHistory
<1>1. PageTypes /\ ec \in Engines /\ PendingTyped /\ Bookkeeping
    BY IInvParts
<1>2. events' \in Nat /\ careful' \in BOOLEAN
    BY <1>1 DEF PageTypes, Click, Patient
<1>3. CASE isChartVisible /\ historyChart # NoChart
    <2>1. PageTypes'
        BY <1>1, <1>2, <1>3 DEF PageTypes
    <2>2. Request("more", m, s) \in Requests
        BY <1>1, RequestTyped DEF PendingTyped, Kinds
    <2>3. PendingTyped'
        BY <1>1, <1>3, <2>2, PendingGrows DEF PendingTyped
    <2>4. Harmless
        BY <1>3 DEF Harmless
    <2> QED BY <1>1, <1>3, <2>1, <2>3, <2>4, HarmlessKeeps, IInvPartsNext
<1>4. CASE ~(isChartVisible /\ historyChart # NoChart)
    <2>1. NewChart \in Charts /\ NewChart # NoChart /\ NewChart \notin ec.live
        BY <1>1, NewChartIsNew DEF Bookkeeping
    <2>2. historyChart' \in Charts /\ historyChart' # NoChart
        BY <1>1, <1>4, <2>1 DEF Engines, Charts, NoChart
    <2>3. ec' \in Engines /\ ec'.live \subseteq ec.live \union {historyChart'}
        BY <1>1, <1>4, <2>1, EmptiedTyped, OpenedTyped
    <2>4. historyChart' = historyChart \/ historyChart \notin ec.live
        BY <1>4
    <2>5. PageTypes'
        BY <1>1, <1>2, <1>4, <2>2 DEF PageTypes
    <2>6. Request("first", m, s) \in Requests /\ Request("first", m, s).kind = "first"
        BY <1>1, RequestTyped DEF PendingTyped, Kinds
    <2>7. PendingTyped'
        BY <1>1, <1>4, <2>6, PendingGrows DEF PendingTyped
    <2>8. ChartsKnown'
        BY <1>1, <1>4, <2>3, <2>4 DEF Bookkeeping, ChartsKnown
    <2>9. ChartCanBeLeft'
        BY <1>4, <2>2, <2>6 DEF ChartCanBeLeft
    <2>10. VisibleHasChart' /\ ChartViewVisible' /\ ThreeDListens'
        BY <1>4, <2>2 DEF VisibleHasChart, ChartViewVisible, ThreeDListens
    <2> QED BY <2>3, <2>5, <2>7, <2>8, <2>9, <2>10, IInvPartsNext DEF Bookkeeping
<1> QED BY <1>3, <1>4

LEMMA ClickItemStep == ASSUME IInv, ClickItem PROVE IInv'
<1>1. mouse \in Stations /\ list \in Modes /\ hoverStation' \in Stations \union {Null}
    BY DEF ClickItem, IInv, TypeOK, PageTypes
<1> QED BY <1>1, OpenHistoryStep DEF ClickItem, IInv, TypeOK

LEMMA ClickMapStep == ASSUME IInv, NEW s \in Stations, ClickMap(s) PROVE IInv'
<1> DEFINE f == [Filter EXCEPT !.station = s]
<1>1. f \in Filters
    BY FilterTyped DEF Filters, IInv, TypeOK
<1>2. Refreshed(ec, points, f) \in Engines /\ Refreshed(ec, points, f).live = ec.live
    BY <1>1, RefreshedTyped DEF IInv, TypeOK, PageTypes
<1> QED BY <1>2, OpenHistoryStep DEF ClickMap, IInv, TypeOK, PageTypes

LEMMA HistoryStep == ASSUME IInv, NEW r \in pending, HistoryAnswered(r) PROVE IInv'
<1> USE DEF HistoryAnswered, CreateBackButton, mapVars, filterVars
<1>1. PageTypes /\ ec \in Engines /\ PendingTyped /\ Bookkeeping
    BY IInvParts
<1>2. PageTypes'
    <2>1. backButton' \in BOOLEAN
        BY <1>1 DEF PageTypes
    <2> QED BY <1>1, <2>1 DEF PageTypes
<1>3. PendingTyped'
    BY <1>1, PendingShrinks
<1>4. CASE historyChart = NoChart
    <2>1. ec' \in Engines
        BY <1>1, <1>4
    <2>2. Bookkeeping'
        BY <1>1, <1>4 DEF Bookkeeping, ChartsKnown, VisibleHasChart, ChartViewVisible,
                          ChartCanBeLeft, ThreeDListens
    <2> QED BY <1>2, <1>3, <2>1, <2>2, IInvPartsNext
<1>5. CASE historyChart # NoChart
    <2>1. r.station \in Stations \union {Null} /\ r.mode \in Modes
        BY <1>1 DEF PendingTyped, Requests
    <2>2. ec.canvas[historyChart] \in Drawings
        BY <1>1, <1>5 DEF PageTypes, Engines
    <2>3. ec' \in Engines /\ ec'.live = ec.live
        BY <1>1, <1>5, <2>1, <2>2, HistoryTyped, DrawnTyped
    <2>4. Harmless
        BY <1>5, <2>3 DEF Harmless
    <2> QED BY <1>1, <1>2, <1>3, <2>3, <2>4, HarmlessKeeps, IInvPartsNext
<1> QED BY <1>4, <1>5

\* hideChart disposes of the history chart and forgets it.
LEMMA HideChartStep ==
    ASSUME PageTypes, ec \in Engines, Bookkeeping, NEW m, HideChart(m)
    PROVE  ec' \in Engines /\ Bookkeeping'
<1> USE DEF HideChart
<1>1. ec' \in Engines /\ ec'.live = ec.live \ {historyChart}
    BY DisposedTyped
<1> QED BY <1>1 DEF Bookkeeping, ChartsKnown, VisibleHasChart, ChartViewVisible, ChartCanBeLeft,
                    ThreeDListens

LEMMA ClickBackStep == ASSUME IInv, ClickBack PROVE IInv'
<1> USE DEF ClickBack
<1>1. PageTypes /\ ec \in Engines /\ PendingTyped /\ Bookkeeping
    BY IInvParts
<1>2. PageTypes'
    <2>1. events' \in Nat /\ careful' \in BOOLEAN
        BY <1>1 DEF PageTypes, Click, Patient
    <2> QED BY <1>1, <2>1 DEF PageTypes, HideChart, filterVars
<1>3. ec' \in Engines /\ Bookkeeping'
    BY <1>1, HideChartStep
<1>4. Request("init", currentMode, Null) \in Requests
    BY <1>1, RequestTyped DEF PageTypes, PendingTyped, Kinds
<1>5. PendingTyped'
    BY <1>1, <1>4, PendingGrows DEF PendingTyped
<1> QED BY <1>2, <1>3, <1>5, IInvPartsNext

-----------------------------------------------------------------------------
\* Loading the map.
LEMMA FetchTyped ==
    ASSUME PageTypes, NEW r \in Requests, FetchStations(r)
    PROVE  points' \in Modes /\ careful' \in BOOLEAN
BY DEF FetchStations, PageTypes, Requests

LEMMA InitStationsStep == ASSUME IInv, NEW r \in pending, InitStations(r) PROVE IInv'
<1> USE DEF InitStations, mapVars, historyVars
<1>1. PageTypes /\ ec \in Engines /\ PendingTyped /\ Bookkeeping /\ r \in Requests
    BY IInvParts DEF PendingTyped
<1>2. PageTypes'
    BY <1>1, FetchTyped DEF PageTypes, filterVars
<1> DEFINE kind == IF r.kind = "init" THEN "files" ELSE "backFiles"
<1>3. kind \in Kinds /\ r.mode \in Modes
    BY <1>1 DEF Kinds, Requests
<1>4. Request(kind, r.mode, Null) \in Requests
    BY <1>1, <1>3, RequestTyped DEF PendingTyped
<1>5. PendingTyped'
    BY <1>1, <1>4, PendingGrows
<1>6. Harmless
    BY DEF Harmless, InitKinds
<1> QED BY <1>1, <1>2, <1>5, <1>6, HarmlessKeeps, IInvPartsNext

\* The chart that a new map is drawn on, and which charts live then.
LEMMA MapChart ==
    ASSUME PageTypes, ec \in Engines, ChartsKnown
    PROVE  LET e == Opened(Disposed(ec, chart), NewChart) IN
           /\ e \in Engines
           /\ e.screen \in Charts
           /\ e.live \subseteq {historyChart, e.screen}
<1> DEFINE g == Disposed(ec, chart)
           e == Opened(g, NewChart)
<1>1. g \in Engines /\ g.live = ec.live \ {chart}
    BY DisposedTyped
<1>2. NewChart \in Charts
    BY NewChartIsNew
<1>3. /\ e \in Engines /\ e.screen \in Charts
      /\ g.screen = NoChart => e.live = g.live \union {NewChart} /\ e.screen = NewChart
      /\ g.screen # NoChart => e = g
    BY <1>1, <1>2, OpenedTyped
<1>4. g.live \subseteq {historyChart}
    BY <1>1 DEF ChartsKnown
<1> QED BY <1>3, <1>4

LEMMA FilesLoadedStep == ASSUME IInv, NEW r \in pending, FilesLoaded(r) PROVE IInv'
<1> USE DEF FilesLoaded
<1>1. PageTypes /\ ec \in Engines /\ PendingTyped /\ Bookkeeping
    BY IInvParts
<1> DEFINE e == Opened(Disposed(ec, chart), NewChart)
<1>2. e \in Engines /\ e.screen \in Charts /\ e.live \subseteq {historyChart, e.screen}
    BY <1>1, MapChart DEF Bookkeeping
<1>3. e.canvas[e.screen] \in Drawings
    BY <1>2 DEF Engines
<1>4. Map2D(e.canvas[e.screen], currentMode, points, Filter) \in Drawings
    BY <1>1, <1>3, FilterTyped, Map2DTyped DEF PageTypes
<1>5. ec' \in Engines /\ ec'.live = e.live /\ chart' = e.screen
    BY <1>2, <1>4, DrawnTyped DEF DrawMap
<1>6. PageTypes'
    BY <1>1, <1>2, <1>5 DEF PageTypes, filterVars, historyVars, RenderRiskLegend
<1>7. PendingTyped'
    BY <1>1, PendingShrinks
<1>8. Bookkeeping'
    BY <1>1, <1>2, <1>5 DEF Bookkeeping, ChartsKnown, VisibleHasChart, ChartViewVisible,
        ChartCanBeLeft, ThreeDListens, historyVars, FileKinds
<1> QED BY <1>5, <1>6, <1>7, <1>8, IInvPartsNext

LEMMA FilesFailStep == ASSUME IInv, NEW r \in pending, FilesFail(r) PROVE IInv'
<1> USE DEF FilesFail, historyVars
<1>1. PageTypes /\ ec \in Engines /\ PendingTyped /\ Bookkeeping
    BY IInvParts
<1>2. PageTypes'
    BY <1>1 DEF PageTypes, filterVars
<1>3. PendingTyped'
    BY <1>1, PendingShrinks
<1>4. Harmless
    BY DEF Harmless, FileKinds
<1> QED BY <1>1, <1>2, <1>3, <1>4, HarmlessKeeps, IInvPartsNext

-----------------------------------------------------------------------------
\* The 3D button.
LEMMA SwitchTo3DStep == ASSUME IInv, SwitchTo3D PROVE IInv'
<1> USE DEF SwitchTo3D, historyVars
<1>1. PageTypes /\ ec \in Engines /\ PendingTyped /\ Bookkeeping
    BY IInvParts
<1>2. events' \in Nat /\ careful' \in BOOLEAN
    BY <1>1 DEF PageTypes, Click, Patient
<1>3. ec' \in Engines /\ ec'.live = ec.live
    BY <1>1, Show3DTyped DEF PageTypes
<1>4. PageTypes'
    BY <1>1, <1>2 DEF PageTypes, filterVars
<1>5. PendingTyped'
    BY <1>1 DEF PendingTyped
<1>6. Bookkeeping'
    BY <1>1, <1>3 DEF Bookkeeping, ChartsKnown, VisibleHasChart, ChartViewVisible,
        ChartCanBeLeft, ThreeDListens
<1> QED BY <1>3, <1>4, <1>5, <1>6, IInvPartsNext

LEMMA SwitchTo2DStep == ASSUME IInv, SwitchTo2D PROVE IInv'
<1> USE DEF SwitchTo2D, historyVars
<1>1. PageTypes /\ ec \in Engines /\ PendingTyped /\ Bookkeeping
    BY IInvParts
<1>2. events' \in Nat /\ careful' \in BOOLEAN
    BY <1>1 DEF PageTypes, Click
<1>3. ec' \in Engines /\ ec'.live = ec.live \ {chart}
    BY <1>1, DisposedTyped
<1>4. PageTypes'
    BY <1>1, <1>2 DEF PageTypes, filterVars
<1>5. Request("back", currentMode, Null) \in Requests
    BY <1>1, RequestTyped DEF PageTypes, PendingTyped, Kinds
<1>6. PendingTyped'
    BY <1>1, <1>5, PendingGrows DEF PendingTyped
<1>7. Bookkeeping'
    BY <1>1, <1>3 DEF Bookkeeping, ChartsKnown, VisibleHasChart, ChartViewVisible,
        ChartCanBeLeft, ThreeDListens
<1> QED BY <1>3, <1>4, <1>6, <1>7, IInvPartsNext

-----------------------------------------------------------------------------
\* Switching the mode, and the answers that follow.
LEMMA SwitchModeStep == ASSUME IInv, NEW m \in Modes, SwitchMode(m) PROVE IInv'
<1> USE DEF SwitchMode, mapVars, historyVars
<1>1. PageTypes /\ ec \in Engines /\ PendingTyped /\ Bookkeeping
    BY IInvParts
<1>2. events' \in Nat /\ careful' \in BOOLEAN
    BY <1>1 DEF PageTypes, Click, Patient
<1>3. PageTypes'
    BY <1>1, <1>2 DEF PageTypes, filterVars
<1>4. Request("stations", m, Null) \in Requests /\ Request("switch", m, Null) \in Requests
    BY <1>1, RequestTyped DEF PendingTyped, Kinds
<1>5. PendingTyped'
    BY <1>1, <1>4, PendingGrowsTwice DEF PendingTyped
<1>6. Harmless
    BY DEF Harmless
<1> QED BY <1>1, <1>3, <1>5, <1>6, HarmlessKeeps, IInvPartsNext

LEMMA FinishSwitchPending ==
    ASSUME PageTypes, PendingTyped, NEW r \in pending, FinishSwitch(r)
    PROVE  PendingTyped'
<1>1. /\ Request("list", currentMode, Null) \in Requests
      /\ Request("map", r.mode, Null) \in Requests
      /\ Request("init", r.mode, Null) \in Requests
    BY RequestTyped DEF PageTypes, PendingTyped, Kinds, Requests
<1> DEFINE a == {Request("list", currentMode, Null)}
           b == IF currentView' = "3d" THEN {} ELSE {Request("map", r.mode, Null)}
           c == IF isChartVisible THEN {Request("init", r.mode, Null)} ELSE {}
<1>2. IsFiniteSet(a) /\ IsFiniteSet(b) /\ IsFiniteSet(c)
    BY FS_Singleton, FS_EmptySet
<1>3. IsFiniteSet(pending \ {r})
    BY FS_Subset DEF PendingTyped
<1>4. IsFiniteSet(((pending \ {r}) \union a) \union b)
    BY <1>2, <1>3, FS_Union
<1>5. IsFiniteSet((((pending \ {r}) \union a) \union b) \union c)
    BY <1>2, <1>4, FS_Union
<1>6. pending' = (((pending \ {r}) \union a) \union b) \union c
    BY DEF FinishSwitch
<1> QED BY <1>1, <1>5, <1>6 DEF PendingTyped

LEMMA FinishSwitchStep == ASSUME IInv, NEW r \in pending, FinishSwitch(r) PROVE IInv'
<1> USE DEF FinishSwitch
<1>1. PageTypes /\ ec \in Engines /\ PendingTyped /\ Bookkeeping
    BY IInvParts
<1>2. r.mode \in Modes
    BY <1>1 DEF PendingTyped, Requests
<1>3. PendingTyped'
    BY <1>1, FinishSwitchPending
<1>4. CASE isChartVisible
    <2>1. HideChart(r.mode)
        BY <1>4
    <2>2. ec' \in Engines /\ Bookkeeping'
        BY <1>1, <2>1, HideChartStep
    <2>3. PageTypes'
        BY <1>1, <1>2, <2>1 DEF PageTypes, HideChart, filterVars
    <2> QED BY <1>3, <2>2, <2>3, IInvPartsNext
<1>5. CASE ~isChartVisible
    <2>1. UNCHANGED <<currentView, mapReady, chart, refresh3DMapListener, historyVars>>
        BY <1>5
    <2>2. ec' \in Engines /\ ec'.live = ec.live
        BY <1>1, <1>5, Show3DTyped DEF PageTypes
    <2>3. PageTypes'
        BY <1>1, <1>2, <2>1 DEF PageTypes, historyVars, filterVars
    <2>4. Harmless
        BY <2>1, <2>2 DEF Harmless, historyVars
    <2> QED BY <1>1, <1>3, <2>2, <2>3, <2>4, HarmlessKeeps, IInvPartsNext
<1> QED BY <1>4, <1>5

LEMMA MapAnsweredStep == ASSUME IInv, NEW r \in pending, MapAnswered(r) PROVE IInv'
<1> USE DEF MapAnswered, mapVars, historyVars
<1>1. PageTypes /\ ec \in Engines /\ PendingTyped /\ Bookkeeping /\ r \in Requests
    BY IInvParts DEF PendingTyped
<1>2. points' \in Modes /\ careful' \in BOOLEAN /\ r.mode \in Modes
    BY <1>1, FetchTyped DEF Requests
<1>3. PageTypes'
    BY <1>1, <1>2 DEF PageTypes, filterVars
<1>4. ec' \in Engines /\ ec'.live = ec.live
    <2>1. CASE chart # NoChart
        <3>1. ec.canvas[chart] \in Drawings
            BY <1>1, <2>1 DEF PageTypes, Engines
        <3>2. Map2D(ec.canvas[chart], r.mode, points', Filter) \in Drawings
            BY <1>1, <1>2, <3>1, FilterTyped, Map2DTyped
        <3> QED BY <1>1, <3>2, DrawnTyped
    <2>2. CASE chart = NoChart
        BY <1>1, <2>2
    <2> QED BY <2>1, <2>2
<1>5. PendingTyped'
    BY <1>1, PendingShrinks
<1>6. Harmless
    BY <1>4 DEF Harmless
<1> QED BY <1>1, <1>3, <1>4, <1>5, <1>6, HarmlessKeeps, IInvPartsNext

LEMMA StationsAnsweredStep == ASSUME IInv, NEW r \in pending, StationsAnswered(r) PROVE IInv'
<1> USE DEF StationsAnswered, mapVars, historyVars
<1>1. PageTypes /\ ec \in Engines /\ PendingTyped /\ Bookkeeping /\ r \in Requests
    BY IInvParts DEF PendingTyped
<1>2. /\ points' \in Modes /\ careful' \in BOOLEAN
      /\ list' \in Modes \union {Null} /\ mouse' \in Stations \union Risks \union {Null}
    BY <1>1 DEF PageTypes, RenderList, Requests
<1>3. PageTypes'
    BY <1>1, <1>2 DEF PageTypes, filterVars
<1>4. ec' \in Engines /\ ec'.live = ec.live
    BY <1>1, <1>2, Show3DTyped, RefreshedTyped, FilterTyped
<1>5. PendingTyped'
    BY <1>1, PendingShrinks
<1>6. Harmless
    BY <1>4 DEF Harmless
<1> QED BY <1>1, <1>3, <1>4, <1>5, <1>6, HarmlessKeeps, IInvPartsNext

LEMMA ListAnsweredStep == ASSUME IInv, NEW r \in pending, ListAnswered(r) PROVE IInv'
<1> USE DEF ListAnswered, mapVars, historyVars
<1>1. PageTypes /\ ec \in Engines /\ PendingTyped /\ Bookkeeping /\ r \in Requests
    BY IInvParts DEF PendingTyped
<1>2. /\ careful' \in BOOLEAN
      /\ list' \in Modes \union {Null} /\ mouse' \in Stations \union Risks \union {Null}
    BY <1>1 DEF PageTypes, RenderList, Requests
<1>3. PageTypes'
    BY <1>1, <1>2 DEF PageTypes, filterVars
<1>4. PendingTyped'
    BY <1>1, PendingShrinks
<1>5. Harmless
    BY DEF Harmless
<1> QED BY <1>1, <1>3, <1>4, <1>5, HarmlessKeeps, IInvPartsNext

LEMMA HourlyRefreshStep == ASSUME IInv, HourlyRefresh PROVE IInv'
<1> USE DEF HourlyRefresh, mapVars, historyVars
<1>1. PageTypes /\ ec \in Engines /\ PendingTyped /\ Bookkeeping
    BY IInvParts
<1>2. PageTypes'
    <2>1. events' \in Nat
        BY <1>1 DEF PageTypes
    <2> QED BY <1>1, <2>1 DEF PageTypes, filterVars
<1>3. Request("stations", currentMode, Null) \in Requests
    BY <1>1, RequestTyped DEF PageTypes, PendingTyped, Kinds
<1>4. PendingTyped'
    BY <1>1, <1>3, PendingGrows DEF PendingTyped
<1>5. Harmless
    BY DEF Harmless
<1> QED BY <1>1, <1>2, <1>4, <1>5, HarmlessKeeps, IInvPartsNext

LEMMA StutterStep == ASSUME IInv, UNCHANGED vars PROVE IInv'
BY DEF vars, mapVars, filterVars, historyVars, IInv, TypeOK, PageTypes, ChartsKnown,
       VisibleHasChart, ChartViewVisible, ChartCanBeLeft, ThreeDListens

LEMMA IInvStep == IInv /\ [Next]_vars => IInv'
<1> SUFFICES ASSUME IInv, Next PROVE IInv'
    BY StutterStep
<1>1. CASE \E s \in Stations : EnterItem(s) \/ ClickMap(s)
    <2>1. PICK s \in Stations : EnterItem(s) \/ ClickMap(s)
        BY <1>1
    <2>2. CASE EnterItem(s)
        BY <2>2, EnterItemStep
    <2> QED BY <2>1, <2>2, ClickMapStep
<1>2. CASE \E k \in Risks : EnterLegend(k) \/ ClickLegend(k)
    BY <1>2, LegendStep
<1>3. CASE \E m \in Modes : SwitchMode(m)
    BY <1>3, SwitchModeStep
<1>4. CASE LeaveItem \/ LeaveLegend \/ ResetLegend
    BY <1>4, LeaveStep
<1>5. CASE ClickItem \/ ClickBack \/ SwitchTo3D \/ SwitchTo2D
    BY <1>5, ClickItemStep, ClickBackStep, SwitchTo3DStep, SwitchTo2DStep
<1>6. CASE HourlyRefresh
    BY <1>6, HourlyRefreshStep
<1>7. ASSUME NEW r \in pending,
             \/ HistoryAnswered(r) \/ InitStations(r) \/ FilesLoaded(r)
             \/ FilesFail(r) \/ FinishSwitch(r) \/ MapAnswered(r)
             \/ StationsAnswered(r) \/ ListAnswered(r)
      PROVE  IInv'
    BY <1>7, HistoryStep, InitStationsStep, FilesLoadedStep, FilesFailStep, FinishSwitchStep,
       MapAnsweredStep, StationsAnsweredStep, ListAnsweredStep
<1> QED BY <1>1, <1>2, <1>3, <1>4, <1>5, <1>6, <1>7 DEF Next

\* What the page believes of the charts in #map is so, whatever the order of
\* clicks and answers (initMap.js, map3D.js, stationHistoryChart.js).
THEOREM Invariance == Spec => []IInv
BY InitIInv, IInvStep, PTL DEF Spec

\* A user is never caught in a history chart: there is the back button or the
\* request that will bring it (createBackButton of stationHistoryChart.js).
THEOREM ChartsCanBeLeft == Spec => []ChartCanBeLeft
<1>1. IInv => ChartCanBeLeft
    BY DEF IInv
<1> QED BY <1>1, Invariance, PTL

-----------------------------------------------------------------------------
\* The filter.  What a redraw of the map and a 3D map leave to be seen of it,
\* and what a step that does not redraw keeps.
Usable(e) ==
    mapReady /\ currentView # "chart" /\ chart \in e.live /\ "2d" \in e.canvas[chart].layers

Follows(e, f) == Usable(e) => e.canvas[chart].filter = f

Fits(e, f, redrawing) == Usable(e) =>
    /\ [e.canvas[chart].filter EXCEPT !.mode = f.mode] = f
    /\ e.canvas[chart].filter.mode = f.mode \/ redrawing

LEMMA ShowsIsFits == MapShowsFilter <=> Fits(ec, Filter, Redrawing)
BY DEF MapShowsFilter, Fits, Usable, Filter

LEMMA FollowsFits ==
    ASSUME NEW e, NEW f \in Filters, NEW b, Follows(e, f)
    PROVE  Fits(e, f, b)
BY DEF Follows, Fits, Filters

\* Requests that redraw nothing come and go.
LEMMA RequestKind ==
    ASSUME NEW kind, NEW m, NEW s
    PROVE  Request(kind, m, s).kind = kind
BY DEF Request

LEMMA RedrawingKept ==
    ASSUME NEW r, r.kind \notin {"stations", "map"}, pending \ {r} \subseteq pending'
    PROVE  Redrawing => Redrawing'
BY DEF Redrawing, Awaited

LEMMA RefreshedFollows ==
    ASSUME PageTypes, ec \in Engines, NEW data \in Modes, NEW f \in Filters
    PROVE  Follows(Refreshed(ec, data, f), f)
<1> SUFFICES ASSUME mapReady, currentView # "chart", chart \in Refreshed(ec, data, f).live
             PROVE  "2d" \in Refreshed(ec, data, f).canvas[chart].layers
                        => Refreshed(ec, data, f).canvas[chart].filter = f
    BY DEF Follows, Usable
<1>1. chart \in ec.live /\ chart \in Charts /\ chart # NoChart
    BY RefreshedTyped DEF Engines, Charts, NoChart
<1>2. ec.canvas[chart] \in Drawings
    BY <1>1 DEF Engines
<1>3. Refreshed(ec, data, f).canvas[chart] = WithPoints(ec.canvas[chart], data, f)
    BY <1>1, <1>2, WithPointsTyped, DrawnTyped DEF Refreshed
<1> QED BY <1>2, <1>3, WithPointsTyped

LEMMA Show3DFollows ==
    ASSUME PageTypes, ec \in Engines, NEW data \in Modes, NEW f
    PROVE  Follows(Show3D(data), f)
BY Map3DTyped, DrawnTyped, Show3DTyped DEF Follows, Usable, Show3D, PageTypes

LEMMA Show3DFlat ==
    ASSUME PageTypes, ec \in Engines, NEW data \in Modes, mapReady, chart \in ec.live
    PROVE  "2d" \notin Show3D(data).canvas[chart].layers
BY Map3DTyped, DrawnTyped DEF Show3D, PageTypes

\* A step that leaves the map and its filter alone, but for the mode, which
\* changes with a request that redraws.
LEMMA UntouchedShows ==
    ASSUME MapShowsFilter,
           UNCHANGED <<mapReady, currentView, chart, ec, hoverStation, hoverRisk, hidden>>,
           (UNCHANGED currentMode /\ (Redrawing => Redrawing')) \/ Redrawing'
    PROVE  MapShowsFilter'
BY DEF MapShowsFilter, Filter

\* One that redraws it.
LEMMA RedrawnShows ==
    ASSUME UNCHANGED <<mapReady, currentView, chart>>, Filter' \in Filters, Follows(ec', Filter')
    PROVE  MapShowsFilter'
BY DEF MapShowsFilter, Follows, Usable, Filter, Filters

LEMMA FilterStepShows ==
    ASSUME IInv, IInv', FilterStep, Redraw(Filter')
    PROVE  MapShowsFilter'
<1>1. PageTypes /\ ec \in Engines /\ points \in Modes
    BY DEF IInv, TypeOK, PageTypes
<1>2. Filter' \in Filters
    BY DEF IInv, TypeOK, PageTypes, Filter, Filters
<1> QED BY <1>1, <1>2, RefreshedFollows, RedrawnShows DEF Redraw, FilterStep, mapVars

LEMMA OpenHistoryShows ==
    ASSUME MapShowsFilter, NEW s, NEW m, NEW redrawn, OpenHistory(s, m, redrawn),
           Fits(redrawn, Filter', Redrawing)
    PROVE  MapShowsFilter'
<1>1. CASE isChartVisible /\ historyChart # NoChart
    <2>1. UNCHANGED <<mapReady, currentView, chart>> /\ ec' = redrawn /\ pending \subseteq pending'
        BY <1>1 DEF OpenHistory
    <2>2. Redrawing => Redrawing'
        BY <2>1 DEF Redrawing, Awaited
    <2> QED BY <2>1, <2>2 DEF MapShowsFilter, Fits, Usable, Filter
<1>2. CASE ~(isChartVisible /\ historyChart # NoChart)
    BY <1>2 DEF OpenHistory, MapShowsFilter
<1> QED BY <1>1, <1>2

LEMMA ClicksShow ==
    ASSUME IInv, MapShowsFilter, ClickItem \/ \E s \in Stations : ClickMap(s)
    PROVE  MapShowsFilter'
<1>1. PageTypes /\ ec \in Engines /\ points \in Modes
    BY DEF IInv, TypeOK, PageTypes
<1>2. CASE ClickItem
    <2>1. Filter' = Filter
        BY <1>2 DEF ClickItem, OpenHistory, Filter
    <2>2. Fits(ec, Filter', Redrawing)
        BY <2>1, ShowsIsFits
    <2> QED BY <1>2, <2>2, OpenHistoryShows DEF ClickItem
<1>3. CASE \E s \in Stations : ClickMap(s)
    <2>1. PICK s \in Stations : ClickMap(s)
        BY <1>3
    <2> DEFINE f == [Filter EXCEPT !.station = s]
    <2>2. Filter' = f
        BY <2>1 DEF ClickMap, OpenHistory, Filter
    <2>3. f \in Filters
        BY <1>1, FilterTyped DEF Filters
    <2>4. Fits(Refreshed(ec, points, f), f, Redrawing)
        BY <1>1, <2>3, RefreshedFollows, FollowsFits
    <2> QED BY <2>1, <2>2, <2>4, OpenHistoryShows DEF ClickMap
<1> QED BY <1>2, <1>3

\* A history is drawn beside what the chart shows, and changes no filter.
LEMMA HistoryShows ==
    ASSUME IInv, MapShowsFilter, NEW r \in pending, HistoryAnswered(r)
    PROVE  MapShowsFilter'
<1>1. PageTypes /\ ec \in Engines /\ r \in Requests
    BY DEF IInv, TypeOK
<1>2. Filter' = Filter /\ UNCHANGED <<mapReady, currentView, chart, currentMode>>
    BY DEF HistoryAnswered, mapVars, filterVars, Filter
<1>5. Redrawing => Redrawing'
    BY RedrawingKept DEF HistoryAnswered
<1>3. CASE historyChart = NoChart
    BY <1>2, <1>3, <1>5 DEF HistoryAnswered, MapShowsFilter
<1>4. CASE historyChart # NoChart
    <2> DEFINE d == History(ec.canvas[historyChart], r.station, r.mode)
    <2>1. ec.canvas[historyChart] \in Drawings /\ r.station \in Stations \union {Null}
          /\ r.mode \in Modes /\ historyChart \in Charts
        BY <1>1, <1>4 DEF PageTypes, Engines, Requests
    <2>2. /\ d \in Drawings /\ d.filter = ec.canvas[historyChart].filter
          /\ "2d" \in d.layers => "2d" \in ec.canvas[historyChart].layers
        BY <2>1, HistoryTyped
    <2>3. ec' = Drawn(ec, historyChart, d)
        BY <1>4 DEF HistoryAnswered
    <2>4. ASSUME chart \in ec'.live
          PROVE  /\ chart \in ec.live
                 /\ "2d" \in ec'.canvas[chart].layers => "2d" \in ec.canvas[chart].layers
                 /\ ec'.canvas[chart].filter = ec.canvas[chart].filter
        <3>1. ec'.live = ec.live /\ chart \in Charts
            BY <1>1, <2>2, <2>3, <2>4, DrawnTyped DEF Engines
        <3> QED BY <1>1, <2>2, <2>3, <2>4, <3>1, DrawnTyped
    <2> QED BY <1>2, <1>5, <2>4 DEF MapShowsFilter
<1> QED BY <1>3, <1>4

\* initMap and updateMapForFlood or -Drought draw with the filter of the moment.
LEMMA MapDrawn ==
    ASSUME NEW e \in Engines, NEW c \in Charts, NEW m \in Modes, NEW data \in Modes,
           NEW f \in Filters
    PROVE  Drawn(e, c, Map2D(e.canvas[c], m, data, f)).canvas[c].filter = f
             \/ c \notin Drawn(e, c, Map2D(e.canvas[c], m, data, f)).live
<1>1. e.canvas[c] \in Drawings
    BY DEF Engines
<1> QED BY <1>1, Map2DTyped, DrawnTyped

LEMMA FilterShows ==
    ASSUME Filter' \in Filters, chart' \in ec'.live => ec'.canvas[chart'].filter = Filter'
    PROVE  MapShowsFilter'
BY DEF MapShowsFilter, Filter, Filters

LEMMA FilesShow ==
    ASSUME IInv, NEW r \in pending, FilesLoaded(r) \/ FilesFail(r)
    PROVE  MapShowsFilter'
<1>1. PageTypes /\ ec \in Engines /\ ChartsKnown
    BY DEF IInv, TypeOK
<1>2. CASE FilesLoaded(r)
    <2> DEFINE e == Opened(Disposed(ec, chart), NewChart)
    <2>1. e \in Engines /\ e.screen \in Charts
        BY <1>1, MapChart
    <2>2. Filter \in Filters /\ currentMode \in Modes /\ points \in Modes
        BY <1>1, FilterTyped DEF PageTypes
    <2>3. /\ chart' = e.screen
          /\ ec' = Drawn(e, e.screen, Map2D(e.canvas[e.screen], currentMode, points, Filter))
          /\ Filter' = Filter
        BY <1>2 DEF FilesLoaded, DrawMap, filterVars, Filter
    <2>4. chart' \in ec'.live => ec'.canvas[chart'].filter = Filter'
        BY <2>1, <2>2, <2>3, MapDrawn
    <2> QED BY <2>2, <2>3, <2>4, FilterShows
<1> QED BY <1>2 DEF FilesFail, MapShowsFilter

LEMMA MapAnswerShows ==
    ASSUME IInv, MapShowsFilter, NEW r \in pending, MapAnswered(r)
    PROVE  MapShowsFilter'
<1>1. PageTypes /\ ec \in Engines /\ r \in Requests
    BY DEF IInv, TypeOK
<1>2. Filter' = Filter /\ Filter \in Filters /\ UNCHANGED <<mapReady, currentView, chart>>
    BY <1>1, FilterTyped DEF MapAnswered, mapVars, filterVars, Filter
<1>3. points' \in Modes /\ r.mode \in Modes
    BY <1>1, FetchTyped DEF MapAnswered, Requests
<1>4. CASE currentView # "chart" /\ chart # NoChart /\ mapReady
    <2>1. chart \in Charts
        BY <1>1, <1>4 DEF PageTypes
    <2>2. ec' = Drawn(ec, chart, Map2D(ec.canvas[chart], r.mode, points', Filter))
        BY <1>4 DEF MapAnswered
    <2>3. chart' \in ec'.live => ec'.canvas[chart'].filter = Filter'
        BY <1>1, <1>2, <1>3, <2>1, <2>2, MapDrawn
    <2> QED BY <1>2, <2>3, FilterShows
<1>5. CASE ~(currentView # "chart" /\ chart # NoChart /\ mapReady)
    BY <1>1, <1>2, <1>5 DEF MapAnswered, MapShowsFilter, Engines, Charts, NoChart
<1> QED BY <1>4, <1>5

LEMMA StationsShow ==
    ASSUME IInv, NEW r \in pending, StationsAnswered(r)
    PROVE  MapShowsFilter'
<1>1. PageTypes /\ ec \in Engines /\ r \in Requests
    BY DEF IInv, TypeOK
<1>2. points' \in Modes /\ Filter \in Filters /\ Filter' = Filter
    BY <1>1, FilterTyped DEF StationsAnswered, PageTypes, Requests, filterVars, Filter
<1>3. Follows(ec', Filter')
    BY <1>1, <1>2, Show3DFollows, RefreshedFollows DEF StationsAnswered
<1> QED BY <1>2, <1>3, RedrawnShows DEF StationsAnswered, mapVars

LEMMA SwitchesShow ==
    ASSUME IInv, IInv', MapShowsFilter,
           \/ SwitchTo3D \/ SwitchTo2D \/ ClickBack
           \/ \E r \in pending : FinishSwitch(r)
    PROVE  MapShowsFilter'
<1>1. PageTypes /\ ec \in Engines /\ points \in Modes /\ Filter' \in Filters
    BY DEF IInv, TypeOK, PageTypes, Filter, Filters
<1>2. CASE SwitchTo3D
    <2>1. CASE CanShow3D
        <3>1. ec' = Show3D(points) /\ mapReady' = mapReady /\ chart' = chart
            BY <1>2, <2>1 DEF SwitchTo3D
        <3>2. Follows(Show3D(points), Filter')
            BY <1>1, Show3DFollows
        <3>3. currentView # "chart" /\ UNCHANGED <<filterVars, currentMode>>
            BY <1>2 DEF SwitchTo3D
        <3>4. chart \in ec'.live => "2d" \notin ec'.canvas[chart].layers
            BY <1>1, <1>2, <2>1, <3>1, Show3DFlat DEF SwitchTo3D, CanShow3D
        <3> QED BY <3>1, <3>4 DEF MapShowsFilter
    <2>2. CASE ~CanShow3D
        BY <1>2, <2>2, UntouchedShows DEF SwitchTo3D, filterVars, Redrawing, Awaited
    <2> QED BY <2>1, <2>2
<1>3. CASE SwitchTo2D \/ ClickBack
    BY <1>3 DEF SwitchTo2D, ClickBack, HideChart, MapShowsFilter
<1>4. ASSUME NEW r \in pending, FinishSwitch(r) PROVE MapShowsFilter'
    <2>1. CASE isChartVisible
        BY <1>4, <2>1 DEF FinishSwitch, HideChart, MapShowsFilter
    <2>2. CASE ~isChartVisible /\ currentView = "3d"
        <3>1. ec' = Show3D(points) /\ UNCHANGED <<mapReady, currentView, chart>>
            BY <1>4, <2>2 DEF FinishSwitch
        <3> QED BY <1>1, <3>1, Show3DFollows, RedrawnShows
    <2>3. CASE ~isChartVisible /\ currentView # "3d"
        <3>1. Request("map", r.mode, Null) \in pending'
            BY <1>4, <2>3 DEF FinishSwitch
        <3>2. Redrawing'
            BY <3>1, RequestKind DEF Redrawing, Awaited
        <3> QED BY <1>4, <2>3, <3>2, UntouchedShows DEF FinishSwitch, filterVars
    <2> QED BY <2>1, <2>2, <2>3
<1> QED BY <1>2, <1>3, <1>4

LEMMA FilterShownStep == IInv /\ IInv' /\ MapShowsFilter /\ [Next]_vars => MapShowsFilter'
<1> SUFFICES ASSUME IInv, IInv', MapShowsFilter, [Next]_vars PROVE MapShowsFilter'
    OBVIOUS
<1>1. CASE UNCHANGED vars
    BY <1>1, UntouchedShows DEF vars, mapVars, filterVars, Redrawing, Awaited
<1>2. ASSUME NEW s \in Stations, EnterItem(s) PROVE MapShowsFilter'
    BY <1>2, EnterItemStep, FilterStepShows
<1>3. ASSUME NEW k \in Risks, EnterLegend(k) \/ ClickLegend(k) PROVE MapShowsFilter'
    BY <1>3, LegendStep, FilterStepShows
<1>4. CASE LeaveItem \/ LeaveLegend \/ ResetLegend
    BY <1>4, LeaveStep, FilterStepShows
<1>5. CASE ClickItem \/ \E s \in Stations : ClickMap(s)
    BY <1>5, ClicksShow
<1>6. CASE SwitchTo3D \/ SwitchTo2D \/ ClickBack \/ \E r \in pending : FinishSwitch(r)
    BY <1>6, SwitchesShow
<1>7. ASSUME NEW m \in Modes, SwitchMode(m) PROVE MapShowsFilter'
    <2>1. Redrawing'
        BY <1>7, RequestKind DEF SwitchMode, Redrawing, Awaited
    <2> QED BY <1>7, <2>1, UntouchedShows DEF SwitchMode, mapVars, filterVars
<1>8. CASE HourlyRefresh
    BY <1>8, UntouchedShows DEF HourlyRefresh, mapVars, filterVars, Redrawing, Awaited
<1>9. ASSUME NEW r \in pending, InitStations(r) \/ ListAnswered(r) PROVE MapShowsFilter'
    <2>1. Redrawing => Redrawing'
        BY <1>9, RedrawingKept DEF InitStations, ListAnswered, InitKinds
    <2> QED BY <1>9, <2>1, UntouchedShows DEF InitStations, ListAnswered, mapVars, filterVars
<1>10. ASSUME NEW r \in pending, HistoryAnswered(r) \/ FilesLoaded(r) \/ FilesFail(r)
                                   \/ MapAnswered(r) \/ StationsAnswered(r)
       PROVE  MapShowsFilter'
    BY <1>10, HistoryShows, FilesShow, MapAnswerShows, StationsShow
<1> QED BY <1>1, <1>2, <1>3, <1>4, <1>5, <1>6, <1>7, <1>8, <1>9, <1>10 DEF Next

\* Whatever the interleaving of hovering, clicks, loads and switches, a 2D map
\* that can be used shows what the filter of the moment lets through, or, once the
\* mode was switched, what it let through in the mode of the last redraw, and then
\* an answer that redraws it is still to come (refreshMonitoringPointsOnMap,
\* getFilteredMonitoringPoints and getRiskKeyByMode of initMap.js).
THEOREM FilterIsShown == Spec => []MapShowsFilter
<1>1. ASSUME Init PROVE MapShowsFilter
    <2> DEFINE d == Map2D(Blank, FirstMode, FirstMode, Filter)
    <2>1. Filter \in Filters
        BY <1>1, InitIInv, FilterTyped DEF IInv, TypeOK
    <2>2. d.filter = Filter
        BY <2>1, BlankTyped, Map2DTyped, ViewAssumption
    <2>3. chart = 1 /\ ec.canvas[1] = d
        BY <1>1 DEF Init, Charts
    <2> QED BY <2>1, <2>2, <2>3 DEF MapShowsFilter, Filter, Filters
<1>2. IInv /\ IInv' /\ MapShowsFilter /\ [Next]_vars => MapShowsFilter'
    BY FilterShownStep
<1> QED BY <1>1, <1>2, Invariance, PTL DEF Spec

-----------------------------------------------------------------------------
\* The careful user.  First, nothing is left on a chart that was disposed of.
Tidy(e) == \A c \in Charts \ e.live : e.canvas[c] = Blank

LEMMA DrawnTidy ==
    ASSUME NEW e \in Engines, NEW c, NEW d \in Drawings, Tidy(e)
    PROVE  Tidy(Drawn(e, c, d))
BY DEF Drawn, Engines, Tidy

LEMMA DisposedTidy ==
    ASSUME NEW e \in Engines, NEW c, Tidy(e)
    PROVE  Tidy(Disposed(e, c))
BY BlankTyped DEF Disposed, Engines, Tidy

LEMMA OpenedTidy ==
    ASSUME NEW e \in Engines, NEW c \in Charts, Tidy(e)
    PROVE  Tidy(Opened(e, c))
BY DEF Opened, Engines, Tidy

LEMMA RefreshedTidy ==
    ASSUME PageTypes, ec \in Engines, NEW data \in Modes, NEW f \in Filters, Tidy(ec)
    PROVE  Tidy(Refreshed(ec, data, f))
<1>1. CASE chart \in Charts
    <2>1. WithPoints(ec.canvas[chart], data, f) \in Drawings
        BY <1>1, WithPointsTyped DEF Engines
    <2> QED BY <2>1, DrawnTidy DEF Refreshed
<1>2. CASE chart = NoChart
    BY <1>2 DEF Refreshed
<1> QED BY <1>1, <1>2 DEF PageTypes

LEMMA Show3DTidy ==
    ASSUME PageTypes, ec \in Engines, NEW data \in Modes, Tidy(ec)
    PROVE  Tidy(Show3D(data))
BY Map3DTyped, DrawnTidy DEF Show3D, PageTypes

LEMMA TidyStep ==
    ASSUME IInv, IInv', Tidy(ec), [Next]_vars
    PROVE  Tidy(ec)'
<1>1. PageTypes /\ ec \in Engines /\ ChartsKnown /\ points \in Modes /\ currentMode \in Modes
      /\ Filter \in Filters /\ pending \subseteq Requests /\ points' \in Modes
    BY FilterTyped DEF IInv, TypeOK, PageTypes
<1>2. NewChart \in Charts
    BY <1>1, NewChartIsNew
<1>3. CASE ec' = ec
    BY <1>3 DEF Tidy
<1>4. ASSUME FilterStep, Redraw(Filter') PROVE Tidy(ec)'
    <2>1. Filter' \in Filters
        BY DEF IInv, TypeOK, PageTypes, Filter, Filters
    <2>2. Tidy(ec')
        BY <1>1, <1>4, <2>1, RefreshedTidy DEF Redraw
    <2> QED BY <2>2 DEF Tidy
<1>5. ASSUME NEW s \in Stations, NEW m \in Modes, NEW redrawn \in Engines, Tidy(redrawn),
             OpenHistory(s, m, redrawn)
      PROVE  Tidy(ec)'
    <2> DEFINE g == ShowChartContainer(ec)
    <2>1. g \in Engines /\ Tidy(g)
        BY <1>1, EmptiedTyped DEF Tidy
    <2>2. Tidy(Opened(g, NewChart))
        BY <1>2, <2>1, OpenedTidy
    <2>3. Tidy(ec')
        BY <1>5, <2>1, <2>2 DEF OpenHistory
    <2> QED BY <2>3 DEF Tidy
<1>6. CASE ClickItem
    <2>1. mouse \in Stations /\ list \in Modes
        BY <1>1, <1>6 DEF ClickItem, PageTypes
    <2> QED BY <1>1, <1>5, <1>6, <2>1 DEF ClickItem
<1>7. ASSUME NEW s \in Stations, ClickMap(s) PROVE Tidy(ec)'
    <2> DEFINE f == [Filter EXCEPT !.station = s]
    <2>1. f \in Filters
        BY <1>1 DEF Filters
    <2>2. Refreshed(ec, points, f) \in Engines /\ Tidy(Refreshed(ec, points, f))
        BY <1>1, <2>1, RefreshedTyped, RefreshedTidy
    <2> QED BY <1>1, <1>5, <1>7, <2>2 DEF ClickMap
<1>8. CASE ClickBack \/ SwitchTo2D
    <2>1. Tidy(ec')
        BY <1>1, <1>8, DisposedTidy DEF ClickBack, SwitchTo2D, HideChart
    <2> QED BY <2>1 DEF Tidy
<1>9. CASE SwitchTo3D
    <2>1. Tidy(ec')
        BY <1>1, <1>9, Show3DTidy DEF SwitchTo3D
    <2> QED BY <2>1 DEF Tidy
<1>10. ASSUME NEW r \in pending, HistoryAnswered(r) PROVE Tidy(ec)'
    <2>1. r.station \in Stations \union {Null} /\ r.mode \in Modes
        BY <1>1 DEF Requests
    <2>2. CASE historyChart # NoChart
        <3>1. ec.canvas[historyChart] \in Drawings
            BY <1>1, <2>2 DEF PageTypes, Engines
        <3>2. Tidy(ec')
            BY <1>1, <1>10, <2>1, <2>2, <3>1, HistoryTyped, DrawnTidy DEF HistoryAnswered
        <3> QED BY <3>2 DEF Tidy
    <2> QED BY <1>3, <1>10, <2>2 DEF HistoryAnswered
<1>11. ASSUME NEW r \in pending, FilesLoaded(r) PROVE Tidy(ec)'
    <2> DEFINE e == Opened(Disposed(ec, chart), NewChart)
    <2>1. e \in Engines /\ e.screen \in Charts /\ Tidy(e)
        BY <1>1, <1>2, MapChart, DisposedTyped, DisposedTidy, OpenedTidy
    <2>2. Map2D(e.canvas[e.screen], currentMode, points, Filter) \in Drawings
        BY <1>1, <2>1, Map2DTyped DEF Engines
    <2>3. Tidy(ec')
        BY <1>11, <2>1, <2>2, DrawnTidy DEF FilesLoaded, DrawMap
    <2> QED BY <2>3 DEF Tidy
<1>12. ASSUME NEW r \in pending, FinishSwitch(r) PROVE Tidy(ec)'
    <2>1. Tidy(ec')
        BY <1>1, <1>12, DisposedTidy, Show3DTidy DEF FinishSwitch, HideChart
    <2> QED BY <2>1 DEF Tidy
<1>13. ASSUME NEW r \in pending, MapAnswered(r) PROVE Tidy(ec)'
    <2>1. CASE currentView # "chart" /\ chart # NoChart /\ mapReady
        <3>1. ec.canvas[chart] \in Drawings /\ r.mode \in Modes
            BY <1>1, <2>1 DEF PageTypes, Engines, Requests
        <3>2. Map2D(ec.canvas[chart], r.mode, points', Filter) \in Drawings
            BY <1>1, <3>1, Map2DTyped
        <3>3. Tidy(ec')
            BY <1>1, <1>13, <2>1, <3>2, DrawnTidy DEF MapAnswered
        <3> QED BY <3>3 DEF Tidy
    <2> QED BY <1>3, <1>13, <2>1 DEF MapAnswered
<1>14. ASSUME NEW r \in pending, StationsAnswered(r) PROVE Tidy(ec)'
    <2>1. Tidy(ec')
        BY <1>1, <1>14, Show3DTidy, RefreshedTidy DEF StationsAnswered
    <2> QED BY <2>1 DEF Tidy
<1>15. CASE \E s \in Stations : EnterItem(s)
    BY <1>4, <1>15, EnterItemStep
<1>16. CASE (\E k \in Risks : EnterLegend(k) \/ ClickLegend(k))
            \/ LeaveItem \/ LeaveLegend \/ ResetLegend
    BY <1>4, <1>16, LegendStep, LeaveStep
<1>17. CASE \/ \E m \in Modes : SwitchMode(m)
            \/ HourlyRefresh \/ UNCHANGED vars
            \/ \E r \in pending : InitStations(r) \/ FilesFail(r) \/ ListAnswered(r)
    BY <1>3, <1>17 DEF SwitchMode, HourlyRefresh, InitStations, FilesFail, ListAnswered, vars
<1> QED BY <1>6, <1>7, <1>8, <1>9, <1>10, <1>11, <1>12, <1>13, <1>14, <1>15, <1>16, <1>17
        DEF Next

-----------------------------------------------------------------------------
\* What the operations do to the chart that is shown, and to the element.
LEMMA DrawnShown ==
    ASSUME NEW e \in Engines, NEW c \in e.live, NEW d \in Drawings
    PROVE  /\ Drawn(e, c, d).screen = e.screen /\ Drawn(e, c, d).live = e.live
           /\ Drawn(e, c, d).canvas[c] = d
BY DrawnTyped DEF Drawn, Engines

LEMMA DisposedShown ==
    ASSUME NEW e \in Engines, NEW c
    PROVE  Disposed(e, c).screen = IF c \in e.live THEN NoChart ELSE e.screen
BY DEF Disposed, Engines

LEMMA RefreshedShown ==
    ASSUME PageTypes, ec \in Engines, NEW data \in Modes, NEW f \in Filters,
           currentView # "chart", mapReady, chart \in ec.live
    PROVE  LET e == Refreshed(ec, data, f)
               d == ec.canvas[chart]
           IN  /\ e.screen = ec.screen /\ e.live = ec.live
               /\ e.canvas[chart].layers = d.layers
               /\ e.canvas[chart].mode = d.mode
               /\ e.canvas[chart].points = IF "2d" \in d.layers THEN data ELSE d.points
<1> DEFINE d == ec.canvas[chart]
           w == WithPoints(d, data, f)
<1>1. chart # NoChart /\ d \in Drawings
    BY DEF Engines, Charts, NoChart
<1>2. /\ w \in Drawings /\ w.layers = d.layers /\ w.mode = d.mode
      /\ w.points = IF "2d" \in d.layers THEN data ELSE d.points
    BY <1>1 DEF WithPoints, Drawings
<1>3. Refreshed(ec, data, f) = Drawn(ec, chart, w)
    BY <1>1 DEF Refreshed
<1> HIDE DEF w, d
<1>4. /\ Drawn(ec, chart, w).screen = ec.screen /\ Drawn(ec, chart, w).live = ec.live
      /\ Drawn(ec, chart, w).canvas[chart] = w
    BY <1>2, DrawnShown
<1> QED BY <1>2, <1>3, <1>4 DEF d

LEMMA Show3DShown ==
    ASSUME PageTypes, ec \in Engines, NEW data \in Modes, mapReady, chart \in ec.live
    PROVE  LET e == Show3D(data)
           IN  /\ e.screen = ec.screen /\ e.live = ec.live
               /\ e.canvas[chart].layers = {"3d"}
               /\ e.canvas[chart].mode = currentMode
               /\ e.canvas[chart].points = data
<1> DEFINE w == Map3D(currentMode, data)
<1>1. w \in Drawings /\ w.layers = {"3d"} /\ w.mode = currentMode /\ w.points = data
    BY Map3DTyped DEF Map3D, Blank, PageTypes
<1>2. Show3D(data) = Drawn(ec, chart, w)
    BY DEF Show3D
<1> HIDE DEF w
<1>3. /\ Drawn(ec, chart, w).screen = ec.screen /\ Drawn(ec, chart, w).live = ec.live
      /\ Drawn(ec, chart, w).canvas[chart] = w
    BY <1>1, DrawnShown
<1> QED BY <1>1, <1>2, <1>3

LEMMA RequestFields ==
    ASSUME NEW kind, NEW m, NEW s
    PROVE  /\ Request(kind, m, s).kind = kind
           /\ Request(kind, m, s).mode = m
           /\ Request(kind, m, s).station = s
BY DEF Request

\* An answer is awaited until it comes.
LEMMA StillAwaited ==
    ASSUME NEW kinds, Awaited(kinds), \A r \in pending : r.kind \in kinds => r \in pending'
    PROVE  Awaited(kinds)'
BY DEF Awaited

\* A step that leaves view and element alone and answers nothing they wait for.
SameView == UNCHANGED <<currentMode, currentView, mapReady, chart, isChartVisible, historyChart,
                        currentStationName>>

LEMMA MapFrame ==
    ASSUME MapOfPage, SameView, UNCHANGED ec,
           \A r \in pending : r.kind \in LoadKinds \union {"switch", "map", "stations"}
                                  => r \in pending'
    PROVE  MapOfPage'
<1>1. /\ Awaited({"switch", "map"}) => Awaited({"switch", "map"})'
      /\ Awaited({"stations"}) => Awaited({"stations"})'
      /\ Awaited(LoadKinds) => Awaited(LoadKinds)'
    BY StillAwaited
<1> QED BY <1>1 DEF MapOfPage, SameView, Shown

LEMMA HistoryFrame ==
    ASSUME HistoryOfPage, SameView, UNCHANGED ec,
           \A r \in pending : r.kind \in {"first", "more", "switch"} => r \in pending'
    PROVE  HistoryOfPage'
<1>1. /\ Awaited({"switch"}) => Awaited({"switch"})'
      /\ Awaited({"first", "more"}) => Awaited({"first", "more"})'
    BY StillAwaited
<1> QED BY <1>1 DEF HistoryOfPage, SameView, Shown

\* The requests of a page in order stay so when those that are added are.
LEMMA AnswersFrame ==
    ASSUME AnswersOfPage, SameView,
           \A r \in pending' \ pending :
               /\ r.mode = currentMode
               /\ r.kind \in {"first", "more"} => r.station = currentStationName
    PROVE  AnswersOfPage'
BY DEF AnswersOfPage, SameView

LEMMA ViewsFrame ==
    ASSUME ViewsAgree, SameView, UNCHANGED backButton,
           \A r \in pending' \ pending : r.kind \in LoadKinds \union {"map"} => currentView = "2d"
    PROVE  ViewsAgree'
BY DEF ViewsAgree, SameView, Awaited

-----------------------------------------------------------------------------
\* The steps of a page in order: redrawing it.
LEMMA RedrawOrder ==
    ASSUME IInv, PageInOrder, FilterStep, NEW f \in Filters, Redraw(f)
    PROVE  PageInOrder'
<1>1. PageTypes /\ ec \in Engines /\ points \in Modes
    BY DEF IInv, TypeOK, PageTypes
<1>2. SameView /\ UNCHANGED <<pending, points, list, backButton>>
    BY DEF SameView, FilterStep, mapVars, historyVars
<1>3. AnswersOfPage' /\ DataOfPage' /\ ViewsAgree'
    BY <1>2, AnswersFrame, ViewsFrame DEF PageInOrder, DataOfPage, SameView, Awaited
<1>4. CASE currentView # "chart" /\ mapReady
    <2>1. /\ chart \in ec.live /\ ec.screen = chart /\ Shown.layers = {currentView}
          /\ Shown.mode = currentMode \/ Awaited({"switch", "map"})
          /\ Shown.points = currentMode \/ Awaited({"stations"})
        BY <1>4 DEF PageInOrder, MapOfPage
    <2>2. /\ ec'.screen = chart /\ chart \in ec'.live
          /\ ec'.canvas[chart].layers = Shown.layers /\ ec'.canvas[chart].mode = Shown.mode
          /\ ec'.canvas[chart].points = IF "2d" \in Shown.layers THEN points ELSE Shown.points
        BY <1>1, <1>4, <2>1, RefreshedShown DEF Redraw, Shown
    <2>3. points = currentMode \/ Awaited({"stations"})
        BY DEF PageInOrder, DataOfPage
    <2>4. MapOfPage'
        BY <1>2, <1>4, <2>1, <2>2, <2>3 DEF MapOfPage, SameView, Shown, Awaited
    <2>5. HistoryOfPage'
        BY <1>2, <1>4 DEF HistoryOfPage, SameView
    <2> QED BY <1>3, <2>4, <2>5 DEF PageInOrder
<1>5. CASE ~(currentView # "chart" /\ mapReady)
    <2>1. ec' = ec
        BY <1>5 DEF Redraw, Refreshed
    <2> QED BY <1>2, <1>3, <2>1, MapFrame, HistoryFrame DEF PageInOrder
<1> QED BY <1>4, <1>5

\* Opening a history chart, with nothing awaited.
LEMMA OpenHistoryOrder ==
    ASSUME IInv, PageInOrder, Tidy(ec), pending = {}, NEW s \in Stations, NEW redrawn,
           currentView = "chart" => redrawn = ec, OpenHistory(s, currentMode, redrawn)
    PROVE  PageInOrder'
<1> USE DEF OpenHistory
<1>1. PageTypes /\ ec \in Engines /\ ChartsKnown /\ currentMode \in Modes
    BY DEF IInv, TypeOK, PageTypes
<1>2. points = currentMode /\ list = currentMode
      /\ (isChartVisible <=> currentView = "chart") /\ (isChartVisible <=> historyChart # NoChart)
      /\ (backButton => isChartVisible)
    BY DEF PageInOrder, DataOfPage, ViewsAgree, Awaited
<1>3. /\ UNCHANGED <<currentMode, mapReady, chart, points, list, backButton>>
      /\ currentStationName' = s
    OBVIOUS
<1>4. ASSUME NEW kind \in {"first", "more"}, pending' = {Request(kind, currentMode, s)}
      PROVE  /\ AnswersOfPage' /\ DataOfPage' /\ ~Awaited(LoadKinds \union {"map"})'
             /\ Awaited({"first", "more"})'
    <2> DEFINE r == Request(kind, currentMode, s)
    <2>1. r.kind = kind /\ r.mode = currentMode /\ r.station = s
        BY RequestFields
    <2> HIDE DEF r
    <2>2. pending' = {r}
        BY <1>4 DEF r
    <2>3. AnswersOfPage' /\ DataOfPage'
        BY <1>2, <1>3, <2>1, <2>2 DEF AnswersOfPage, DataOfPage
    <2>4. ~Awaited(LoadKinds \union {"map"})' /\ Awaited({"first", "more"})'
        BY <2>1, <2>2 DEF Awaited, LoadKinds, InitKinds, FileKinds
    <2> QED BY <2>3, <2>4
<1>5. CASE isChartVisible
    <2>1. /\ ec' = ec /\ currentView = "chart" /\ pending' = {Request("more", currentMode, s)}
          /\ UNCHANGED <<currentView, historyChart, isChartVisible>>
        BY <1>2, <1>5
    <2>2. /\ historyChart \in ec.live /\ ec.screen = historyChart /\ historyChart # chart
          /\ Shown.layers = {"history"}
        BY <2>1 DEF PageInOrder, HistoryOfPage, Awaited
    <2>3. /\ AnswersOfPage' /\ DataOfPage' /\ ~Awaited(LoadKinds \union {"map"})'
          /\ Awaited({"first", "more"})'
        BY <1>4, <2>1
    <2>4. ViewsAgree' /\ MapOfPage'
        BY <1>2, <1>3, <2>1, <2>3 DEF ViewsAgree, MapOfPage
    <2>5. HistoryOfPage'
        BY <1>3, <2>1, <2>2, <2>3 DEF HistoryOfPage, Shown
    <2> QED BY <2>3, <2>4, <2>5 DEF PageInOrder
<1>6. CASE ~isChartVisible
    <2> DEFINE g == ShowChartContainer(ec)
               n == NewChart
    <2>1. historyChart \notin ec.live
        BY <1>1, <1>2, <1>6 DEF Engines, Charts, NoChart
    <2>2. /\ ec' = Opened(g, n) /\ historyChart' = n
          /\ currentView' = "chart" /\ isChartVisible'
          /\ pending' = {Request("first", currentMode, s)}
        BY <1>6, <2>1
    <2>3. n \in Charts /\ n # NoChart /\ n \notin ec.live /\ n # chart
        BY <1>1, NewChartIsNew
    <2>4. g \in Engines /\ g.screen = NoChart /\ g.canvas = ec.canvas
        BY <1>1, EmptiedTyped
    <2> HIDE DEF g, n
    <2>5. n \in ec'.live /\ ec'.screen = n /\ ec'.canvas[n].layers = {}
        <3>1. ec'.live = g.live \union {n} /\ ec'.screen = n /\ ec'.canvas = ec.canvas
            BY <2>2, <2>3, <2>4, OpenedTyped
        <3>2. ec.canvas[n].layers = {}
            BY <2>3 DEF Tidy, Blank
        <3> QED BY <3>1, <3>2
    <2>6. /\ AnswersOfPage' /\ DataOfPage' /\ ~Awaited(LoadKinds \union {"map"})'
          /\ Awaited({"first", "more"})'
        BY <1>4, <2>2
    <2>7. ViewsAgree' /\ MapOfPage'
        BY <2>2, <2>3, <2>6 DEF ViewsAgree, MapOfPage
    <2>8. HistoryOfPage'
        BY <1>3, <2>2, <2>3, <2>5, <2>6 DEF HistoryOfPage, Shown
    <2> QED BY <2>6, <2>7, <2>8 DEF PageInOrder
<1> QED BY <1>5, <1>6

LEMMA ClicksOrder ==
    ASSUME IInv, PageInOrder, Tidy(ec), pending = {}, ClickItem \/ \E s \in Stations : ClickMap(s)
    PROVE  PageInOrder'
<1>1. CASE ClickItem
    <2>1. list = currentMode
        BY DEF PageInOrder, DataOfPage, Awaited
    <2> QED BY <1>1, <2>1, OpenHistoryOrder DEF ClickItem
<1>2. ASSUME NEW s \in Stations, ClickMap(s) PROVE PageInOrder'
    <2>1. currentView # "chart"
        BY <1>2 DEF ClickMap, PageInOrder, HistoryOfPage
    <2> QED BY <1>2, <2>1, OpenHistoryOrder DEF ClickMap
<1> QED BY <1>1, <1>2

\* The answer draws the history of the last click beside nothing else.
LEMMA HistoryOrder ==
    ASSUME IInv, PageInOrder, NEW r \in pending, HistoryAnswered(r)
    PROVE  PageInOrder'
<1> USE DEF HistoryAnswered, CreateBackButton, mapVars
<1>1. PageTypes /\ ec \in Engines /\ r.station \in Stations \union {Null} /\ r.mode \in Modes
    BY DEF IInv, TypeOK, Requests
<1>2. SameView /\ UNCHANGED <<points, list>> /\ pending' = pending \ {r}
      /\ r.kind \in {"first", "more"}
    BY DEF SameView
<1>3. AnswersOfPage'
    BY <1>2, AnswersFrame DEF PageInOrder
<1>4. DataOfPage'
    BY <1>2 DEF PageInOrder, DataOfPage, SameView, Awaited
<1>5. ViewsAgree'
    BY <1>2 DEF PageInOrder, ViewsAgree, SameView, Awaited
<1>6. CASE historyChart = NoChart
    <2>1. ec' = ec /\ currentView # "chart"
        BY <1>6 DEF PageInOrder, ViewsAgree
    <2>2. HistoryOfPage'
        BY <1>2, <2>1 DEF HistoryOfPage, SameView
    <2>3. MapOfPage'
        BY <1>2, <2>1, MapFrame DEF PageInOrder, LoadKinds, InitKinds, FileKinds
    <2> QED BY <1>3, <1>4, <1>5, <2>2, <2>3 DEF PageInOrder
<1>7. CASE historyChart # NoChart
    <2> DEFINE o == ec.canvas[historyChart]
               d == History(o, r.station, r.mode)
    <2>1. currentView = "chart"
        BY <1>7 DEF PageInOrder, ViewsAgree
    <2>2. /\ historyChart \in ec.live /\ ec.screen = historyChart /\ historyChart # chart
          /\ o.layers \subseteq {"history"}
        BY <2>1 DEF PageInOrder, HistoryOfPage, Shown
    <2>3. o \in Drawings
        BY <1>1, <2>2 DEF Engines
    <2>4. d \in Drawings /\ d.layers = {"history"} /\ d.mode = r.mode /\ d.station = r.station
        BY <1>1, <2>2, <2>3, HistoryTyped DEF History, Drawings
    <2>5. r.mode = currentMode /\ r.station = currentStationName
        BY <1>2 DEF PageInOrder, AnswersOfPage
    <2>6. ec' = Drawn(ec, historyChart, d)
        BY <1>7
    <2> HIDE DEF d
    <2>7. ec'.screen = historyChart /\ ec'.live = ec.live /\ ec'.canvas[historyChart] = d
        BY <1>1, <2>2, <2>4, <2>6, DrawnShown
    <2>8. MapOfPage' /\ HistoryOfPage'
        BY <1>2, <2>1, <2>2, <2>4, <2>5, <2>7 DEF MapOfPage, HistoryOfPage, SameView, Shown
    <2> QED BY <1>3, <1>4, <1>5, <2>8 DEF PageInOrder
<1> QED BY <1>6, <1>7

-----------------------------------------------------------------------------
\* Leaving the history chart: the element is empty until the map is loaded.
LEMMA HideChartEmpties ==
    ASSUME IInv, PageInOrder, currentView = "chart", NEW m, HideChart(m)
    PROVE  /\ ec'.screen = NoChart /\ historyChart' = NoChart
           /\ currentView' = "2d" /\ ~mapReady' /\ ~isChartVisible' /\ ~backButton'
BY DisposedShown DEF HideChart, PageInOrder, HistoryOfPage, IInv, TypeOK

\* An empty element for which a map is being loaded is in order.
LEMMA LoadingOrder ==
    ASSUME ec'.screen = NoChart, historyChart' = NoChart, currentView' = "2d", ~mapReady',
           ~isChartVisible', ~backButton', Awaited(LoadKinds)'
    PROVE  ViewsAgree' /\ MapOfPage' /\ HistoryOfPage'
BY DEF ViewsAgree, MapOfPage, HistoryOfPage

LEMMA ClickBackOrder ==
    ASSUME IInv, PageInOrder, pending = {}, ClickBack
    PROVE  PageInOrder'
<1> DEFINE r == Request("init", currentMode, Null)
<1>1. r.kind = "init" /\ r.mode = currentMode
    BY RequestFields
<1> HIDE DEF r
<1>2. pending' = {r} /\ HideChart(currentMode) /\ UNCHANGED <<currentMode, points, list>>
    BY DEF ClickBack, r
<1>3. currentView = "chart"
    BY DEF ClickBack, PageInOrder, ViewsAgree
<1>4. Awaited(LoadKinds)'
    BY <1>1, <1>2 DEF Awaited, LoadKinds, InitKinds
<1>5. ViewsAgree' /\ MapOfPage' /\ HistoryOfPage'
    BY <1>2, <1>3, <1>4, HideChartEmpties, LoadingOrder
<1>6. AnswersOfPage' /\ DataOfPage'
    BY <1>1, <1>2 DEF PageInOrder, AnswersOfPage, DataOfPage, Awaited
<1> QED BY <1>5, <1>6 DEF PageInOrder

LEMMA SwitchTo2DOrder ==
    ASSUME IInv, PageInOrder, pending = {}, currentView = "3d", SwitchTo2D
    PROVE  PageInOrder'
<1> DEFINE r == Request("back", currentMode, Null)
<1>1. r.kind = "back" /\ r.mode = currentMode
    BY RequestFields
<1> HIDE DEF r
<1>2. /\ pending' = {r} /\ ec' = Disposed(ec, chart) /\ currentView' = "2d" /\ ~mapReady'
      /\ UNCHANGED <<currentMode, points, list, historyChart, isChartVisible, backButton>>
    BY DEF SwitchTo2D, historyVars, r
<1>3. chart \in ec.live
    BY DEF PageInOrder, MapOfPage
<1>4. ec'.screen = NoChart
    BY <1>2, <1>3, DisposedShown DEF IInv, TypeOK
<1>5. Awaited(LoadKinds)'
    BY <1>1, <1>2 DEF Awaited, LoadKinds, InitKinds
<1>6. historyChart = NoChart /\ ~isChartVisible /\ ~backButton
    BY DEF PageInOrder, ViewsAgree, IInv, TypeOK, PageTypes
<1>7. ViewsAgree' /\ MapOfPage' /\ HistoryOfPage'
    BY <1>2, <1>4, <1>5, <1>6, LoadingOrder
<1>8. AnswersOfPage' /\ DataOfPage'
    BY <1>1, <1>2 DEF PageInOrder, AnswersOfPage, DataOfPage, Awaited
<1> QED BY <1>7, <1>8 DEF PageInOrder

\* After the stations of the new map its files are awaited.
LEMMA InitStationsOrder ==
    ASSUME IInv, PageInOrder, NEW r \in pending, InitStations(r), points' = r.mode
    PROVE  PageInOrder'
<1> DEFINE a == Request(IF r.kind = "init" THEN "files" ELSE "backFiles", r.mode, Null)
<1>1. a.kind \in FileKinds /\ a.mode = r.mode
    BY RequestFields DEF FileKinds
<1> HIDE DEF a
<1>2. /\ r.kind \in InitKinds /\ pending' = (pending \ {r}) \union {a}
      /\ SameView /\ UNCHANGED <<ec, list, backButton>>
    BY DEF InitStations, SameView, mapVars, historyVars, a
<1>3. r.mode = currentMode /\ currentView = "2d"
    BY <1>2 DEF PageInOrder, AnswersOfPage, ViewsAgree, Awaited, LoadKinds
<1>4. AnswersOfPage'
    BY <1>1, <1>2, <1>3, AnswersFrame DEF PageInOrder, FileKinds
<1>5. DataOfPage'
    BY <1>2, <1>3 DEF PageInOrder, DataOfPage, SameView, Awaited, InitKinds
<1>6. ViewsAgree'
    BY <1>1, <1>2, <1>3, ViewsFrame DEF PageInOrder
<1>7. HistoryOfPage'
    BY <1>2, <1>3 DEF HistoryOfPage, SameView
<1>8. /\ Awaited({"switch", "map"}) => Awaited({"switch", "map"})'
      /\ Awaited({"stations"}) => Awaited({"stations"})'
      /\ Awaited(LoadKinds)'
    BY <1>1, <1>2 DEF Awaited, LoadKinds, InitKinds
<1>9. MapOfPage'
    BY <1>2, <1>3, <1>8 DEF PageInOrder, MapOfPage, SameView, Shown
<1> QED BY <1>4, <1>5, <1>6, <1>7, <1>9 DEF PageInOrder

\* The new map is drawn on a blank chart.
LEMMA FilesOrder ==
    ASSUME IInv, PageInOrder, Tidy(ec), NEW r \in pending, FilesLoaded(r)
    PROVE  PageInOrder'
<1> DEFINE g == Disposed(ec, chart)
           n == NewChart
           e == Opened(g, n)
           d == Map2D(e.canvas[n], currentMode, points, Filter)
<1>1. PageTypes /\ ec \in Engines /\ ChartsKnown /\ currentMode \in Modes /\ points \in Modes
      /\ Filter \in Filters
    BY FilterTyped DEF IInv, TypeOK, PageTypes
<1>2. /\ r.kind \in FileKinds /\ pending' = pending \ {r} /\ mapReady'
      /\ UNCHANGED <<currentMode, currentView, points, list, historyChart, isChartVisible,
                     currentStationName, backButton>>
    BY DEF FilesLoaded, historyVars
<1>3. currentView = "2d"
    BY <1>2 DEF PageInOrder, ViewsAgree, Awaited, LoadKinds
<1>4. g \in Engines /\ g.screen = NoChart /\ g.live = ec.live \ {chart} /\ Tidy(g)
    <2>1. chart \in ec.live \/ ec.screen = NoChart
        BY <1>3 DEF PageInOrder, MapOfPage
    <2> QED BY <1>1, <2>1, DisposedTyped, DisposedShown, DisposedTidy
<1>5. n \in Charts /\ n \notin ec.live
    BY <1>1, NewChartIsNew
<1> HIDE DEF g, n
<1>6. e \in Engines /\ e.screen = n /\ n \in e.live /\ e.canvas[n] = Blank
    BY <1>4, <1>5, OpenedTyped DEF Tidy
<1>7. chart' = n /\ ec' = Drawn(e, n, d)
    <2>1. DrawMap(e)
        BY DEF FilesLoaded, g, n
    <2> QED BY <1>6, <2>1 DEF DrawMap
<1>8. d \in Drawings /\ d.layers = {"2d"} /\ d.mode = currentMode /\ d.points = points
    <2> DEFINE b == Map2D(Blank, currentMode, points, Filter)
    <2>1. d = b
        BY <1>6
    <2>2. b \in Drawings
        BY <1>1, BlankTyped, Map2DTyped
    <2>3. b.layers = {"2d"} /\ b.mode = currentMode /\ b.points = points
        BY DEF Map2D, Blank
    <2> QED BY <2>1, <2>2, <2>3
<1> HIDE DEF e, d
<1>9. ec'.screen = n /\ n \in ec'.live /\ ec'.canvas[n] = d
    BY <1>6, <1>7, <1>8, DrawnShown
<1>10. /\ Awaited({"stations"}) => Awaited({"stations"})'
       /\ points = currentMode \/ Awaited({"stations"})
    BY <1>2 DEF PageInOrder, DataOfPage, Awaited, FileKinds
<1>11. MapOfPage' /\ HistoryOfPage'
    BY <1>2, <1>3, <1>7, <1>8, <1>9, <1>10 DEF MapOfPage, HistoryOfPage, Shown
<1>12. ViewsAgree'
    BY <1>2 DEF PageInOrder, ViewsAgree, Awaited
<1>13. AnswersOfPage' /\ DataOfPage'
    BY <1>2 DEF PageInOrder, AnswersOfPage, DataOfPage, Awaited, FileKinds
<1> QED BY <1>11, <1>12, <1>13 DEF PageInOrder

LEMMA SwitchTo3DOrder ==
    ASSUME IInv, PageInOrder, pending = {}, SwitchTo3D
    PROVE  PageInOrder'
<1>1. PageTypes /\ ec \in Engines /\ points \in Modes
    BY DEF IInv, TypeOK, PageTypes
<1>2. /\ currentView = "2d" /\ pending' = {}
      /\ UNCHANGED <<currentMode, mapReady, chart, points, list, historyChart, isChartVisible,
                     currentStationName, backButton>>
    BY DEF SwitchTo3D, historyVars
<1>3. points = currentMode
    BY DEF PageInOrder, DataOfPage, Awaited
<1>4. AnswersOfPage' /\ DataOfPage'
    BY <1>2 DEF PageInOrder, AnswersOfPage, DataOfPage, Awaited
<1>5. CASE CanShow3D
    <2>1. mapReady /\ chart \in ec.live /\ ec' = Show3D(points) /\ currentView' = "3d"
        BY <1>5 DEF SwitchTo3D, CanShow3D
    <2>2. ec.screen = chart
        BY <1>2, <2>1 DEF PageInOrder, MapOfPage
    <2>3. /\ ec'.screen = chart /\ chart \in ec'.live
          /\ ec'.canvas[chart].layers = {"3d"} /\ ec'.canvas[chart].mode = currentMode
          /\ ec'.canvas[chart].points = points
        BY <1>1, <2>1, <2>2, Show3DShown
    <2>4. MapOfPage' /\ HistoryOfPage'
        BY <1>2, <1>3, <2>1, <2>3 DEF MapOfPage, HistoryOfPage, Shown
    <2>5. ViewsAgree'
        BY <1>2, <2>1 DEF PageInOrder, ViewsAgree, Awaited
    <2> QED BY <1>4, <2>4, <2>5 DEF PageInOrder
<1>6. CASE ~CanShow3D
    <2>1. SameView /\ UNCHANGED <<ec, pending>>
        BY <1>2, <1>6 DEF SwitchTo3D, SameView
    <2> QED BY <1>2, <1>4, <2>1, MapFrame, HistoryFrame, ViewsFrame DEF PageInOrder
<1> QED BY <1>5, <1>6

\* Switching the mode: what is shown is of the old mode and about to be replaced.
LEMMA SwitchModeOrder ==
    ASSUME IInv, PageInOrder, pending = {}, NEW m \in Modes, SwitchMode(m)
    PROVE  PageInOrder'
<1> DEFINE a == Request("stations", m, Null)
           b == Request("switch", m, Null)
<1>1. a.kind = "stations" /\ a.mode = m /\ b.kind = "switch" /\ b.mode = m
    BY RequestFields
<1> HIDE DEF a, b
<1>2. /\ pending' = {a, b} /\ currentMode' = m
      /\ UNCHANGED <<currentView, mapReady, chart, points, list, historyChart, isChartVisible,
                     currentStationName, backButton, ec>>
    BY DEF SwitchMode, mapVars, historyVars, a, b
<1>3. /\ Awaited({"stations"})' /\ Awaited({"switch", "map"})' /\ Awaited({"switch"})'
      /\ ~Awaited(LoadKinds \union {"map"})'
    BY <1>1, <1>2 DEF Awaited, LoadKinds, InitKinds, FileKinds
<1>4. AnswersOfPage' /\ DataOfPage'
    BY <1>1, <1>2, <1>3 DEF AnswersOfPage, DataOfPage
<1>5. ViewsAgree'
    BY <1>2, <1>3 DEF PageInOrder, ViewsAgree
<1>6. MapOfPage'
    BY <1>2, <1>3 DEF PageInOrder, MapOfPage, Shown, Awaited
<1>7. HistoryOfPage'
    BY <1>2, <1>3 DEF PageInOrder, HistoryOfPage, Shown, Awaited
<1> QED BY <1>4, <1>5, <1>6, <1>7 DEF PageInOrder

\* The requests of FinishSwitch, and those it leaves alone.
LEMMA FinishSwitchAwaits ==
    ASSUME PageInOrder, NEW r \in pending, FinishSwitch(r)
    PROVE  /\ r.mode = currentMode /\ currentMode' = currentMode /\ UNCHANGED <<points, list>>
           /\ \A q \in pending : q.kind # "switch" => q \in pending'
           /\ \A q \in pending' \ pending :
                  /\ q.mode = currentMode
                  /\ q.kind \in {"list", "map", "init"}
                  /\ currentView' = "3d" => q.kind = "list" \/ isChartVisible
           /\ currentView' # "3d" => Awaited({"switch", "map"})'
           /\ isChartVisible => Awaited(LoadKinds)'
<1> DEFINE a == Request("list", currentMode, Null)
           b == Request("map", r.mode, Null)
           c == Request("init", r.mode, Null)
<1>1. /\ a.kind = "list" /\ a.mode = currentMode
      /\ b.kind = "map" /\ b.mode = r.mode
      /\ c.kind = "init" /\ c.mode = r.mode
    BY RequestFields
<1> HIDE DEF a, b, c
<1>2. r.mode = currentMode /\ r.kind = "switch"
    BY DEF PageInOrder, AnswersOfPage, FinishSwitch
<1>3. /\ currentMode' = currentMode /\ UNCHANGED <<points, list>>
      /\ pending' = (pending \ {r}) \union {a}
                        \union (IF currentView' = "3d" THEN {} ELSE {b})
                        \union (IF isChartVisible THEN {c} ELSE {})
    BY <1>2 DEF FinishSwitch, a, b, c
<1>4. isChartVisible => Awaited(LoadKinds)'
    BY <1>1, <1>3 DEF Awaited, LoadKinds, InitKinds
<1>5. currentView' # "3d" => Awaited({"switch", "map"})'
    BY <1>1, <1>3 DEF Awaited
<1> QED BY <1>1, <1>2, <1>3, <1>4, <1>5

LEMMA FinishSwitchOrder ==
    ASSUME IInv, PageInOrder, NEW r \in pending, FinishSwitch(r)
    PROVE  PageInOrder'
<1>1. PageTypes /\ ec \in Engines /\ points \in Modes
    BY DEF IInv, TypeOK, PageTypes
<1>2. /\ r.mode = currentMode /\ currentMode' = currentMode /\ UNCHANGED <<points, list>>
      /\ \A q \in pending : q.kind # "switch" => q \in pending'
      /\ \A q \in pending' \ pending :
             /\ q.mode = currentMode
             /\ q.kind \in {"list", "map", "init"}
             /\ currentView' = "3d" => q.kind = "list" \/ isChartVisible
      /\ currentView' # "3d" => Awaited({"switch", "map"})'
      /\ isChartVisible => Awaited(LoadKinds)'
    BY FinishSwitchAwaits
<1>3. UNCHANGED currentStationName
    BY DEF FinishSwitch, HideChart, historyVars
<1>4. AnswersOfPage'
    BY <1>2, <1>3 DEF PageInOrder, AnswersOfPage
<1>5. Awaited({"stations"}) => Awaited({"stations"})'
    BY <1>2 DEF Awaited
<1>6. DataOfPage'
    BY <1>2, <1>5 DEF PageInOrder, DataOfPage
<1>7. CASE isChartVisible
    <2>1. HideChart(r.mode) /\ currentView = "chart"
        BY <1>7 DEF FinishSwitch, PageInOrder, ViewsAgree
    <2>2. ViewsAgree' /\ MapOfPage' /\ HistoryOfPage'
        BY <1>2, <1>7, <2>1, HideChartEmpties, LoadingOrder
    <2> QED BY <1>4, <1>6, <2>2 DEF PageInOrder
<1>8. CASE ~isChartVisible
    <2>1. SameView /\ UNCHANGED backButton /\ currentView # "chart"
          /\ ec' = IF currentView = "3d" THEN Show3D(points) ELSE ec
        BY <1>2, <1>8 DEF FinishSwitch, SameView, historyVars, PageInOrder, ViewsAgree
    <2>2. HistoryOfPage'
        BY <2>1 DEF HistoryOfPage, SameView
    <2>3. CASE currentView = "3d"
        <3>1. mapReady /\ chart \in ec.live /\ ec.screen = chart
            BY <2>3 DEF PageInOrder, MapOfPage
        <3>2. /\ ec'.screen = chart /\ chart \in ec'.live
              /\ ec'.canvas[chart].layers = {"3d"} /\ ec'.canvas[chart].mode = currentMode
              /\ ec'.canvas[chart].points = points
            BY <1>1, <2>1, <2>3, <3>1, Show3DShown
        <3>3. points = currentMode \/ Awaited({"stations"})
            BY DEF PageInOrder, DataOfPage
        <3>4. MapOfPage'
            BY <1>2, <1>5, <2>1, <2>3, <3>1, <3>2, <3>3 DEF MapOfPage, SameView, Shown
        <3>5. ViewsAgree'
            BY <1>2, <1>8, <2>1, <2>3, ViewsFrame
               DEF PageInOrder, SameView, LoadKinds, InitKinds, FileKinds
        <3> QED BY <1>4, <1>6, <2>2, <3>4, <3>5 DEF PageInOrder
    <2>4. CASE currentView # "3d"
        <3>1. currentView = "2d" /\ ec' = ec
            BY <1>1, <2>1, <2>4 DEF PageTypes
        <3>2. Awaited(LoadKinds) => Awaited(LoadKinds)'
            BY <1>2 DEF Awaited, LoadKinds, InitKinds, FileKinds
        <3>3. MapOfPage'
            BY <1>2, <1>5, <2>1, <3>1, <3>2 DEF PageInOrder, MapOfPage, SameView, Shown
        <3>4. ViewsAgree'
            BY <2>1, <3>1, ViewsFrame DEF PageInOrder
        <3> QED BY <1>4, <1>6, <2>2, <3>3, <3>4 DEF PageInOrder
    <2> QED BY <2>3, <2>4
<1> QED BY <1>7, <1>8

\* The map is drawn for the mode of the page, where there is one to draw on.
LEMMA MapAnswerOrder ==
    ASSUME IInv, PageInOrder, NEW r \in pending, MapAnswered(r), points' = r.mode
    PROVE  PageInOrder'
<1> DEFINE d == Map2D(ec.canvas[chart], r.mode, points', Filter)
<1>1. PageTypes /\ ec \in Engines /\ Filter \in Filters /\ r.mode \in Modes
    BY FilterTyped DEF IInv, TypeOK, PageTypes, Requests
<1>2. /\ r.kind = "map" /\ pending' = pending \ {r} /\ SameView /\ UNCHANGED <<list, backButton>>
      /\ ec' = IF currentView # "chart" /\ chart # NoChart /\ mapReady
               THEN Drawn(ec, chart, d) ELSE ec
    BY DEF MapAnswered, mapVars, historyVars, SameView
<1>3. r.mode = currentMode /\ currentView = "2d"
    BY <1>2 DEF PageInOrder, AnswersOfPage, ViewsAgree, Awaited
<1>4. AnswersOfPage' /\ ViewsAgree'
    BY <1>2, AnswersFrame, ViewsFrame DEF PageInOrder
<1>5. DataOfPage'
    BY <1>2, <1>3 DEF PageInOrder, DataOfPage, SameView, Awaited
<1>6. HistoryOfPage'
    BY <1>2, <1>3 DEF HistoryOfPage, SameView
<1>7. CASE mapReady
    <2>1. chart \in ec.live /\ ec.screen = chart /\ ec.canvas[chart].layers = {"2d"}
        BY <1>3, <1>7 DEF PageInOrder, MapOfPage, Shown
    <2>2. chart # NoChart /\ ec.canvas[chart] \in Drawings
        BY <1>1, <2>1 DEF Engines, Charts, NoChart
    <2>3. d \in Drawings
        BY <1>1, <1>2, <2>2, Map2DTyped DEF MapAnswered, FetchStations
    <2>4. d.layers = {"2d"} /\ d.mode = currentMode /\ d.points = currentMode
        BY <1>3, <2>1, <2>2 DEF Map2D, Drawings
    <2>5. ec' = Drawn(ec, chart, d)
        BY <1>2, <1>3, <1>7, <2>2
    <2> HIDE DEF d
    <2>6. ec'.screen = chart /\ chart \in ec'.live /\ ec'.canvas[chart] = d
        BY <1>1, <2>1, <2>3, <2>5, DrawnShown
    <2>7. MapOfPage'
        BY <1>2, <1>3, <1>7, <2>4, <2>6 DEF MapOfPage, SameView, Shown
    <2> QED BY <1>4, <1>5, <1>6, <2>7 DEF PageInOrder
<1>8. CASE ~mapReady
    <2>1. ec' = ec /\ ec.screen = NoChart /\ Awaited(LoadKinds)
        BY <1>2, <1>3, <1>8 DEF PageInOrder, MapOfPage
    <2>2. Awaited(LoadKinds)'
        BY <1>2, <2>1 DEF Awaited, LoadKinds, InitKinds, FileKinds
    <2>3. MapOfPage'
        BY <1>2, <1>3, <1>8, <2>1, <2>2 DEF MapOfPage, SameView
    <2> QED BY <1>4, <1>5, <1>6, <2>3 DEF PageInOrder
<1> QED BY <1>7, <1>8

\* The stations of the page's mode reach whatever map is shown.
LEMMA StationsOrder ==
    ASSUME IInv, PageInOrder, NEW r \in pending, StationsAnswered(r),
           points' = r.mode, RenderList(r.mode)
    PROVE  PageInOrder'
<1>1. PageTypes /\ ec \in Engines /\ Filter \in Filters /\ r.mode \in Modes /\ ThreeDListens
    BY FilterTyped DEF IInv, TypeOK, PageTypes, Requests
<1>2. /\ r.kind = "stations" /\ pending' = pending \ {r} /\ SameView /\ UNCHANGED backButton
      /\ ec' = IF currentView = "3d" /\ mapReady /\ refresh3DMapListener
               THEN Show3D(points') ELSE Refreshed(ec, points', Filter)
    BY DEF StationsAnswered, mapVars, historyVars, SameView
<1>3. r.mode = currentMode /\ points' = currentMode /\ list' = currentMode
    BY DEF PageInOrder, AnswersOfPage, RenderList
<1>4. AnswersOfPage' /\ ViewsAgree' /\ DataOfPage'
    BY <1>2, <1>3, AnswersFrame, ViewsFrame DEF PageInOrder, DataOfPage, SameView
<1>5. CASE currentView # "chart" /\ mapReady
    <2>1. /\ chart \in ec.live /\ ec.screen = chart /\ Shown.layers = {currentView}
          /\ Shown.mode = currentMode \/ Awaited({"switch", "map"})
        BY <1>5 DEF PageInOrder, MapOfPage
    <2>2. /\ ec'.screen = chart /\ chart \in ec'.live
          /\ ec'.canvas[chart].layers = {currentView}
          /\ ec'.canvas[chart].mode = currentMode \/ Awaited({"switch", "map"})
          /\ ec'.canvas[chart].points = currentMode
        <3>1. CASE currentView = "3d"
            <4>1. ec' = Show3D(points')
                BY <1>1, <1>2, <1>5, <3>1 DEF ThreeDListens
            <4> QED BY <1>1, <1>3, <1>5, <2>1, <3>1, <4>1, Show3DShown
        <3>2. CASE currentView # "3d"
            <4>1. ec' = Refreshed(ec, points', Filter) /\ "2d" \in ec.canvas[chart].layers
                BY <1>1, <1>2, <1>5, <2>1, <3>2 DEF PageTypes, Shown
            <4> QED BY <1>1, <1>3, <1>5, <2>1, <4>1, RefreshedShown DEF Shown
        <3> QED BY <3>1, <3>2
    <2>3. Awaited({"switch", "map"}) => Awaited({"switch", "map"})'
        BY <1>2 DEF Awaited
    <2>4. MapOfPage' /\ HistoryOfPage'
        BY <1>2, <1>5, <2>2, <2>3 DEF MapOfPage, HistoryOfPage, SameView, Shown
    <2> QED BY <1>4, <2>4 DEF PageInOrder
<1>6. CASE ~(currentView # "chart" /\ mapReady)
    <2>1. ec' = ec
        BY <1>2, <1>6 DEF Refreshed
    <2>2. HistoryOfPage'
        BY <1>2, <2>1, HistoryFrame DEF PageInOrder
    <2>3. Awaited(LoadKinds) => Awaited(LoadKinds)'
        BY <1>2 DEF Awaited, LoadKinds, InitKinds, FileKinds
    <2>4. MapOfPage'
        BY <1>2, <1>6, <2>1, <2>3 DEF PageInOrder, MapOfPage, SameView
    <2> QED BY <1>4, <2>2, <2>4 DEF PageInOrder
<1> QED BY <1>5, <1>6

LEMMA ListOrder ==
    ASSUME PageInOrder, NEW r \in pending, ListAnswered(r), RenderList(r.mode)
    PROVE  PageInOrder'
<1>1. /\ r.kind = "list" /\ pending' = pending \ {r} /\ SameView
      /\ UNCHANGED <<ec, points, backButton>>
    BY DEF ListAnswered, mapVars, historyVars, SameView
<1>2. list' = currentMode
    BY DEF PageInOrder, AnswersOfPage, RenderList
<1>3. AnswersOfPage' /\ ViewsAgree'
    BY <1>1, AnswersFrame, ViewsFrame DEF PageInOrder
<1>4. DataOfPage'
    BY <1>1, <1>2 DEF PageInOrder, DataOfPage, SameView, Awaited
<1>5. MapOfPage' /\ HistoryOfPage'
    BY <1>1, MapFrame, HistoryFrame DEF PageInOrder, LoadKinds, InitKinds, FileKinds
<1> QED BY <1>3, <1>4, <1>5 DEF PageInOrder

LEMMA HourlyOrder == ASSUME PageInOrder, HourlyRefresh PROVE PageInOrder'
<1> DEFINE a == Request("stations", currentMode, Null)
<1>1. a.kind = "stations" /\ a.mode = currentMode
    BY RequestFields
<1> HIDE DEF a
<1>2. pending' = pending \union {a} /\ SameView /\ UNCHANGED <<ec, points, list, backButton>>
    BY DEF HourlyRefresh, mapVars, historyVars, SameView, a
<1>3. AnswersOfPage' /\ ViewsAgree'
    BY <1>1, <1>2, AnswersFrame, ViewsFrame DEF PageInOrder, LoadKinds, InitKinds, FileKinds
<1>4. DataOfPage'
    BY <1>1, <1>2 DEF DataOfPage, Awaited
<1>5. MapOfPage' /\ HistoryOfPage'
    BY <1>2, MapFrame, HistoryFrame DEF PageInOrder
<1> QED BY <1>3, <1>4, <1>5 DEF PageInOrder

-----------------------------------------------------------------------------
LEMMA OrderStep ==
    ASSUME IInv, IInv', Tidy(ec), careful => PageInOrder, [Next]_vars, careful'
    PROVE  PageInOrder'
<1>1. Filter' \in Filters
    BY DEF IInv, TypeOK, PageTypes, Filter, Filters
<1>2. CASE UNCHANGED vars
    BY <1>2 DEF vars, mapVars, historyVars, PageInOrder, AnswersOfPage, DataOfPage, ViewsAgree,
                MapOfPage, HistoryOfPage, Awaited, Shown
<1>3. CASE \/ \E s \in Stations : EnterItem(s)
           \/ \E k \in Risks : EnterLegend(k) \/ ClickLegend(k)
           \/ LeaveItem \/ LeaveLegend \/ ResetLegend
    <2>1. FilterStep /\ Redraw(Filter')
        BY <1>3, EnterItemStep, LegendStep, LeaveStep
    <2>2. careful
        BY <2>1 DEF FilterStep
    <2> QED BY <1>1, <2>1, <2>2, RedrawOrder
<1>4. CASE ClickItem \/ \E s \in Stations : ClickMap(s)
    <2>1. careful /\ pending = {}
        BY <1>4 DEF ClickItem, ClickMap, Patient
    <2> QED BY <1>4, <2>1, ClicksOrder
<1>5. CASE ClickBack \/ SwitchTo3D \/ \E m \in Modes : SwitchMode(m)
    <2>1. careful /\ pending = {}
        BY <1>5 DEF ClickBack, SwitchTo3D, SwitchMode, Patient
    <2> QED BY <1>5, <2>1, ClickBackOrder, SwitchTo3DOrder, SwitchModeOrder
<1>6. CASE SwitchTo2D
    BY <1>6, SwitchTo2DOrder DEF SwitchTo2D
<1>7. CASE HourlyRefresh
    BY <1>7, HourlyOrder DEF HourlyRefresh
<1>8. ASSUME NEW r \in pending, HistoryAnswered(r) \/ FilesLoaded(r) \/ FinishSwitch(r)
      PROVE  PageInOrder'
    <2>1. careful
        BY <1>8 DEF HistoryAnswered, FilesLoaded, FinishSwitch
    <2> QED BY <1>8, <2>1, HistoryOrder, FilesOrder, FinishSwitchOrder
<1>9. ASSUME NEW r \in pending, InitStations(r) \/ MapAnswered(r) PROVE PageInOrder'
    <2>1. careful /\ points' = r.mode
        BY <1>9 DEF InitStations, MapAnswered, FetchStations
    <2> QED BY <1>9, <2>1, InitStationsOrder, MapAnswerOrder
<1>10. ASSUME NEW r \in pending, StationsAnswered(r) PROVE PageInOrder'
    <2>1. careful /\ points' = r.mode /\ RenderList(r.mode)
        BY <1>10 DEF StationsAnswered
    <2> QED BY <1>10, <2>1, StationsOrder
<1>11. ASSUME NEW r \in pending, ListAnswered(r) PROVE PageInOrder'
    <2>1. careful /\ RenderList(r.mode)
        BY <1>11 DEF ListAnswered
    <2> QED BY <1>11, <2>1, ListOrder
<1>12. ASSUME NEW r \in pending, FilesFail(r) PROVE PageInOrder'
    BY <1>12 DEF FilesFail
<1> QED BY <1>2, <1>3, <1>4, <1>5, <1>6, <1>7, <1>8, <1>9, <1>10, <1>11, <1>12 DEF Next

\* Between a click of a careful user and its last answer, whatever the order of
\* the answers, all that is shown is right or about to be replaced, and nothing
\* is left on a chart that was disposed of (initMap.js, map3D.js,
\* stationHistoryChart.js, modeSwitch.js).
THEOREM CarefulInvariant == Spec => []CarefulInv
<1>1. ASSUME Init PROVE CarefulInv
    <2>1. ~Awaited(LoadKinds \union {"map"})
        BY <1>1 DEF Init, Awaited
    <2>2. /\ 1 \in ec.live /\ ec.screen = 1 /\ chart = 1
          /\ ec.canvas[1].layers = {"2d"} /\ ec.canvas[1].mode = FirstMode
          /\ ec.canvas[1].points = FirstMode
        <3> DEFINE d == Map2D(Blank, FirstMode, FirstMode, Filter)
        <3>1. d.layers = {"2d"} /\ d.mode = FirstMode /\ d.points = FirstMode
            BY DEF Map2D, Blank
        <3> HIDE DEF d
        <3>2. 1 \in ec.live /\ ec.screen = 1 /\ chart = 1 /\ ec.canvas[1] = d
            BY <1>1 DEF Init, Charts, d
        <3> QED BY <3>1, <3>2
    <2>3. DeadChartsBlank
        BY <1>1 DEF Init, DeadChartsBlank
    <2>4. AnswersOfPage /\ DataOfPage /\ ViewsAgree /\ MapOfPage /\ HistoryOfPage
        BY <1>1, <2>1, <2>2
           DEF Init, AnswersOfPage, DataOfPage, ViewsAgree, MapOfPage, HistoryOfPage, Shown
    <2> QED BY <2>3, <2>4 DEF CarefulInv, PageInOrder
<1>2. IInv /\ IInv' /\ CarefulInv /\ [Next]_vars => CarefulInv'
    <2> SUFFICES ASSUME IInv, IInv', CarefulInv, [Next]_vars PROVE CarefulInv'
        OBVIOUS
    <2>1. Tidy(ec)
        BY DEF CarefulInv, DeadChartsBlank, Tidy
    <2>2. DeadChartsBlank'
        BY <2>1, TidyStep DEF DeadChartsBlank, Tidy
    <2>3. careful' => PageInOrder'
        BY <2>1, OrderStep DEF CarefulInv
    <2> QED BY <2>2, <2>3 DEF CarefulInv
<1> QED BY <1>1, <1>2, Invariance, PTL DEF Spec

\* When all is answered a careful user sees the view that currentView names, for
\* the mode of the page, with that mode's stations or the history of the station
\* clicked last (switchMode, initMap, initStationHistoryChart).
THEOREM ScreenMatches == Spec => []ScreenMatchesView
<1>1. IInv /\ CarefulInv => ScreenMatchesView
    <2> SUFFICES ASSUME IInv, PageInOrder, pending = {} PROVE ScreenMatchesView
        BY DEF CarefulInv, ScreenMatchesView
    <2>1. \A kinds : ~Awaited(kinds)
        BY DEF Awaited
    <2>2. ec \in Engines
        BY DEF IInv, TypeOK
    <2>3. CASE currentView = "chart"
        BY <2>1, <2>2, <2>3
           DEF PageInOrder, HistoryOfPage, ScreenMatchesView, Engines, Charts, NoChart
    <2>4. CASE currentView # "chart"
        BY <2>1, <2>2, <2>4
           DEF PageInOrder, MapOfPage, DataOfPage, ScreenMatchesView, Engines, Charts, NoChart
    <2> QED BY <2>3, <2>4
<1> QED BY <1>1, Invariance, CarefulInvariant, PTL
=============================================================================
