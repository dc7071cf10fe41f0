----------------------------- MODULE ModeSwitch -----------------------------
(***************************************************************************)
(* The panes of the flood control page around a switch between flood and   *)
(* drought mode: switchMode of modeSwitch.js, the updateMap functions of   *)
(* initMap.js, the resource panel of resources.js with its request number  *)
(* latestUpdateSeq, the station list and the summary cards.                *)
(*                                                                         *)
(* A pane is known by the mode of the data it shows.  The page refreshes   *)
(* its stations by HTTP here; RealtimeTransport has the other transport.   *)
(***************************************************************************)
EXTENDS Integers

CONSTANTS
    Modes,        \* "flood" and "drought"
    FirstMode,
    Nothing,      \* shown by a pane that was never filled, or is closed
    MaxSwitches,  \* bound: clicks on a mode button
    MaxDetails,   \* bound: clicks on a resource card
    Patience,     \* what a click on a mode button waits for: 0 nothing, 1 the
                  \* start of the page, 2 also the previous switch
    OrderedHttp,  \* assumption: answers come in request order
    MayRefuse     \* whether requests may fail, or be answered by a code
                  \* other than 200

ASSUME SwitchAssumption ==
    /\ FirstMode \in Modes
    /\ Nothing \notin Modes
    /\ MaxSwitches \in Nat /\ MaxDetails \in Nat
    /\ Patience \in 0 .. 2
    /\ OrderedHttp \in BOOLEAN /\ MayRefuse \in BOOLEAN

VARIABLES
    boot,             \* how far bootstrap() is
    currentMode,      \* of initMap.js
    chosen,           \* what setCurrentMode was last called with: the buttons,
                      \* the body's class and its data-mode
    latestUpdateSeq,  \* of resources.js
    pending,          \* HTTP requests in flight
    nextId,
    panel,            \* the resource panel: mode and number of its request
    map,              \* allMonitoringPoints
    list,             \* the station list
    card,             \* the summary cards
    detail,           \* the resource detail view
    switches, details \* bounds only

bounds == <<switches, details>>
panes  == <<map, list, card>>
vars   == <<boot, currentMode, chosen, latestUpdateSeq, pending, nextId, panel, panes,
            detail, bounds>>

\* "switch" is the request for resources that switchMode awaits, "initial"
\* the one that initResourceInteractions sends; only they have a seq.
StationKinds == {"firstStations", "stations"}
ListKinds    == {"firstList", "list"}
Kinds == StationKinds \union ListKinds \union {"switch", "initial", "map", "card", "detail"}

Requests == [id : Nat, kind : Kinds, mode : Modes, seq : Nat]

Request(id, kind, m) == [id |-> id, kind |-> kind, mode |-> m, seq |-> 0]

ResourceRequest(id, kind, m, seq) == [id |-> id, kind |-> kind, mode |-> m, seq |-> seq]

Shown == Modes \union {Nothing}

TypeOK ==
    /\ boot \in {"map", "panes", "done"}
    /\ currentMode \in Modes
    /\ chosen \in Modes
    /\ latestUpdateSeq \in Nat
    /\ pending \subseteq Requests
    /\ nextId \in Nat
    /\ panel \in [mode : Shown, seq : Nat]
    /\ map \in Shown /\ list \in Shown /\ card \in Shown /\ detail \in Shown
    /\ switches \in Nat /\ details \in Nat

\* initMap() has shown the stations of the first mode; initRealtime() did not
\* connect and requests them again.
Init ==
    /\ boot = "map"
    /\ currentMode = FirstMode
    /\ chosen = FirstMode
    /\ latestUpdateSeq = 0
    /\ pending = {Request(0, "firstStations", FirstMode)}
    /\ nextId = 1
    /\ panel = [mode |-> Nothing, seq |-> 0]
    /\ map = FirstMode
    /\ list = Nothing
    /\ card = Nothing
    /\ detail = Nothing
    /\ switches = 0
    /\ details = 0

-----------------------------------------------------------------------------
\* initResourceInteractions() ends with updateResourcesForMode('flood'),
\* whatever the mode is by then; initStationList() requests its stations.
StartPanes ==
    /\ boot = "map"
    /\ \A r \in pending : r.kind # "firstStations"
    /\ boot' = "panes"
    /\ latestUpdateSeq' = latestUpdateSeq + 1
    /\ pending' = pending \union
           {ResourceRequest(nextId, "initial", FirstMode, latestUpdateSeq + 1),
            Request(nextId + 1, "firstList", currentMode)}
    /\ nextId' = nextId + 2
    /\ UNCHANGED <<currentMode, chosen, panel, panes, detail, bounds>>

\* Once the list is there, startAutoRefresh() of numberAnimation.js fills the
\* summary cards for the body's data-mode.
StartCards ==
    /\ boot = "panes"
    /\ \A r \in pending : r.kind # "firstList"
    /\ boot' = "done"
    /\ pending' = pending \union {Request(nextId, "card", chosen)}
    /\ nextId' = nextId + 1
    /\ UNCHANGED <<currentMode, chosen, latestUpdateSeq, panel, panes, detail, bounds>>

UserWaits ==
    \/ Patience >= 1 /\ (boot # "done" \/ \E r \in pending : r.kind = "initial")
    \/ Patience >= 2 /\ \E r \in pending : r.kind = "switch"

\* Fault: the request number is used and not counted up.
SwitchModeUncounted(m) ==
    /\ switches < MaxSwitches
    /\ ~UserWaits
    /\ currentMode # m
    /\ switches' = switches + 1
    /\ currentMode' = m
    /\ chosen' = m
    /\ pending' = pending \union
           {Request(nextId, "stations", m),
            ResourceRequest(nextId + 1, "switch", m, latestUpdateSeq + 1)}
    /\ nextId' = nextId + 2
    /\ UNCHANGED <<boot, latestUpdateSeq, panel, panes, detail, details>>

\* switchMode(m) up to its await: the modeChanged listener requests the
\* stations, updateResourcesForMode the resources.
SwitchMode(m) ==
    /\ switches < MaxSwitches
    /\ ~UserWaits
    /\ currentMode # m
    /\ switches' = switches + 1
    /\ currentMode' = m
    /\ chosen' = m
    /\ latestUpdateSeq' = latestUpdateSeq + 1
    /\ pending' = pending \union
           {Request(nextId, "stations", m),
            ResourceRequest(nextId + 1, "switch", m, latestUpdateSeq + 1)}
    /\ nextId' = nextId + 2
    /\ UNCHANGED <<boot, panel, panes, detail, details>>

\* An answer comes in.
Answered(r) ==
    /\ r \in pending
    /\ OrderedHttp => \A s \in pending : r.id <= s.id

\* Fault: the check of the request number is gone.
UpdatePanelByMode(r) ==
    IF r.mode = currentMode
    THEN panel' = [mode |-> r.mode, seq |-> r.seq]
    ELSE UNCHANGED panel

\* updateResourcesForMode after its await.  A failed request falls back to
\* the local data of the same mode, a refused one leaves the panel alone.
UpdatePanel(r) ==
    IF r.seq = latestUpdateSeq /\ r.mode = currentMode
    THEN \/ panel' = [mode |-> r.mode, seq |-> r.seq]
         \/ MayRefuse /\ UNCHANGED panel
    ELSE UNCHANGED panel

InitialResources(r) ==
    /\ Answered(r)
    /\ r.kind = "initial"
    /\ UpdatePanel(r)
    /\ pending' = pending \ {r}
    /\ UNCHANGED <<boot, currentMode, chosen, latestUpdateSeq, nextId, panes, detail, bounds>>

\* Fault: the summary cards are always those of the first mode.
FinishSwitchDefaultCards(r) ==
    /\ Answered(r)
    /\ r.kind = "switch"
    /\ UpdatePanel(r)
    /\ detail' = Nothing
    /\ currentMode' = r.mode
    /\ pending' = (pending \ {r}) \union
           {Request(nextId, "list", currentMode), Request(nextId + 1, "card", FirstMode),
            Request(nextId + 2, "map", r.mode)}
    /\ nextId' = nextId + 3
    /\ UNCHANGED <<boot, chosen, latestUpdateSeq, panes, bounds>>

\* Fault: the detail view is left open.
FinishSwitchKeepingDetail(r) ==
    /\ Answered(r)
    /\ r.kind = "switch"
    /\ UpdatePanel(r)
    /\ currentMode' = r.mode
    /\ pending' = (pending \ {r}) \union
           {Request(nextId, "list", currentMode), Request(nextId + 1, "card", r.mode),
            Request(nextId + 2, "map", r.mode)}
    /\ nextId' = nextId + 3
    /\ UNCHANGED <<boot, chosen, latestUpdateSeq, panes, detail, bounds>>

\* switchMode after its await: it closes the detail view, requests the list
\* for the mode of the moment and the cards for its own, and updateMapForFlood
\* or updateMapForDrought sets currentMode to its own mode once more.
FinishSwitch(r) ==
    /\ Answered(r)
    /\ r.kind = "switch"
    /\ UpdatePanel(r)
    /\ detail' = Nothing
    /\ currentMode' = r.mode
    /\ pending' = (pending \ {r}) \union
           {Request(nextId, "list", currentMode), Request(nextId + 1, "card", r.mode),
            Request(nextId + 2, "map", r.mode)}
    /\ nextId' = nextId + 3
    /\ UNCHANGED <<boot, chosen, latestUpdateSeq, panes, bounds>>

\* What an answer leaves in a pane: its own mode, or one of others when the
\* request is refused or fails.
ShownOr(r, others) == {r.mode} \union (IF MayRefuse THEN others ELSE {})

\* Stations for the map and the list.  After a failure fetchStationData returns
\* an empty list, which empties the station list and not the map.
ShowStations(r) ==
    /\ Answered(r)
    /\ r.kind \in StationKinds
    /\ \/ map' = r.mode /\ list' = r.mode
       \/ MayRefuse /\ list' = Nothing /\ UNCHANGED map
    /\ pending' = pending \ {r}
    /\ UNCHANGED <<boot, currentMode, chosen, latestUpdateSeq, nextId, panel, card, detail,
                   bounds>>

\* Stations for the map alone, requested by updateMapForFlood and -Drought.
ShowMap(r) ==
    /\ Answered(r)
    /\ r.kind = "map"
    /\ map' \in ShownOr(r, {map})
    /\ pending' = pending \ {r}
    /\ UNCHANGED <<boot, currentMode, chosen, latestUpdateSeq, nextId, panel, list, card,
                   detail, bounds>>

\* fetchAndRenderStations: a refused request leaves the list, a failed one
\* empties it.
ShowList(r) ==
    /\ Answered(r)
    /\ r.kind \in ListKinds
    /\ list' \in ShownOr(r, {list, Nothing})
    /\ pending' = pending \ {r}
    /\ UNCHANGED <<boot, currentMode, chosen, latestUpdateSeq, nextId, panel, map, card,
                   detail, bounds>>

\* initNumberAnimations
ShowCards(r) ==
    /\ Answered(r)
    /\ r.kind = "card"
    /\ card' \in ShownOr(r, {card})
    /\ pending' = pending \ {r}
    /\ UNCHANGED <<boot, currentMode, chosen, latestUpdateSeq, nextId, panel, map, list,
                   detail, bounds>>

\* A click on a resource card requests its details; the cards are covered
\* while the detail view is open.
ClickCard ==
    /\ boot # "map"
    /\ details < MaxDetails
    /\ detail = Nothing
    /\ details' = details + 1
    /\ pending' = pending \union {Request(nextId, "detail", currentMode)}
    /\ nextId' = nextId + 1
    /\ UNCHANGED <<boot, currentMode, chosen, latestUpdateSeq, panel, panes, detail, switches>>

\* The details are shown, whatever has happened since the click, or the request
\* is refused or fails.
ShowDetail(r) ==
    /\ Answered(r)
    /\ r.kind = "detail"
    /\ detail' \in ShownOr(r, {detail})
    /\ pending' = pending \ {r}
    /\ UNCHANGED <<boot, currentMode, chosen, latestUpdateSeq, nextId, panel, panes, bounds>>

\* The back button.
CloseDetail ==
    /\ detail # Nothing
    /\ detail' = Nothing
    /\ UNCHANGED <<boot, currentMode, chosen, latestUpdateSeq, pending, nextId, panel, panes,
                   bounds>>

Next ==
    \/ StartPanes \/ StartCards
    \/ \E m \in Modes : SwitchMode(m)
    \/ \E r \in pending : \/ InitialResources(r) \/ FinishSwitch(r)
                          \/ ShowStations(r) \/ ShowMap(r) \/ ShowList(r) \/ ShowCards(r)
                          \/ ShowDetail(r)
    \/ ClickCard \/ CloseDetail

Spec == Init /\ [][Next]_vars

-----------------------------------------------------------------------------
Settled == boot = "done" /\ pending = {}

\* The resource panel only moves forward: however the answers overtake one
\* another, it never replaces the data of a request by those of an earlier one.
PanelNeverGoesBack == [][panel'.seq >= panel.seq]_vars

\* What makes it so: the numbers shown and in flight were given out, each of
\* them to one request.
SeqBounded ==
    /\ panel.seq <= latestUpdateSeq
    /\ \A r \in pending : r.seq <= latestUpdateSeq
SeqGivenOnce == \A r, s \in pending : r.seq = s.seq /\ r.seq # 0 => r = s

\* The request numbers of the resource panel (latestUpdateSeq): none is shown
\* or in flight that was not given out, and no two requests share one.
IInv == TypeOK /\ SeqBounded /\ SeqGivenOnce

\* A user who waits for each switch, and answers that come in order: once all
\* is answered, buttons, map, list, cards and panel show one and the same mode.
SettledPanesAgree == Settled =>
    /\ chosen = currentMode
    /\ map = currentMode /\ list = currentMode /\ card = currentMode
    /\ panel.mode = currentMode

\* "update the resource panel according to the mode" (resources.js): once all
\* is answered the panel shows the mode of the page.
PanelFollowsMode == Settled => panel.mode = currentMode

\* "When the mode is switched, close the detail view if it is open"
\* (modeSwitch.js): once all is answered no detail view of another mode is open,
\* nor one that was requested before the switch and came after the click.  It
\* takes answers in order: a late one opens the detail view of the old mode.
DetailFollowsMode == Settled /\ detail # Nothing => detail = currentMode
=============================================================================
