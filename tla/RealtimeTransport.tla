------------------------- MODULE RealtimeTransport -------------------------
(***************************************************************************)
(* main.js of the flood control page: how the page keeps its station view  *)
(* fresh, over a STOMP subscription while the latest data are shown and    *)
(* over plain HTTP otherwise.                                              *)
(*                                                                         *)
(* The page is one event loop: code between two awaits is one action, and  *)
(* connections, HTTP answers, server pushes, timers and the user arrive in *)
(* any order between the actions.  stompClient is not a variable: it is    *)
(* set before websocketReady first is and never reset.                     *)
(***************************************************************************)
EXTENDS Integers, Bags

CONSTANTS
    Modes,          \* "flood" and "drought"
    FirstMode,      \* the mode the page starts in
    Times,          \* historical query times the user may pick
    Latest,         \* no query time picked
    NoView, NoSub, NoTimer, NotAsked,
    MaxHour,        \* bound: last hour
    MaxClicks       \* bound: uses of the mode buttons and the query time panel

Hours == 0 .. MaxHour
Dues  == 1 .. MaxHour + 1     \* the hours a timer may be set for
Query == Times \union {Latest}

ASSUME PageAssumption ==
    /\ FirstMode \in Modes
    /\ Latest \notin Times
    /\ MaxHour \in Nat /\ MaxClicks \in Nat
    /\ NoSub \notin Modes
    /\ NoTimer \notin Dues
    /\ NotAsked \notin Hours

VARIABLES
    boot,                 \* how far bootstrap() is
    mode,                 \* currentMode of initMap.js
    selected,             \* selectedQueryTime of queryTimeContext.js
    hour,                 \* wall clock
    pending,              \* HTTP requests in flight, a bag
    connecting,           \* initRealtime() calls that await their connection
    stationsSubscription,
    liveSubs,             \* subscriptions the broker serves, by topic
    websocketReady,
    httpFallbackActive,
    httpFallbackTimerId,      \* NoTimer, or the hour the stored timer is set for
    httpTimers,               \* timers of the browser, by the hour they are set for
    websocketRefreshTimerId,
    wsTimers,
    asked,                \* the hour in which each mode was last requested by STOMP
    shown,                \* provenance of allMonitoringPoints
    newest,               \* history: newest hour shown as the latest data
    lastFailure,          \* history: hour of the last request for the latest data
                          \* that failed or push that was lost; -1 if none
    hurried,              \* history: a mode was picked while the map was still
                          \* being updated for an earlier pick
    clicks                \* bound only

page      == <<boot, mode, selected, hurried, clicks>>
http      == <<httpFallbackActive, httpFallbackTimerId, httpTimers>>
ws        == <<websocketRefreshTimerId, wsTimers>>
subs      == <<stationsSubscription, liveSubs>>
view      == <<shown, newest, lastFailure>>
vars      == <<page, http, ws, subs, pending, hour, connecting, websocketReady, asked, view>>

\* A station request remembers what to do with its answer: "schedule" the
\* next hourly HTTP refresh or nothing more.  A "resources" request is the
\* await in switchMode, after which the map is updated for its mode.  HTTP
\* answers come in any order.  "initMap" is the first request of all.
Requests == [mode : Modes, query : Query, hour : Hours,
             then : {"initMap", "nothing", "schedule", "updateMap"}]

InFlight == BagToSet(pending)

Views == [mode : Modes, query : Query, hour : Hours]

PageTypes ==
    /\ boot \in {"map", "done", "failed"}
    /\ mode \in Modes
    /\ selected \in Query
    /\ hour \in Hours
    /\ connecting \in Nat
    /\ hurried \in BOOLEAN
    /\ clicks \in Nat

TransportTypes ==
    /\ stationsSubscription \in Modes \union {NoSub}
    /\ liveSubs \in [Modes -> Nat]
    /\ websocketReady \in BOOLEAN
    /\ httpFallbackActive \in BOOLEAN
    /\ httpFallbackTimerId \in Dues \union {NoTimer}
    /\ httpTimers \in [Dues -> Nat]
    /\ websocketRefreshTimerId \in Dues \union {NoTimer}
    /\ wsTimers \in [Dues -> Nat]

DataTypes ==
    /\ IsABag(pending) /\ InFlight \subseteq Requests
    /\ asked \in [Modes -> Hours \union {NotAsked}]
    /\ shown \in Views \union {NoView}
    /\ newest \in Hours \union {-1}
    /\ lastFailure \in Hours \union {-1}

TypeOK == PageTypes /\ TransportTypes /\ DataTypes

\* fetchStationData(m) is called: one request more is in flight.
Request(m, q, then) == [mode |-> m, query |-> q, hour |-> hour, then |-> then]

Sent(rs, r)     == rs (+) SetToBag({r})
Received(rs, r) == rs (-) SetToBag({r})

Fetch(m, q, then) == pending' = Sent(pending, Request(m, q, then))

\* bootstrap() waits in initMap() for the first station request.
Init ==
    /\ boot = "map"
    /\ mode = FirstMode
    /\ selected = Latest
    /\ hour = 0
    /\ pending = SetToBag({Request(FirstMode, Latest, "initMap")})
    /\ connecting = 0
    /\ stationsSubscription = NoSub
    /\ liveSubs = [m \in Modes |-> 0]
    /\ websocketReady = FALSE
    /\ httpFallbackActive = FALSE
    /\ httpFallbackTimerId = NoTimer
    /\ httpTimers = [d \in Dues |-> 0]
    /\ websocketRefreshTimerId = NoTimer
    /\ wsTimers = [d \in Dues |-> 0]
    /\ asked = [m \in Modes |-> NotAsked]
    /\ shown = NoView
    /\ newest = -1
    /\ lastFailure = -1
    /\ hurried = FALSE
    /\ clicks = 0

ShouldUseRealtime(q) == q = Latest

-----------------------------------------------------------------------------
\* Parts of the handlers.  Each changes the variables it names.

\* clearTimeout on a stored timer id
Cleared(timers, id) == IF id = NoTimer THEN timers ELSE [timers EXCEPT ![id] = @ - 1]

ClearHttpTimer ==
    /\ httpTimers' = Cleared(httpTimers, httpFallbackTimerId)
    /\ httpFallbackTimerId' = NoTimer

ClearWsTimer ==
    /\ wsTimers' = Cleared(wsTimers, websocketRefreshTimerId)
    /\ websocketRefreshTimerId' = NoTimer

\* What the broker serves once the stored subscription is given up.
Unsubscribed ==
    IF stationsSubscription = NoSub THEN liveSubs
    ELSE [liveSubs EXCEPT ![stationsSubscription] = @ - 1]

\* Fault: the stored subscription is overwritten, not given up.
SubscribeStationsOnly(m) ==
    /\ liveSubs' = [liveSubs EXCEPT ![m] = @ + 1]
    /\ stationsSubscription' = m

SubscribeStations(m) ==
    /\ liveSubs' = [Unsubscribed EXCEPT ![m] = @ + 1]
    /\ stationsSubscription' = m

\* requestStations(m) with the query time q
RequestStations(m, q) ==
    asked' = IF ShouldUseRealtime(q) THEN [asked EXCEPT ![m] = hour] ELSE asked

\* scheduleNextHourRequest() while websocketReady, from the timers in the
\* browser; the stored id is overwritten.
ScheduleWs(timers) ==
    /\ wsTimers' = [timers EXCEPT ![hour + 1] = @ + 1]
    /\ websocketRefreshTimerId' = hour + 1

\* scheduleNextHourHttpRefresh()
ScheduleHttp ==
    IF httpFallbackActive /\ ShouldUseRealtime(selected) /\ httpFallbackTimerId = NoTimer
    THEN /\ httpTimers' = [httpTimers EXCEPT ![hour + 1] = @ + 1]
         /\ httpFallbackTimerId' = hour + 1
         /\ UNCHANGED httpFallbackActive
    ELSE UNCHANGED http

\* Fault: the pending HTTP refresh is forgotten.
StopWebSocketOnly ==
    /\ websocketReady' = FALSE
    /\ httpFallbackActive' = FALSE
    /\ liveSubs' = Unsubscribed
    /\ stationsSubscription' = NoSub
    /\ ClearWsTimer
    /\ UNCHANGED <<httpFallbackTimerId, httpTimers>>

StopRealtimeSubscriptions ==
    /\ websocketReady' = FALSE
    /\ httpFallbackActive' = FALSE
    /\ liveSubs' = Unsubscribed
    /\ stationsSubscription' = NoSub
    /\ ClearHttpTimer
    /\ ClearWsTimer

-----------------------------------------------------------------------------
\* Handlers.

\* initMap() is done and initRealtime() is entered ...
Boot ==
    /\ boot = "map"
    /\ \A r \in InFlight : r.then # "initMap"
    /\ boot' = "done"
    /\ IF ShouldUseRealtime(selected)
       THEN connecting' = connecting + 1 /\ UNCHANGED <<websocketReady, http, ws, subs>>
       ELSE StopRealtimeSubscriptions /\ UNCHANGED connecting
    /\ UNCHANGED <<mode, selected, hurried, clicks, pending, hour, asked, view>>

\* ... or a map resource is missing and bootstrap() ends here.
BootFails ==
    /\ boot = "map"
    /\ \A r \in InFlight : r.then # "initMap"
    /\ boot' = "failed"
    /\ UNCHANGED <<mode, selected, hurried, clicks, http, ws, subs, pending, hour,
                   connecting, websocketReady, asked, view>>

\* Fault: the hourly request is left to the pushes of the server.
ConnectSucceedsUnscheduled ==
    /\ connecting > 0
    /\ connecting' = connecting - 1
    /\ websocketReady' = TRUE
    /\ httpFallbackActive' = FALSE
    /\ ClearHttpTimer
    /\ SubscribeStations(mode)
    /\ RequestStations(mode, selected)
    /\ UNCHANGED <<page, ws, pending, hour, view>>

\* connectWebSocket() resolves in one of the initRealtime() calls.
ConnectSucceeds ==
    /\ connecting > 0
    /\ connecting' = connecting - 1
    /\ websocketReady' = TRUE
    /\ httpFallbackActive' = FALSE
    /\ ClearHttpTimer
    /\ SubscribeStations(mode)
    /\ RequestStations(mode, selected)
    /\ IF ShouldUseRealtime(selected) THEN ScheduleWs(wsTimers) ELSE UNCHANGED ws
    /\ UNCHANGED <<page, pending, hour, view>>

\* connectWebSocket() rejects: fall back to HTTP.
ConnectFails ==
    /\ connecting > 0
    /\ connecting' = connecting - 1
    /\ websocketReady' = FALSE
    /\ httpFallbackActive' = TRUE
    /\ Fetch(mode, selected, "schedule")
    /\ UNCHANGED <<page, httpFallbackTimerId, httpTimers, ws, subs, hour, asked, view>>

\* An earlier switch has not updated the map yet.
MapAwaited == \E r \in InFlight : r.then = "updateMap"

\* The user picks another mode: switchMode() up to its first await, with
\* the modeChanged listener it calls.
SwitchMode(m) ==
    /\ clicks < MaxClicks
    /\ m # mode
    /\ clicks' = clicks + 1
    /\ hurried' = (hurried \/ MapAwaited)
    /\ mode' = m
    /\ IF websocketReady /\ ShouldUseRealtime(selected)
       THEN /\ httpFallbackActive' = FALSE
            /\ ClearHttpTimer
            /\ SubscribeStations(m)
            /\ RequestStations(m, selected)
            /\ Fetch(m, selected, "updateMap")
       ELSE /\ httpFallbackActive' = TRUE
            /\ pending' = Sent(Sent(pending, Request(m, selected, "schedule")),
                               Request(m, selected, "updateMap"))
            /\ UNCHANGED <<httpFallbackTimerId, httpTimers, subs, asked>>
    /\ UNCHANGED <<boot, selected, ws, hour, connecting, websocketReady, view>>

\* The user applies a query time, or goes back to the latest data: the
\* QUERY_TIME_EVENT listener up to its first await.
SelectTime(q) ==
    /\ clicks < MaxClicks
    /\ clicks' = clicks + 1
    /\ selected' = q
    /\ IF ShouldUseRealtime(q)
       THEN /\ connecting' = connecting + 1
            /\ UNCHANGED <<websocketReady, http, ws, subs, pending>>
       ELSE /\ StopRealtimeSubscriptions
            /\ Fetch(mode, q, "nothing")
            /\ UNCHANGED connecting
    /\ UNCHANGED <<boot, mode, hurried, hour, asked, view>>

\* What a station answer shows: the hour of the latest data is the server's
\* when it served the request.
View(m, q, h) == [mode |-> m, query |-> q, hour |-> IF q = Latest THEN h ELSE 0]

Show(m, q, h) ==
    /\ shown' = View(m, q, h)
    /\ newest' = IF q = Latest /\ h > newest THEN h ELSE newest
    /\ UNCHANGED lastFailure

\* A station request is answered, or fails and leaves the map as it is.
StationsAnswered(r) ==
    /\ r.then # "updateMap"
    /\ pending' = Received(pending, r)
    /\ \/ \E h \in r.hour .. hour : Show(r.mode, r.query, h)
       \/ /\ lastFailure' = IF r.query = Latest THEN hour ELSE lastFailure
          /\ UNCHANGED <<shown, newest>>
    /\ IF r.then = "schedule" THEN ScheduleHttp ELSE UNCHANGED http
    /\ UNCHANGED <<page, ws, subs, hour, connecting, websocketReady, asked>>

\* The resource request of switchMode is over: updateMapForFlood or
\* updateMapForDrought sets the mode once more and requests the stations.
MapUpdated(r) ==
    /\ r.then = "updateMap"
    /\ mode' = r.mode
    /\ pending' = Sent(Received(pending, r), Request(r.mode, selected, "nothing"))
    /\ UNCHANGED <<boot, selected, hurried, clicks, http, ws, subs, hour, connecting,
                   websocketReady, asked, view>>

\* The hourly websocket timer fires.
WsTimerFires(d) ==
    LET rest == [wsTimers EXCEPT ![d] = @ - 1] IN
    /\ d <= hour
    /\ wsTimers[d] > 0
    /\ IF websocketReady /\ ShouldUseRealtime(selected)
       THEN RequestStations(mode, selected) /\ ScheduleWs(rest)
       ELSE /\ wsTimers' = rest
            /\ websocketRefreshTimerId' = NoTimer
            /\ UNCHANGED asked
    /\ UNCHANGED <<page, http, subs, pending, hour, connecting, websocketReady, view>>

\* Fault: the fired timer keeps its id, so that no other is ever set.
HttpTimerFiresKeepingId(d) ==
    /\ d <= hour
    /\ httpTimers[d] > 0
    /\ httpTimers' = [httpTimers EXCEPT ![d] = @ - 1]
    /\ IF httpFallbackActive /\ ShouldUseRealtime(selected)
       THEN Fetch(mode, selected, "schedule")
       ELSE UNCHANGED pending
    /\ UNCHANGED <<page, httpFallbackActive, httpFallbackTimerId, ws, subs, hour, connecting,
                   websocketReady, asked, view>>

\* The hourly HTTP timer fires.
HttpTimerFires(d) ==
    /\ d <= hour
    /\ httpTimers[d] > 0
    /\ httpTimers' = [httpTimers EXCEPT ![d] = @ - 1]
    /\ httpFallbackTimerId' = NoTimer
    /\ IF httpFallbackActive /\ ShouldUseRealtime(selected)
       THEN Fetch(mode, selected, "schedule")
       ELSE UNCHANGED pending
    /\ UNCHANGED <<page, httpFallbackActive, ws, subs, hour, connecting,
                   websocketReady, asked, view>>

\* The message handler of the subscription: whoever is subscribed to the
\* topic of m applies the stations of hour h.
Pushed(m, h) ==
    IF liveSubs[m] > 0 THEN Show(m, Latest, h) ELSE UNCHANGED view

\* The server answers a STOMP request with a push to the topic of its mode.
PushAnswer(m) ==
    /\ asked[m] # NotAsked
    /\ \E h \in asked[m] .. hour : Pushed(m, h)
    /\ asked' = [asked EXCEPT ![m] = NotAsked]
    /\ UNCHANGED <<page, http, ws, subs, pending, hour, connecting, websocketReady>>

\* The query or the sending throws, and the server logs it: no push comes.
PushLost(m) ==
    /\ asked[m] # NotAsked
    /\ asked' = [asked EXCEPT ![m] = NotAsked]
    /\ lastFailure' = hour
    /\ UNCHANGED <<page, http, ws, subs, pending, hour, connecting, websocketReady,
                   shown, newest>>

\* The server pushes on its own account (TaskScheduler), or for another page.
PushBroadcast(m) ==
    /\ Pushed(m, hour)
    /\ UNCHANGED <<page, http, ws, subs, pending, hour, connecting, websocketReady, asked>>

\* The hour passes.  Requests time out after seconds (axios.defaults.timeout),
\* so none is in flight for two rollovers.
Tick ==
    /\ hour < MaxHour
    /\ \A r \in InFlight : r.hour = hour
    /\ hour' = hour + 1
    /\ UNCHANGED <<page, http, ws, subs, pending, connecting, websocketReady, asked, view>>

Next ==
    \/ Boot \/ BootFails
    \/ ConnectSucceeds \/ ConnectFails
    \/ \E m \in Modes : SwitchMode(m) \/ PushAnswer(m) \/ PushLost(m) \/ PushBroadcast(m)
    \/ \E q \in Query : SelectTime(q)
    \/ \E r \in InFlight : StationsAnswered(r) \/ MapUpdated(r)
    \/ \E d \in Dues : WsTimerFires(d) \/ HttpTimerFires(d)
    \/ Tick

Spec == Init /\ [][Next]_vars

\* Nothing keeps the browser from running what is due: connections settle,
\* requests are answered or fail, due timers fire, and a request by STOMP is
\* answered by a push or its push is lost.  The user and the clock owe nothing.
Fairness ==
    /\ WF_vars(Boot)
    /\ WF_vars(ConnectSucceeds \/ ConnectFails)
    /\ WF_vars(\E r \in InFlight : StationsAnswered(r) \/ MapUpdated(r))
    /\ \A d \in Dues : WF_vars(WsTimerFires(d)) /\ WF_vars(HttpTimerFires(d))
    /\ \A m \in Modes : WF_vars(PushAnswer(m) \/ PushLost(m))

FairSpec == Spec /\ Fairness

-----------------------------------------------------------------------------
\* The broker serves exactly the stored subscription: whatever the order of
\* connections, mode switches and query times, no topic is left subscribed
\* behind the page's back.
OneSubscription == \A m \in Modes :
    liveSubs[m] = IF stationsSubscription = m THEN 1 ELSE 0

\* The browser runs exactly the stored HTTP timer, and none in the history.
OneHttpTimer ==
    /\ \A d \in Dues : httpTimers[d] = IF httpFallbackTimerId = d THEN 1 ELSE 0
    /\ selected # Latest => httpFallbackTimerId = NoTimer

WsArmed   == websocketReady /\ \E d \in Dues : wsTimers[d] > 0
HttpArmed == httpFallbackActive /\ \E d \in Dues : httpTimers[d] > 0

\* Once the page has started and shows the latest data, and no connection or
\* fallback request is in flight, one of the two transports has its next
\* hourly refresh set: no interleaving leaves the page without one.
RefreshArmed ==
    /\ boot = "done"
    /\ selected = Latest
    /\ connecting = 0
    /\ \A r \in InFlight : r.then # "schedule"
    => WsArmed \/ HttpArmed

\* What makes RefreshArmed inductive: a settled page on the latest data whose
\* socket is ready has a timer, and one without has the fallback on, with its
\* timer set or a request in flight that will set it.
ArmedByRequest == httpFallbackActive /\ \E r \in InFlight : r.then = "schedule"

SettledIsArmed ==
    /\ selected = Latest
    /\ connecting = 0
    => /\ websocketReady => WsArmed
       /\ boot = "done" => WsArmed \/ HttpArmed \/ ArmedByRequest

\* The stored websocket timer, if any, is one the browser runs.
WsTimerLive ==
    websocketRefreshTimerId # NoTimer => wsTimers[websocketRefreshTimerId] > 0

\* The inductive invariant: types, the bookkeeping of the subscription and of
\* the timers, and what arms the next refresh.
IInv ==
    /\ TypeOK
    /\ OneSubscription
    /\ OneHttpTimer
    /\ WsTimerLive
    /\ SettledIsArmed

\* "skip websocket refresh for historical query time" (main.js): a push does
\* not replace what is shown for a historical query time.
PushesSkipHistory ==
    [][\A m \in Modes : selected # Latest /\ PushBroadcast(m) => shown' = shown]_vars

\* Nobody can push anything onto a page that shows a historical query time.
QuietHistory ==
    /\ selected # Latest
    /\ connecting = 0
    /\ \A m \in Modes : liveSubs[m] = 0

\* What remains of that comment: a historical time that is picked while no
\* connection is being made silences the page, whatever was subscribed by then,
\* and nothing but going back to the latest data ends the silence.  In between
\* only answers to its HTTP requests change what it shows, those it sent for the
\* latest data before the time was picked included.
HistoryIsQuiet == [][
    /\ /\ connecting = 0
       /\ selected' # Latest
       /\ QuietHistory \/ selected' # selected
       => QuietHistory'
    /\ QuietHistory /\ shown' # shown
       => \E r \in InFlight : pending' = Received(pending, r) /\ shown'.query = r.query]_vars

\* A page on the latest data falls more than one hour behind only for as long
\* as its requests fail: if in hour h it shows nothing newer than hour h - 2
\* for good, then the user has left for the history, or a request or push has
\* failed in hour h - 1 or later (one that failed before is made up for by the
\* hourly refresh), or modes were picked while the map was still being updated
\* for an earlier pick, whose end then undoes the later one (updateMapForFlood)
\* and leaves the page asking for one topic while subscribed to the other.  The
\* current hour is too much to ask: an answer served just before the hour and
\* handled just after it sets the next refresh a whole hour later.  A socket
\* that breaks after it was connected is not modelled.
LatestLagsOneHour == \A h \in Hours :
    (boot = "done" /\ selected = Latest /\ hour = h) ~>
    (selected # Latest \/ newest >= h - 1 \/ lastFailure >= h - 1 \/ hurried)
=============================================================================
