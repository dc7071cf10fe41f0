---------------------- MODULE RealtimeTransport_proofs ----------------------
(***************************************************************************)
(* The bookkeeping of main.js for any modes, query times and bounds: one   *)
(* subscription, one HTTP timer, and a refresh always set.                 *)
(*                                                                         *)
(* The argument takes each part of the transport by itself.  What a step   *)
(* can do to that part is first reduced to a few changes (the lemmas named *)
(* ...Changes), and the invariant is then shown for each change.           *)
(***************************************************************************)
EXTENDS RealtimeTransport, TLAPS

\* The bag of requests in flight: sending adds one, receiving takes one away.
LEMMA SentBag ==
    ASSUME NEW rs, IsABag(rs), NEW r
    PROVE  IsABag(Sent(rs, r)) /\ BagToSet(Sent(rs, r)) = BagToSet(rs) \union {r}
BY DEF Sent, IsABag, SetToBag, BagToSet, (+)

LEMMA ReceivedBag ==
    ASSUME NEW rs, IsABag(rs), NEW r
    PROVE  /\ IsABag(Received(rs, r))
           /\ BagToSet(Received(rs, r)) \subseteq BagToSet(rs)
           /\ \A s \in BagToSet(rs) : s # r => s \in BagToSet(Received(rs, r))
BY DEF Received, IsABag, SetToBag, BagToSet, (-)

LEMMA InitIInv == Init => IInv
<1> SUFFICES ASSUME Init PROVE IInv
    OBVIOUS
<1> USE PageAssumption DEF Init, Hours, Dues
<1>1. PageTypes
    <2>1. /\ boot = "map" /\ mode = FirstMode /\ selected = Latest /\ hour = 0
          /\ connecting = 0 /\ hurried = FALSE /\ clicks = 0
        OBVIOUS
    <2>2. hour \in Hours /\ selected \in Query
        BY <2>1 DEF Query
    <2> QED BY ONLY PageAssumption, <2>1, <2>2 DEF PageTypes
<1>2. TransportTypes
    BY DEF TransportTypes
<1>3. DataTypes
    <2> DEFINE first == Request(FirstMode, Latest, "initMap")
    <2>1. first \in Requests
        BY DEF Request, Requests, Query
    <2>2. pending = SetToBag({first})
        OBVIOUS
    <2>3. IsABag(pending) /\ InFlight = {first}
        BY <2>2 DEF IsABag, InFlight, BagToSet, SetToBag
    <2> QED BY <2>1, <2>3 DEF DataTypes
<1>4. OneSubscription /\ OneHttpTimer /\ WsTimerLive
    BY DEF OneSubscription, OneHttpTimer, WsTimerLive
<1>5. SettledIsArmed
    BY DEF SettledIsArmed
<1> QED BY <1>1, <1>2, <1>3, <1>4, <1>5 DEF IInv, TypeOK

LEMMA NextDue == hour \in Hours => hour + 1 \in Dues
BY PageAssumption DEF Hours, Dues

-----------------------------------------------------------------------------
\* The subscription: a step keeps it, gives it up, or replaces it.
LEMMA SubscriptionChanges ==
    ASSUME Next
    PROVE  \/ UNCHANGED subs
           \/ stationsSubscription' = NoSub /\ liveSubs' = Unsubscribed
           \/ \E m \in Modes : SubscribeStations(m)
           \/ SubscribeStations(mode)
<1> USE DEF StopRealtimeSubscriptions
<1>1. CASE Boot
    BY <1>1 DEF Boot
<1>2. CASE BootFails
    BY <1>2 DEF BootFails
<1>3. CASE ConnectSucceeds
    BY <1>3 DEF ConnectSucceeds
<1>4. CASE ConnectFails
    BY <1>4 DEF ConnectFails
<1>5. ASSUME NEW m \in Modes, SwitchMode(m) PROVE UNCHANGED subs \/ SubscribeStations(m)
    BY <1>5 DEF SwitchMode
<1>6. ASSUME NEW m \in Modes, PushAnswer(m) \/ PushLost(m) \/ PushBroadcast(m) PROVE UNCHANGED subs
    BY <1>6 DEF PushAnswer, PushLost, PushBroadcast
<1>7. ASSUME NEW q \in Query, SelectTime(q)
      PROVE  UNCHANGED subs \/ (stationsSubscription' = NoSub /\ liveSubs' = Unsubscribed)
    BY <1>7 DEF SelectTime
<1>8. ASSUME NEW r \in InFlight, StationsAnswered(r) \/ MapUpdated(r) PROVE UNCHANGED subs
    BY <1>8 DEF StationsAnswered, MapUpdated
<1>9. ASSUME NEW d \in Dues, WsTimerFires(d) \/ HttpTimerFires(d) PROVE UNCHANGED subs
    BY <1>9 DEF WsTimerFires, HttpTimerFires
<1>10. CASE Tick
    BY <1>10 DEF Tick
<1> QED BY <1>1, <1>2, <1>3, <1>4, <1>5, <1>6, <1>7, <1>8, <1>9, <1>10 DEF Next

SubsInv ==
    /\ stationsSubscription \in Modes \union {NoSub}
    /\ liveSubs \in [Modes -> Nat]
    /\ OneSubscription

\* Giving up the stored subscription leaves none.
LEMMA UnsubscribedIsNone ==
    ASSUME SubsInv
    PROVE  Unsubscribed = [m \in Modes |-> 0]
<1> USE PageAssumption DEF SubsInv, OneSubscription
<1>1. CASE stationsSubscription = NoSub
    BY <1>1 DEF Unsubscribed
<1>2. ASSUME NEW s \in Modes, stationsSubscription = s
      PROVE  Unsubscribed = [m \in Modes |-> 0]
    <2>1. liveSubs = [m \in Modes |-> IF s = m THEN 1 ELSE 0]
        BY <1>2
    <2>2. Unsubscribed = [liveSubs EXCEPT ![s] = liveSubs[s] - 1]
        <3>1. stationsSubscription # NoSub
            BY <1>2
        <3> QED BY <1>2, <3>1 DEF Unsubscribed
    <2>3. liveSubs[s] - 1 = 0
        BY <2>1
    <2> QED BY <2>1, <2>2, <2>3
<1> QED BY <1>1, <1>2

LEMMA SubscribeKeeps ==
    ASSUME SubsInv, NEW m \in Modes, SubscribeStations(m)
    PROVE  SubsInv'
<1>1. liveSubs' = [n \in Modes |-> IF n = m THEN 1 ELSE 0]
    <2> DEFINE none == [n \in Modes |-> 0]
    <2>1. liveSubs' = [none EXCEPT ![m] = @ + 1]
        BY UnsubscribedIsNone DEF SubscribeStations
    <2> QED BY <2>1
<1>2. stationsSubscription' = m
    BY DEF SubscribeStations
<1> QED BY <1>1, <1>2 DEF SubsInv, OneSubscription

LEMMA SubscriptionStep ==
    ASSUME SubsInv, mode \in Modes, Next
    PROVE  SubsInv'
<1>1. CASE UNCHANGED subs
    BY <1>1 DEF SubsInv, OneSubscription, subs
<1>2. CASE stationsSubscription' = NoSub /\ liveSubs' = Unsubscribed
    <2>1. liveSubs' = [m \in Modes |-> 0]
        BY <1>2, UnsubscribedIsNone
    <2> QED BY <1>2, <2>1, PageAssumption DEF SubsInv, OneSubscription
<1>3. ASSUME NEW m \in Modes, SubscribeStations(m) PROVE SubsInv'
    BY <1>3, SubscribeKeeps
<1> QED BY <1>1, <1>2, <1>3, SubscriptionChanges

-----------------------------------------------------------------------------
\* The HTTP timer: a step keeps it, clears it, sets it where none is stored,
\* or runs it; and it leaves for the history only by clearing it.
HttpTimer == <<httpFallbackTimerId, httpTimers>>

SetHttpTimer ==
    /\ httpFallbackTimerId = NoTimer
    /\ selected = Latest
    /\ httpTimers' = [httpTimers EXCEPT ![hour + 1] = @ + 1]
    /\ httpFallbackTimerId' = hour + 1

RunHttpTimer(d) ==
    /\ httpTimers[d] > 0
    /\ httpTimers' = [httpTimers EXCEPT ![d] = @ - 1]
    /\ httpFallbackTimerId' = NoTimer

LEMMA HttpTimerChanges ==
    ASSUME Next
    PROVE  \/ UNCHANGED HttpTimer /\ (selected' = selected \/ selected' = Latest)
           \/ ClearHttpTimer
           \/ SetHttpTimer /\ UNCHANGED selected
           \/ \E d \in Dues : RunHttpTimer(d)
<1> USE DEF HttpTimer, http, page, StopRealtimeSubscriptions, ShouldUseRealtime
<1>1. CASE Boot
    BY <1>1 DEF Boot
<1>2. CASE BootFails
    BY <1>2 DEF BootFails
<1>3. CASE ConnectSucceeds
    BY <1>3 DEF ConnectSucceeds
<1>4. CASE ConnectFails
    BY <1>4 DEF ConnectFails
<1>5. ASSUME NEW m \in Modes, SwitchMode(m)
      PROVE  (UNCHANGED HttpTimer /\ selected' = selected) \/ ClearHttpTimer
    BY <1>5 DEF SwitchMode
<1>6. ASSUME NEW m \in Modes, PushAnswer(m) \/ PushLost(m) \/ PushBroadcast(m)
      PROVE  UNCHANGED HttpTimer /\ selected' = selected
    BY <1>6 DEF PushAnswer, PushLost, PushBroadcast
<1>7. ASSUME NEW q \in Query, SelectTime(q)
      PROVE  (UNCHANGED HttpTimer /\ selected' = Latest) \/ ClearHttpTimer
    BY <1>7 DEF SelectTime
<1>8. ASSUME NEW r \in InFlight, StationsAnswered(r)
      PROVE  \/ UNCHANGED HttpTimer /\ selected' = selected
             \/ SetHttpTimer /\ UNCHANGED selected
    BY <1>8 DEF StationsAnswered, ScheduleHttp, SetHttpTimer
<1>9. ASSUME NEW r \in InFlight, MapUpdated(r) PROVE UNCHANGED HttpTimer /\ selected' = selected
    BY <1>9 DEF MapUpdated
<1>10. ASSUME NEW d \in Dues, WsTimerFires(d)
       PROVE  UNCHANGED HttpTimer /\ selected' = selected
    BY <1>10 DEF WsTimerFires
<1>11. ASSUME NEW d \in Dues, HttpTimerFires(d) PROVE RunHttpTimer(d)
    BY <1>11 DEF HttpTimerFires, RunHttpTimer
<1>12. CASE Tick
    BY <1>12 DEF Tick
<1> QED
    BY <1>1, <1>2, <1>3, <1>4, <1>5, <1>6, <1>7, <1>8, <1>9, <1>10, <1>11, <1>12 DEF Next

HttpInv ==
    /\ httpFallbackTimerId \in Dues \union {NoTimer}
    /\ httpTimers \in [Dues -> Nat]
    /\ OneHttpTimer

\* Once the stored timer is gone, cleared or run, the browser has none.
LEMMA NoHttpTimer ==
    ASSUME httpTimers' \in [Dues -> Nat], \A d \in Dues : httpTimers'[d] = 0,
           httpFallbackTimerId' = NoTimer
    PROVE  HttpInv'
BY PageAssumption DEF HttpInv, OneHttpTimer

LEMMA HttpTimerStep ==
    ASSUME HttpInv, hour \in Hours, Next
    PROVE  HttpInv'
<1> USE PageAssumption
<1>1. CASE UNCHANGED HttpTimer /\ (selected' = selected \/ selected' = Latest)
    BY <1>1 DEF HttpTimer, HttpInv, OneHttpTimer
<1>2. CASE ClearHttpTimer
    <2>1. httpTimers' \in [Dues -> Nat] /\ \A d \in Dues : httpTimers'[d] = 0
        BY <1>2 DEF HttpInv, OneHttpTimer, ClearHttpTimer, Cleared
    <2> QED BY <1>2, <2>1, NoHttpTimer DEF ClearHttpTimer
<1>3. CASE SetHttpTimer /\ UNCHANGED selected
    <2>1. httpTimers = [d \in Dues |-> 0] /\ hour + 1 \in Dues
        BY <1>3, NextDue DEF HttpInv, OneHttpTimer, SetHttpTimer
    <2>2. httpTimers' = [d \in Dues |-> IF d = hour + 1 THEN 1 ELSE 0]
        BY <1>3, <2>1 DEF SetHttpTimer
    <2> QED BY <1>3, <2>1, <2>2 DEF HttpInv, OneHttpTimer, SetHttpTimer
<1>4. ASSUME NEW d \in Dues, RunHttpTimer(d) PROVE HttpInv'
    <2>1. httpFallbackTimerId = d
        BY <1>4 DEF HttpInv, OneHttpTimer, RunHttpTimer
    <2>2. httpTimers' \in [Dues -> Nat] /\ \A e \in Dues : httpTimers'[e] = 0
        BY <1>4, <2>1 DEF HttpInv, OneHttpTimer, RunHttpTimer
    <2> QED BY <1>4, <2>2, NoHttpTimer DEF RunHttpTimer
<1> QED BY <1>1, <1>2, <1>3, <1>4, HttpTimerChanges
-----------------------------------------------------------------------------
\* The websocket timers: a step keeps them, clears the stored one, runs one,
\* or schedules one on top of those there were or of those left.
AfterRun(d) == [wsTimers EXCEPT ![d] = @ - 1]

LEMMA WsTimerChanges ==
    ASSUME Next
    PROVE  \/ UNCHANGED ws
           \/ ClearWsTimer
           \/ ScheduleWs(wsTimers)
           \/ \E d \in Dues :
                 /\ wsTimers[d] > 0
                 /\ \/ ScheduleWs(AfterRun(d))
                    \/ wsTimers' = AfterRun(d) /\ websocketRefreshTimerId' = NoTimer
<1> USE DEF StopRealtimeSubscriptions
<1>1. CASE Boot
    BY <1>1 DEF Boot
<1>2. CASE BootFails
    BY <1>2 DEF BootFails
<1>3. CASE ConnectSucceeds
    BY <1>3 DEF ConnectSucceeds
<1>4. CASE ConnectFails
    BY <1>4 DEF ConnectFails
<1>5. ASSUME NEW m \in Modes, SwitchMode(m) \/ PushAnswer(m) \/ PushLost(m) \/ PushBroadcast(m)
      PROVE  UNCHANGED ws
    BY <1>5 DEF SwitchMode, PushAnswer, PushLost, PushBroadcast
<1>6. ASSUME NEW q \in Query, SelectTime(q) PROVE UNCHANGED ws \/ ClearWsTimer
    BY <1>6 DEF SelectTime
<1>7. ASSUME NEW r \in InFlight, StationsAnswered(r) \/ MapUpdated(r) PROVE UNCHANGED ws
    BY <1>7 DEF StationsAnswered, MapUpdated
<1>8. ASSUME NEW d \in Dues, WsTimerFires(d)
      PROVE  /\ wsTimers[d] > 0
             /\ \/ ScheduleWs(AfterRun(d))
                \/ wsTimers' = AfterRun(d) /\ websocketRefreshTimerId' = NoTimer
    BY <1>8 DEF WsTimerFires, AfterRun
<1>9. ASSUME NEW d \in Dues, HttpTimerFires(d) PROVE UNCHANGED ws
    BY <1>9 DEF HttpTimerFires
<1>10. CASE Tick
    BY <1>10 DEF Tick
<1> QED BY <1>1, <1>2, <1>3, <1>4, <1>5, <1>6, <1>7, <1>8, <1>9, <1>10 DEF Next

WsInv ==
    /\ websocketRefreshTimerId \in Dues \union {NoTimer}
    /\ wsTimers \in [Dues -> Nat]
    /\ WsTimerLive

\* A timer that is scheduled is one the browser runs.
LEMMA Scheduled ==
    ASSUME hour \in Hours, NEW timers \in [Dues -> Nat], ScheduleWs(timers)
    PROVE  WsInv' /\ wsTimers'[hour + 1] > 0
<1>1. hour + 1 \in Dues
    BY NextDue
<1>2. wsTimers' \in [Dues -> Nat] /\ wsTimers'[hour + 1] > 0
    BY <1>1 DEF ScheduleWs
<1> QED BY <1>1, <1>2 DEF ScheduleWs, WsInv, WsTimerLive

LEMMA WsTimerStep ==
    ASSUME WsInv, hour \in Hours, Next
    PROVE  WsInv'
<1>1. CASE UNCHANGED ws
    BY <1>1 DEF ws, WsInv, WsTimerLive
<1>2. CASE ClearWsTimer
    <2>1. wsTimers' \in [Dues -> Nat]
        BY <1>2 DEF ClearWsTimer, Cleared, WsInv, WsTimerLive
    <2> QED BY <1>2, <2>1 DEF ClearWsTimer, WsInv, WsTimerLive
<1>3. CASE ScheduleWs(wsTimers)
    BY <1>3, Scheduled DEF WsInv
<1>4. ASSUME NEW d \in Dues, wsTimers[d] > 0,
             \/ ScheduleWs(AfterRun(d))
             \/ wsTimers' = AfterRun(d) /\ websocketRefreshTimerId' = NoTimer
      PROVE  WsInv'
    <2>1. AfterRun(d) \in [Dues -> Nat]
        BY <1>4 DEF AfterRun, WsInv
    <2>2. CASE ScheduleWs(AfterRun(d))
        BY <2>1, <2>2, Scheduled
    <2>3. CASE wsTimers' = AfterRun(d) /\ websocketRefreshTimerId' = NoTimer
        BY <2>1, <2>3 DEF WsInv, WsTimerLive
    <2> QED BY <1>4, <2>2, <2>3
<1> QED BY <1>1, <1>2, <1>3, <1>4, WsTimerChanges

-----------------------------------------------------------------------------
\* The page and the data.
LEMMA PageStep ==
    ASSUME PageTypes, DataTypes, Next
    PROVE  PageTypes'
<1> USE DEF PageTypes, page
<1>1. CASE Boot
    BY <1>1 DEF Boot
<1>2. CASE BootFails
    BY <1>2 DEF BootFails
<1>3. CASE ConnectSucceeds
    BY <1>3 DEF ConnectSucceeds
<1>4. CASE ConnectFails
    BY <1>4 DEF ConnectFails
<1>5. ASSUME NEW m \in Modes, SwitchMode(m) PROVE PageTypes'
    BY <1>5 DEF SwitchMode
<1>6. ASSUME NEW m \in Modes, PushAnswer(m) \/ PushLost(m) \/ PushBroadcast(m) PROVE PageTypes'
    BY <1>6 DEF PushAnswer, PushLost, PushBroadcast
<1>7. ASSUME NEW q \in Query, SelectTime(q) PROVE PageTypes'
    BY <1>7 DEF SelectTime
<1>8. ASSUME NEW r \in InFlight, StationsAnswered(r) PROVE PageTypes'
    BY <1>8 DEF StationsAnswered
<1>9. ASSUME NEW r \in InFlight, MapUpdated(r) PROVE PageTypes'
    BY <1>9 DEF MapUpdated, DataTypes, Requests
<1>10. ASSUME NEW d \in Dues, WsTimerFires(d) \/ HttpTimerFires(d) PROVE PageTypes'
    BY <1>10 DEF WsTimerFires, HttpTimerFires
<1>11. CASE Tick
    BY <1>11, PageAssumption DEF Tick, Hours
<1> QED BY <1>1, <1>2, <1>3, <1>4, <1>5, <1>6, <1>7, <1>8, <1>9, <1>10, <1>11 DEF Next

FlagTypes == websocketReady \in BOOLEAN /\ httpFallbackActive \in BOOLEAN

LEMMA FlagStep ==
    ASSUME FlagTypes, Next
    PROVE  FlagTypes'
<1> USE DEF FlagTypes, http, StopRealtimeSubscriptions, ScheduleHttp
<1>1. CASE Boot
    BY <1>1 DEF Boot
<1>2. CASE BootFails
    BY <1>2 DEF BootFails
<1>3. CASE ConnectSucceeds
    BY <1>3 DEF ConnectSucceeds
<1>4. CASE ConnectFails
    BY <1>4 DEF ConnectFails
<1>5. ASSUME NEW m \in Modes, SwitchMode(m) PROVE FlagTypes'
    BY <1>5 DEF SwitchMode
<1>6. ASSUME NEW m \in Modes, PushAnswer(m) \/ PushLost(m) \/ PushBroadcast(m) PROVE FlagTypes'
    BY <1>6 DEF PushAnswer, PushLost, PushBroadcast
<1>7. ASSUME NEW q \in Query, SelectTime(q) PROVE FlagTypes'
    BY <1>7 DEF SelectTime
<1>8. ASSUME NEW r \in InFlight, StationsAnswered(r) \/ MapUpdated(r) PROVE FlagTypes'
    BY <1>8 DEF StationsAnswered, MapUpdated
<1>9. ASSUME NEW d \in Dues, WsTimerFires(d) \/ HttpTimerFires(d) PROVE FlagTypes'
    BY <1>9 DEF WsTimerFires, HttpTimerFires
<1>10. CASE Tick
    BY <1>10 DEF Tick
<1> QED BY <1>1, <1>2, <1>3, <1>4, <1>5, <1>6, <1>7, <1>8, <1>9, <1>10 DEF Next

LEMMA RequestTyped ==
    ASSUME hour \in Hours, NEW m \in Modes, NEW q \in Query,
           NEW then \in {"nothing", "schedule", "updateMap"}
    PROVE  Request(m, q, then) \in Requests
BY DEF Request, Requests

LEMMA ShowTyped ==
    ASSUME DataTypes, NEW m \in Modes, NEW q \in Query, NEW h \in Hours, Show(m, q, h)
    PROVE  shown' \in Views /\ newest' \in Hours \union {-1} /\ UNCHANGED lastFailure
<1>1. 0 \in Hours
    BY PageAssumption DEF Hours
<1> QED BY <1>1 DEF Show, View, Views, DataTypes

RequestTypes == IsABag(pending) /\ InFlight \subseteq Requests
AskedTypes   == asked \in [Modes -> Hours \union {NotAsked}]
ViewTypes    == /\ shown \in Views \union {NoView}
                /\ newest \in Hours \union {-1}
                /\ lastFailure \in Hours \union {-1}

LEMMA FetchTyped ==
    ASSUME RequestTypes, hour \in Hours, NEW m \in Modes, NEW q \in Query,
           NEW then \in {"nothing", "schedule", "updateMap"}, Fetch(m, q, then)
    PROVE  RequestTypes'
BY RequestTyped, SentBag DEF Fetch, RequestTypes, InFlight

LEMMA RequestStep ==
    ASSUME PageTypes, DataTypes, Next
    PROVE  RequestTypes'
<1>0. RequestTypes /\ hour \in Hours /\ mode \in Modes /\ selected \in Query
    BY DEF PageTypes, DataTypes, RequestTypes
<1>1. CASE UNCHANGED pending
    BY <1>0, <1>1 DEF RequestTypes, InFlight
<1>2. CASE ConnectFails
    BY <1>0, <1>2, FetchTyped DEF ConnectFails
<1>3. ASSUME NEW m \in Modes, SwitchMode(m) PROVE RequestTypes'
    <2>1. CASE websocketReady /\ ShouldUseRealtime(selected)
        <3>1. Fetch(m, selected, "updateMap")
            BY <1>3, <2>1 DEF SwitchMode
        <3> QED BY <1>0, <3>1, FetchTyped
    <2>2. CASE ~(websocketReady /\ ShouldUseRealtime(selected))
        <3> DEFINE a == Request(m, selected, "schedule")
                   b == Request(m, selected, "updateMap")
        <3>1. a \in Requests /\ b \in Requests
            BY <1>0, RequestTyped
        <3>2. pending' = Sent(Sent(pending, a), b)
            BY <1>3, <2>2 DEF SwitchMode
        <3>3. IsABag(Sent(pending, a)) /\ BagToSet(Sent(pending, a)) = InFlight \union {a}
            BY <1>0, SentBag DEF RequestTypes, InFlight
        <3>4. IsABag(pending') /\ BagToSet(pending') = InFlight \union {a, b}
            BY <3>2, <3>3, SentBag
        <3> QED BY <1>0, <3>1, <3>4 DEF RequestTypes, InFlight
    <2> QED BY <2>1, <2>2
<1>4. ASSUME NEW q \in Query, SelectTime(q) PROVE RequestTypes'
    BY <1>0, <1>1, <1>4, FetchTyped DEF SelectTime
<1>5. ASSUME NEW r \in InFlight, StationsAnswered(r) PROVE RequestTypes'
    BY <1>0, <1>5, ReceivedBag DEF StationsAnswered, RequestTypes, InFlight
<1>6. ASSUME NEW r \in InFlight, MapUpdated(r) PROVE RequestTypes'
    <2>1. r.mode \in Modes
        BY <1>0 DEF RequestTypes, Requests
    <2> DEFINE a == Request(r.mode, selected, "nothing")
    <2>2. a \in Requests
        BY <1>0, <2>1, RequestTyped
    <2>3. pending' = Sent(Received(pending, r), a)
        BY <1>6 DEF MapUpdated
    <2>4. IsABag(Received(pending, r)) /\ BagToSet(Received(pending, r)) \subseteq InFlight
        BY <1>0, ReceivedBag DEF RequestTypes, InFlight
    <2> QED BY <1>0, <2>2, <2>3, <2>4, SentBag DEF RequestTypes, InFlight
<1>7. ASSUME NEW d \in Dues, HttpTimerFires(d) PROVE RequestTypes'
    BY <1>0, <1>1, <1>7, FetchTyped DEF HttpTimerFires
<1>8. ASSUME NEW d \in Dues, WsTimerFires(d) PROVE UNCHANGED pending
    BY <1>8 DEF WsTimerFires
<1>9. ASSUME NEW m \in Modes, PushAnswer(m) \/ PushLost(m) \/ PushBroadcast(m) PROVE UNCHANGED pending
    BY <1>9 DEF PushAnswer, PushLost, PushBroadcast
<1>10. CASE Boot \/ BootFails \/ ConnectSucceeds \/ Tick
    BY <1>1, <1>10 DEF Boot, BootFails, ConnectSucceeds, Tick
<1> QED BY <1>1, <1>2, <1>3, <1>4, <1>5, <1>6, <1>7, <1>8, <1>9, <1>10 DEF Next

LEMMA AskedTyped ==
    ASSUME AskedTypes, hour \in Hours, NEW m \in Modes, NEW q \in Query, RequestStations(m, q)
    PROVE  AskedTypes'
BY DEF RequestStations, AskedTypes

LEMMA AskedStep ==
    ASSUME PageTypes, DataTypes, Next
    PROVE  AskedTypes'
<1>0. AskedTypes /\ hour \in Hours /\ mode \in Modes /\ selected \in Query
    BY DEF PageTypes, DataTypes, AskedTypes
<1>1. CASE UNCHANGED asked
    BY <1>0, <1>1 DEF AskedTypes
<1>2. CASE ConnectSucceeds
    BY <1>0, <1>2, AskedTyped DEF ConnectSucceeds
<1>3. ASSUME NEW m \in Modes, SwitchMode(m) PROVE AskedTypes'
    BY <1>0, <1>1, <1>3, AskedTyped DEF SwitchMode
<1>4. ASSUME NEW m \in Modes, PushAnswer(m) \/ PushLost(m) PROVE AskedTypes'
    BY <1>0, <1>4 DEF PushAnswer, PushLost, AskedTypes
<1>5. ASSUME NEW d \in Dues, WsTimerFires(d) PROVE AskedTypes'
    BY <1>0, <1>1, <1>5, AskedTyped DEF WsTimerFires
<1>6. ASSUME NEW d \in Dues, HttpTimerFires(d) PROVE UNCHANGED asked
    BY <1>6 DEF HttpTimerFires
<1>7. ASSUME NEW m \in Modes, PushBroadcast(m) PROVE UNCHANGED asked
    BY <1>7 DEF PushBroadcast
<1>8. ASSUME NEW q \in Query, SelectTime(q) PROVE UNCHANGED asked
    BY <1>8 DEF SelectTime
<1>9. ASSUME NEW r \in InFlight, StationsAnswered(r) \/ MapUpdated(r) PROVE UNCHANGED asked
    BY <1>9 DEF StationsAnswered, MapUpdated
<1>10. CASE Boot \/ BootFails \/ ConnectFails \/ Tick
    BY <1>1, <1>10 DEF Boot, BootFails, ConnectFails, Tick
<1> QED BY <1>1, <1>2, <1>3, <1>4, <1>5, <1>6, <1>7, <1>8, <1>9, <1>10 DEF Next

LEMMA PushTyped ==
    ASSUME DataTypes, NEW m \in Modes, NEW h \in Hours, Pushed(m, h)
    PROVE  ViewTypes'
BY ShowTyped DEF Pushed, view, ViewTypes, DataTypes, Query

LEMMA ViewStep ==
    ASSUME PageTypes, DataTypes, Next
    PROVE  ViewTypes'
<1>0. hour \in Hours
    BY DEF PageTypes
<1>1. CASE UNCHANGED view
    BY <1>1 DEF view, ViewTypes, DataTypes
<1>2. ASSUME NEW r \in InFlight, StationsAnswered(r) PROVE ViewTypes'
    <2>1. r.mode \in Modes /\ r.query \in Query /\ r.hour \in Hours
        BY DEF DataTypes, Requests
    <2>2. ASSUME NEW h \in r.hour .. hour, Show(r.mode, r.query, h) PROVE ViewTypes'
        <3>1. h \in Hours
            BY <1>0, <2>1, PageAssumption DEF Hours
        <3> QED BY <2>1, <2>2, <3>1, ShowTyped DEF ViewTypes, DataTypes
    <2>3. CASE /\ lastFailure' = IF r.query = Latest THEN hour ELSE lastFailure
               /\ UNCHANGED <<shown, newest>>
        BY <1>0, <2>3 DEF ViewTypes, DataTypes
    <2> QED BY <1>2, <2>2, <2>3 DEF StationsAnswered
<1>3. ASSUME NEW m \in Modes, PushAnswer(m) PROVE ViewTypes'
    <2>1. asked[m] \in Hours
        BY <1>3 DEF DataTypes, PushAnswer
    <2>2. PICK h \in asked[m] .. hour : Pushed(m, h)
        BY <1>3 DEF PushAnswer
    <2>3. h \in Hours
        BY <1>0, <2>1, PageAssumption DEF Hours
    <2> QED BY <2>2, <2>3, PushTyped
<1>4. ASSUME NEW m \in Modes, PushBroadcast(m) PROVE ViewTypes'
    BY <1>0, <1>4, PushTyped DEF PushBroadcast
<1>5. ASSUME NEW m \in Modes, PushLost(m) PROVE ViewTypes'
    BY <1>0, <1>5 DEF PushLost, ViewTypes, DataTypes
<1>6. ASSUME NEW m \in Modes, SwitchMode(m) PROVE UNCHANGED view
    BY <1>6 DEF SwitchMode, view
<1>7. ASSUME NEW q \in Query, SelectTime(q) PROVE UNCHANGED view
    BY <1>7 DEF SelectTime
<1>8. ASSUME NEW r \in InFlight, MapUpdated(r) PROVE UNCHANGED view
    BY <1>8 DEF MapUpdated
<1>9. ASSUME NEW d \in Dues, WsTimerFires(d) \/ HttpTimerFires(d) PROVE UNCHANGED view
    BY <1>9 DEF WsTimerFires, HttpTimerFires
<1>10. CASE Boot \/ BootFails \/ ConnectSucceeds \/ ConnectFails \/ Tick
    BY <1>1, <1>10 DEF Boot, BootFails, ConnectSucceeds, ConnectFails, Tick
<1> QED BY <1>1, <1>2, <1>3, <1>4, <1>5, <1>6, <1>7, <1>8, <1>9, <1>10 DEF Next

-----------------------------------------------------------------------------
\* The next refresh.  A scheduled timer arms its transport, and a request to
\* schedule promises the fallback one.
LEMMA ScheduledIsArmed ==
    ASSUME hour \in Hours, NEW timers \in [Dues -> Nat], ScheduleWs(timers)
    PROVE  \E d \in Dues : wsTimers'[d] > 0
BY NextDue, Scheduled

LEMMA FetchIsPromise ==
    ASSUME IsABag(pending), NEW m, NEW q, Fetch(m, q, "schedule")
    PROVE  \E r \in InFlight' : r.then = "schedule"
<1> DEFINE a == Request(m, q, "schedule")
<1>1. a \in InFlight'
    BY SentBag DEF Fetch, InFlight
<1>2. a.then = "schedule"
    BY DEF Request
<1> QED BY <1>1, <1>2

\* What arms the page survives whatever leaves it alone.
LEMMA ArmedFrame ==
    ASSUME SettledIsArmed, UNCHANGED <<boot, selected, connecting, websocketReady, http, ws>>,
           InFlight \subseteq InFlight'
    PROVE  SettledIsArmed'
BY DEF SettledIsArmed, WsArmed, HttpArmed, ArmedByRequest, http, ws

LEMMA ArmedStep ==
    ASSUME PageTypes, IsABag(pending), HttpInv, WsInv, SettledIsArmed, Next
    PROVE  SettledIsArmed'
<1> USE DEF page, http, ws
<1>0. hour \in Hours /\ connecting \in Nat /\ hour + 1 \in Dues
    BY NextDue DEF PageTypes
<1>1. CASE Boot
    BY <1>0, <1>1 DEF Boot, StopRealtimeSubscriptions, ShouldUseRealtime, SettledIsArmed
<1>2. CASE BootFails
    BY <1>2 DEF BootFails, SettledIsArmed, WsArmed
<1>3. CASE ConnectSucceeds
    <2>1. CASE selected = Latest
        <3>1. ScheduleWs(wsTimers)
            BY <1>3, <2>1 DEF ConnectSucceeds, ShouldUseRealtime
        <3>2. WsArmed'
            BY <1>0, <1>3, <3>1, ScheduledIsArmed DEF ConnectSucceeds, WsArmed, WsInv
        <3> QED BY <3>2 DEF SettledIsArmed
    <2>2. CASE selected # Latest
        BY <1>3, <2>2 DEF ConnectSucceeds, SettledIsArmed
    <2> QED BY <2>1, <2>2
<1>4. CASE ConnectFails
    <2>1. ArmedByRequest' /\ ~websocketReady'
        BY <1>4, FetchIsPromise DEF ConnectFails, ArmedByRequest
    <2> QED BY <2>1 DEF SettledIsArmed
<1>5. ASSUME NEW m \in Modes, SwitchMode(m) PROVE SettledIsArmed'
    <2>1. CASE websocketReady /\ selected = Latest
        <3>1. UNCHANGED <<websocketReady, ws, connecting, selected>>
            BY <1>5 DEF SwitchMode
        <3> QED BY <2>1, <3>1 DEF SettledIsArmed, WsArmed
    <2>2. CASE ~(websocketReady /\ selected = Latest)
        <3>1. httpFallbackActive' /\ UNCHANGED <<websocketReady, selected>>
            BY <1>5, <2>2 DEF SwitchMode, ShouldUseRealtime
        <3> DEFINE a == Request(m, selected, "schedule")
                   b == Request(m, selected, "updateMap")
        <3>2. pending' = Sent(Sent(pending, a), b)
            BY <1>5, <2>2 DEF SwitchMode, ShouldUseRealtime
        <3>4. IsABag(Sent(pending, a)) /\ a \in BagToSet(Sent(pending, a))
            BY SentBag
        <3>5. a \in InFlight'
            BY <3>2, <3>4, SentBag DEF InFlight
        <3>3. ArmedByRequest'
            BY <3>1, <3>5 DEF ArmedByRequest, Request
        <3> QED BY <2>2, <3>1, <3>3 DEF SettledIsArmed
    <2> QED BY <2>1, <2>2
<1>6. ASSUME NEW m \in Modes, PushAnswer(m) \/ PushLost(m) \/ PushBroadcast(m) PROVE SettledIsArmed'
    BY <1>6, ArmedFrame DEF PushAnswer, PushLost, PushBroadcast, InFlight
<1>7. ASSUME NEW q \in Query, SelectTime(q) PROVE SettledIsArmed'
    BY <1>0, <1>7 DEF SelectTime, ShouldUseRealtime, SettledIsArmed
<1>8. ASSUME NEW r \in InFlight, StationsAnswered(r) PROVE SettledIsArmed'
    <2>1. UNCHANGED <<boot, selected, connecting, websocketReady, ws, httpFallbackActive>>
        BY <1>8 DEF StationsAnswered, ScheduleHttp
    <2>2. CASE r.then # "schedule"
        <3>1. UNCHANGED http /\ pending' = Received(pending, r)
            BY <1>8, <2>2 DEF StationsAnswered
        <3>2. ArmedByRequest => ArmedByRequest'
            BY <2>2, <3>1, ReceivedBag DEF ArmedByRequest, InFlight
        <3> QED BY <2>1, <3>1, <3>2 DEF SettledIsArmed, WsArmed, HttpArmed
    <2>3. CASE r.then = "schedule"
        <3>1. ScheduleHttp
            BY <1>8, <2>3 DEF StationsAnswered
        <3>2. CASE httpFallbackActive /\ selected = Latest
            <4>1. CASE httpFallbackTimerId = NoTimer
                <5>1. httpTimers'[hour + 1] > 0
                    BY <1>0, <3>1, <3>2, <4>1 DEF ScheduleHttp, ShouldUseRealtime, HttpInv
                <5> QED BY <1>0, <2>1, <3>2, <5>1 DEF SettledIsArmed, WsArmed, HttpArmed
            <4>2. CASE httpFallbackTimerId # NoTimer
                <5>1. UNCHANGED http
                    BY <3>1, <4>2 DEF ScheduleHttp
                <5>2. httpTimers[httpFallbackTimerId] > 0 /\ httpFallbackTimerId \in Dues
                    BY <4>2 DEF HttpInv, OneHttpTimer
                <5> QED BY <2>1, <3>2, <5>1, <5>2 DEF SettledIsArmed, WsArmed, HttpArmed
            <4> QED BY <4>1, <4>2
        <3>3. CASE ~(httpFallbackActive /\ selected = Latest)
            BY <2>1, <3>3 DEF SettledIsArmed, WsArmed, HttpArmed, ArmedByRequest
        <3> QED BY <3>2, <3>3
    <2> QED BY <2>2, <2>3
<1>9. ASSUME NEW r \in InFlight, MapUpdated(r) PROVE SettledIsArmed'
    <2> DEFINE a == Request(r.mode, selected, "nothing")
    <2>0. r.then = "updateMap" /\ pending' = Sent(Received(pending, r), a)
        BY <1>9 DEF MapUpdated
    <2>3. /\ IsABag(Received(pending, r))
          /\ \A s \in InFlight : s # r => s \in BagToSet(Received(pending, r))
        BY ReceivedBag DEF InFlight
    <2>1. \A s \in InFlight : s.then = "schedule" => s \in InFlight'
        BY <2>0, <2>3, SentBag DEF InFlight
    <2>2. UNCHANGED <<boot, selected, connecting, websocketReady, http, ws>>
        BY <1>9 DEF MapUpdated
    <2> QED BY <2>1, <2>2 DEF SettledIsArmed, WsArmed, HttpArmed, ArmedByRequest
<1>10. ASSUME NEW d \in Dues, WsTimerFires(d) PROVE SettledIsArmed'
    <2>1. UNCHANGED <<boot, selected, connecting, websocketReady, http, pending>>
        BY <1>10 DEF WsTimerFires
    <2>2. CASE websocketReady /\ selected = Latest
        <3>1. AfterRun(d) \in [Dues -> Nat]
            BY <1>10 DEF WsTimerFires, AfterRun, WsInv
        <3>2. ScheduleWs(AfterRun(d))
            BY <1>10, <2>2 DEF WsTimerFires, AfterRun, ShouldUseRealtime
        <3>3. WsArmed'
            BY <1>0, <2>1, <2>2, <3>1, <3>2, ScheduledIsArmed DEF WsArmed
        <3> QED BY <3>3 DEF SettledIsArmed
    <2>3. CASE ~(websocketReady /\ selected = Latest)
        BY <2>1, <2>3 DEF SettledIsArmed, WsArmed, HttpArmed, ArmedByRequest, InFlight
    <2> QED BY <2>2, <2>3
<1>11. ASSUME NEW d \in Dues, HttpTimerFires(d) PROVE SettledIsArmed'
    <2>1. UNCHANGED <<boot, selected, connecting, websocketReady, ws, httpFallbackActive>>
        BY <1>11 DEF HttpTimerFires
    <2>2. CASE httpFallbackActive /\ selected = Latest
        <3>1. \E r \in InFlight' : r.then = "schedule"
            BY <1>11, <2>2, FetchIsPromise DEF HttpTimerFires, ShouldUseRealtime
        <3> QED BY <2>1, <2>2, <3>1 DEF SettledIsArmed, WsArmed, ArmedByRequest
    <2>3. CASE ~(httpFallbackActive /\ selected = Latest)
        <3>1. selected = Latest => ~HttpArmed /\ ~ArmedByRequest
            BY <2>3 DEF HttpArmed, ArmedByRequest
        <3> QED BY <2>1, <3>1 DEF SettledIsArmed, WsArmed
    <2> QED BY <2>2, <2>3
<1>12. CASE Tick
    BY <1>12, ArmedFrame DEF Tick, InFlight
<1> QED
    BY <1>1, <1>2, <1>3, <1>4, <1>5, <1>6, <1>7, <1>8, <1>9, <1>10, <1>11, <1>12 DEF Next

-----------------------------------------------------------------------------
\* The parts of the invariant as the lemmas above take them.
LEMMA Parts ==
    IInv <=> /\ PageTypes /\ DataTypes /\ FlagTypes
             /\ SubsInv /\ HttpInv /\ WsInv
             /\ SettledIsArmed
BY DEF IInv, TypeOK, TransportTypes, FlagTypes, SubsInv, HttpInv, WsInv

LEMMA NextKeepsIInv == IInv /\ Next => IInv'
<1> SUFFICES ASSUME IInv, Next PROVE IInv'
    OBVIOUS
<1>1. PageTypes /\ DataTypes /\ FlagTypes /\ SubsInv /\ HttpInv /\ WsInv /\ SettledIsArmed
    BY Parts
<1>2. hour \in Hours /\ mode \in Modes
    BY <1>1 DEF PageTypes
<1>3. PageTypes' /\ FlagTypes'
    BY <1>1, PageStep, FlagStep
<1>4. DataTypes'
    BY <1>1, RequestStep, AskedStep, ViewStep DEF DataTypes, RequestTypes, AskedTypes, ViewTypes
<1>5. SubsInv' /\ HttpInv' /\ WsInv'
    BY <1>1, <1>2, SubscriptionStep, HttpTimerStep, WsTimerStep
<1>6. SettledIsArmed'
    BY <1>1, ArmedStep DEF DataTypes
<1> QED BY <1>3, <1>4, <1>5, <1>6 DEF IInv, TypeOK, TransportTypes, FlagTypes, SubsInv, HttpInv, WsInv

LEMMA Stutter == IInv /\ UNCHANGED vars => IInv'
BY DEF IInv, TypeOK, PageTypes, TransportTypes, DataTypes, OneSubscription, OneHttpTimer,
       WsTimerLive, SettledIsArmed, WsArmed, HttpArmed, ArmedByRequest, vars, page, http, ws,
       subs, view, InFlight

\* The inductive invariant of the transport: its types, the bookkeeping of
\* main.js for its subscription and timers, and what arms the next refresh.
THEOREM Invariance == Spec => []IInv
<1>1. IInv /\ [Next]_vars => IInv'
    BY NextKeepsIInv, Stutter
<1> QED BY InitIInv, <1>1, PTL DEF Spec

\* Whatever the order of connections, mode switches and query times, the
\* broker serves the stored subscription and no other.
THEOREM SubscriptionsNeverLeak == Spec => []OneSubscription
<1>1. IInv => OneSubscription
    BY DEF IInv
<1> QED BY Invariance, <1>1, PTL

\* The browser runs the stored HTTP timer and no other, and none in the history.
THEOREM HttpTimersNeverLeak == Spec => []OneHttpTimer
<1>1. IInv => OneHttpTimer
    BY DEF IInv
<1> QED BY Invariance, <1>1, PTL

\* A settled page that shows the latest data has its next refresh set.
THEOREM RefreshIsArmed == Spec => []RefreshArmed
<1>1. IInv => RefreshArmed
    BY DEF IInv, SettledIsArmed, RefreshArmed, ArmedByRequest
<1> QED BY Invariance, <1>1, PTL

-----------------------------------------------------------------------------
\* A page in the history.  Picking a time gives up the stored subscription,
\* which is the only one there is.
LEMMA Silenced ==
    ASSUME SubsInv, liveSubs' = Unsubscribed
    PROVE  \A m \in Modes : liveSubs'[m] = 0
BY UnsubscribedIsNone

LEMMA QuietStep ==
    ASSUME SubsInv, Next, connecting = 0, selected' # Latest,
           QuietHistory \/ selected' # selected
    PROVE  QuietHistory'
<1> USE DEF QuietHistory, ShouldUseRealtime, page, subs
<1>1. ASSUME NEW q \in Query, SelectTime(q) PROVE QuietHistory'
    BY <1>1, Silenced DEF SelectTime, StopRealtimeSubscriptions
<1>2. CASE Boot
    BY <1>2, Silenced DEF Boot, StopRealtimeSubscriptions
<1>3. CASE BootFails
    BY <1>3 DEF BootFails
<1>4. CASE ConnectSucceeds \/ ConnectFails
    BY <1>4 DEF ConnectSucceeds, ConnectFails
<1>5. ASSUME NEW m \in Modes, SwitchMode(m) PROVE QuietHistory'
    BY <1>5 DEF SwitchMode
<1>6. ASSUME NEW m \in Modes, PushAnswer(m) \/ PushLost(m) \/ PushBroadcast(m) PROVE QuietHistory'
    BY <1>6 DEF PushAnswer, PushLost, PushBroadcast
<1>7. ASSUME NEW r \in InFlight, StationsAnswered(r) \/ MapUpdated(r) PROVE QuietHistory'
    BY <1>7 DEF StationsAnswered, MapUpdated
<1>8. ASSUME NEW d \in Dues, WsTimerFires(d) \/ HttpTimerFires(d) PROVE QuietHistory'
    BY <1>8 DEF WsTimerFires, HttpTimerFires
<1>9. CASE Tick
    BY <1>9 DEF Tick
<1> QED BY <1>1, <1>2, <1>3, <1>4, <1>5, <1>6, <1>7, <1>8, <1>9 DEF Next

\* Without a subscription only an answer to a request changes what is shown.
LEMMA ShownByHttp ==
    ASSUME QuietHistory, Next, shown' # shown
    PROVE  \E r \in InFlight : pending' = Received(pending, r) /\ shown'.query = r.query
<1> USE DEF view
<1>1. ASSUME NEW r \in InFlight, StationsAnswered(r)
      PROVE  pending' = Received(pending, r) /\ shown'.query = r.query
    BY <1>1 DEF StationsAnswered, Show, View
<1>2. ASSUME NEW m \in Modes, PushAnswer(m) \/ PushLost(m) \/ PushBroadcast(m) PROVE FALSE
    BY <1>2 DEF PushAnswer, PushLost, PushBroadcast, Pushed, QuietHistory
<1>3. CASE Boot \/ BootFails \/ ConnectSucceeds \/ ConnectFails \/ Tick
    BY <1>3 DEF Boot, BootFails, ConnectSucceeds, ConnectFails, Tick
<1>4. ASSUME NEW m \in Modes, SwitchMode(m) PROVE FALSE
    BY <1>4 DEF SwitchMode
<1>5. ASSUME NEW q \in Query, SelectTime(q) PROVE FALSE
    BY <1>5 DEF SelectTime
<1>6. ASSUME NEW r \in InFlight, MapUpdated(r) PROVE FALSE
    BY <1>6 DEF MapUpdated
<1>7. ASSUME NEW d \in Dues, WsTimerFires(d) \/ HttpTimerFires(d) PROVE FALSE
    BY <1>7 DEF WsTimerFires, HttpTimerFires
<1> QED BY <1>1, <1>2, <1>3, <1>4, <1>5, <1>6, <1>7 DEF Next

\* A historical time picked while no connection is being made silences the page
\* until the user goes back to the latest data, however switches, timers and
\* pushes interleave (stopRealtimeSubscriptions, the modeChanged listener): the
\* connection in flight is the only way in which a push reaches the history.
THEOREM HistoryStaysQuiet == Spec => HistoryIsQuiet
<1> DEFINE Step ==
        /\ /\ connecting = 0
           /\ selected' # Latest
           /\ QuietHistory \/ selected' # selected
           => QuietHistory'
        /\ QuietHistory /\ shown' # shown
           => \E r \in InFlight : pending' = Received(pending, r) /\ shown'.query = r.query
<1>1. IInv /\ [Next]_vars => [Step]_vars
    <2> SUFFICES ASSUME IInv, Next PROVE Step
        OBVIOUS
    <2>1. SubsInv
        BY Parts
    <2> QED BY <2>1, QuietStep, ShownByHttp
<1> QED BY <1>1, Invariance, PTL DEF Spec, HistoryIsQuiet
=============================================================================
