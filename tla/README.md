# Formal model of the hydrological monitoring platform

TLA+ specifications, TLC configurations and TLAPS proofs for the Spring Boot
server, the flood control page and the start page of this repository. Paths below are
relative to the repository root; `JS/` is `src/main/resources/static/floodcontrol/JS/`,
`index/` is `src/main/resources/static/index/`, `java/` is `src/main/java/com/baluga/`.

## 1. The system

A Spring Boot server (MySQL, Redis, STOMP over WebSocket) serves several pages.
Two pages have behaviour of their own. The flood control page keeps a map, a station
list, summary cards and a resource panel fresh, in flood or drought mode, for the
latest hour or for a historical one. The start page selects one province after the
other and shows its data in four panels.

| Component | State | Operations | Talks to |
|---|---|---|---|
| Hourly station query (`MonitoringStationServiceImpl`) | table `monitoring_station`, Redis cache `currentHourStations` | `getCurrentHourStationVOs(mode, queryTime)` through the caching proxy, `(mode)` past it | `OverviewController`, `WebSocketHandler`, Redis, MySQL |
| Warning cards (same class) | caches `dashboardCardData` in front of `realTimeCardData` | `getDashboardCardData`, `getRealTimeCardData` | as above |
| Histories, trends, warnings | tables | `getHistoryPage`, `getTrendAnalysis`, `getWarningStations`, ... | `HistoryController`, `OverviewController` |
| Rate limiter (`RateLimitInterceptor`) | two concurrent maps: window start and counter of each address | `preHandle` | every HTTP thread |
| Pushes (`WebSocketHandler`, `TaskScheduler`) | none | answer a STOMP request, push everything at start and every hour | station query, broker |
| Real-time transport (`JS/main.js`) | subscription, connection flags, two timers | bootstrap, connect, `modeChanged`, query time event, two hourly timers, push handler | broker, HTTP, map, list |
| Query time (`JS/state/queryTimeContext.js`) | selected time, available range, four select elements, status line | open, change a select, quick actions, apply | transport, every request |
| Summary cards (`JS/effects/numberAnimation.js`) | what they show, an hourly timer | request, show | HTTP, query time, mode |
| Mode switch (`JS/ui/modeSwitch.js`) | `currentMode`, the body's `data-mode` | `switchMode`, `toggle3DView` | all panes |
| Map (`JS/map/initMap.js`, `JS/map/map3D.js`) | the chart, `currentView`, `mapReady`, hover and risk filter, the 3D listener | `initMap`, `updateMapForFlood`, `updateMapForDrought`, legend, 3D and back | ECharts, HTTP, list, history chart |
| History chart (`JS/charts/stationHistoryChart.js`) | chart, visible flag, back button | open, fetch, close | HTTP, map |
| Other panes (`resources.js`, `stationList.js`) | what each shows, `latestUpdateSeq` | request, show, fall back to local data | HTTP |
| Province dashboard (`index/index.html`, `index/js/js.js`, `ProvinceDashboardService`) | provinces loaded, carousel with an interval and a timeout, selection, four panels | load, turn, pause, select, hover, fill | map service, HTTP |
| Rescue materials | cache `materialDetails`, two tables | totals by category, details | `ResourceController` |
| Water level, prediction, water projects | their tables | CRUD, window selection with fallback, seeding at start | their own pages |

What is hard here, and what correctness means:

* **Clock reads.** A station query reads the clock up to three times (key, hour,
  day), with other threads, a full hour or midnight in between. Correct: an answer
  never mixes modes, belongs to the time that was asked for, and what is cached
  under a key is a right answer for that key.
* **Check-then-act on concurrent maps.** The rate limiter's check, `put` and `set`
  are separate steps. Correct: no increment is lost, and the limit holds.
* **One event loop, many awaits.** Every handler of the page is cut by awaits;
  answers, connections, pushes, timers and clicks come in between. Correct: nothing
  leaks, the view is refreshed, panes agree, and late answers do no harm.
* **One element, three views.** The 2D map, the 3D map and the history chart share the
  element `#map`, each with an ECharts instance of its own. Correct: what is drawn is what
  the variables say, with the filter of the moment, and there is always a way back.
* **Calendars.** Four selects must spell a date at every step, whatever the month, the
  leap year and the range of the data.
* **Timers.** A carousel that is started twice and stopped by every click must neither
  leak an interval nor stop for good.
* **Failure.** Redis errors count as misses or are skipped, requests fail or time
  out, the connection fails and HTTP takes over.

`PROJECT.json` lists every component, with those not modelled, and every hazard at
its line.

## 2. Modules

| Module | Models | Extends / uses |
|---|---|---|
| `StationQueryCache` | the station query, its cache, pushes, the clock | |
| `TokenBatch` | abstract: a counter that hands out batches of `Limit` admissions | |
| `RateLimiter` | `preHandle` step by step | implements `TokenBatch` |
| `RealtimeTransport` | `main.js` and the pushes of the server | |
| `ModeSwitch` | `switchMode`, the resource panel and the other panes | |
| `MapView` | the element `#map`: 2D map, 3D map, history chart, legend, list items | |
| `QueryTime` | the time selector, its event and the summary cards | |
| `ProvinceDashboard` | loading, carousel, selection and panels of the start page | |
| `*_proofs` | theorems, one module for each of the seven | TLAPS |
| `MC*` | instances for TLC | |

Each variable has the name of the variable or table it stands for, each action
names its function in the comment above it; `PROJECT.json` maps both to lines.
Definitions whose comment starts with "Fault" are deliberately wrong variants of
the definition that follows; no specification uses them. They show that the
properties can fail.

**StationQueryCache.** Each thread goes through lookup, hour query, day query
(only for a latest call without rows), cache write and return. The key is computed
at the lookup and kept for the write, as Spring does. The one-argument overload
is a default method of the interface that calls the two-argument one on the target
object: pushes go past the proxy. A failing lookup is a miss, a failing write is
skipped (`RedisCacheConfig`), an exception of the database caches nothing. An entry
carries the hour of its write and ends at the latest `Life` hours after it (2 for the
70 minutes of `application.yml`: an entry written at 1:59 is found until 3:09), or earlier
at any time, whether its minutes are over or Redis lost it. An empty result is `List.of()`,
whose class is final: it is written without type information, cannot be read back and
counts as a miss (`Readable`). The server may restart at any time (`Restart`); Redis and the table
outlive it, so that a new process meets the entries of an earlier one. `Init` is the first
start of all, on an empty Redis. Rows are told apart by hour and unit; a result keeps the hour
it took as current, which stands for the trend computed against the hour before. The history
variable `prompt` says that so far the clock has not turned twice in one call.

**RateLimiter.** One action for the clock read, for each map operation and for each
counter operation. `computeIfAbsent` on the counter map is folded into its first
use, since an absent counter and a zero one behave alike. `raced` remembers the clients
with overlapping requests: the limits are stated for the others.

**RealtimeTransport.** One action per handler up to its first await and per
continuation. Timers are counted by the hour they are set for, apart from the
stored ids, so that a lost id leaves a timer behind. `liveSubs` is what the broker
serves, apart from the stored subscription. The requests in flight are a bag: answers come
in any order, fail at any time, and carry data of any hour between the request and now.
STOMP answers likewise; the server may also lose one (`PushLost`), since it catches and logs
every exception of a push (`WebSocketHandler.java:77-79`). The histories `lastFailure` and
`hurried` remember the hour of the last failure, and that a mode was picked while the map
was still being updated for an earlier pick.

**ModeSwitch.** A pane is known by the mode of the data it shows. Requests carry
the mode they were sent for, resource requests also their number. `Patience` and
`OrderedHttp` describe the user and the network: with 0 and FALSE clicks come at
any time and answers in any order.

**MapView.** ECharts is modelled by what the page relies on: which instances live, what
each has drawn (options are merged, so layers add up until a chart is replaced), which one
the element shows; disposing of an instance empties the element, drawing on a disposed one
does nothing. `initMap` is three steps (call, stations, files), `switchMode` two,
`initStationHistoryChart` two. A request carries the mode or the station it was sent for.
What the points on the map were filtered by is part of the drawing: the station under the mouse,
the level under the mouse, the levels hidden, and the mode, since the level of a point is that
for the mode of the page (`getRiskKeyByMode`).
Stations come by HTTP; the other transport is in `RealtimeTransport`. The history variable
`careful` says that the user has so far waited for every answer, that nothing failed, and that history
charts were left by their button.

**QueryTime.** A time is a record of year, month, day and hour, and the arithmetic of
`Date` is modelled with the overflow of months and days; a `select` set to a value it has
no option for is empty. The lengths of months are constants, so that a run can use a small
calendar and the proofs any. `touched` tells whether selects were changed since the last
quick action.

**ProvinceDashboard.** Interval and timeout ids are apart from the timers the browser
runs. Whose data a panel shows is what it is known by, per station type and per line,
since ECharts merges them by name. The rows of a province are constants
(`ProvinceDashboardService.load` is one stateless read). The history variable `overtaken` says that
the request sent last has failed or was answered before an earlier one; the next selection
resets it.

## 3. Runs

| Run | Shows | Bounds |
|---|---|---|
| `StationQueryCache` | `ModeIsolation`, `LatestNeverFromEarlierDay`, `HistoryIsExact` and their invariant hold | 2 threads, flood and drought, 4 hours with midnight in the middle, a row of each unit in the first two, queries for the first, entries that live into the hour after their write, 2 of them at a time, any number of restarts |
| `StationQueryCacheShared` | **violated** `ExplicitAnswersItsHour` | 1 thread, flood, otherwise as above |
| `RateLimiter` | `LimiterInv`, `ImplementsTokenBatch` whatever overlaps; `WindowLimit`, `AnySecondLimit` for clients whose requests do not | 2 threads, 2 clients, limit 1, window 3 ticks, 4 requests, 5 ticks |
| `RealtimeTransport` | `OneSubscription`, `OneHttpTimer`, `RefreshArmed` and their invariant; `HistoryIsQuiet`: what is left of `PushesSkipHistory` | one rollover, three clicks on a mode or the picker, failing requests and lost pushes |
| `RealtimeTransportLive` | `LatestLagsOneHour` | two rollovers, two clicks on a mode or the picker, failing requests and lost pushes |
| `RealtimeTransportHistory` | **violated** `PushesSkipHistory` | one rollover, two clicks |
| `ModeSwitch` | `PanelNeverGoesBack` and its invariant | two clicks at any time, answers in any order, refused requests |
| `ModeSwitchPatient` | `SettledPanesAgree`, `DetailFollowsMode` | four switches, two detail views |
| `ModeSwitchPanel` | **violated** `PanelFollowsMode` | three quick clicks, answers in order |
| `MapView` | `MapShowsFilter`, `ChartCanBeLeft` and the invariant at any time; for a careful user `CarefulInv`, the order of the page at every instant, and `ScreenMatchesView` | 2 stations, 1 risk level, 3 clicks or hourly refreshes, hovering and legend unbounded |
| `QueryTime` | `SelectsSpellADate`, `AnnouncedIsApplied` and the invariant; `CardsFollowSelection` for a careful user | 6 steps of user and clock, a year of 2 months of 2 and 1 days (2 and 2 in a leap year) of 2 hours, start in the last hour before a leap year, two ranges and none |
| `ProvinceDashboard` | `NoLostTimer`, `OneHighlight`, `PanelsAgree`, `PanelsFollowSelection`, `RadarLeavesRoom`, `OnlyLoadingCutsPause`, `CarouselGoesOn` | 3 provinces with different gaps in their rows, 3 clicks, 3 requests in flight, 4 timer ids, turns unbounded |

Why the bounds are enough. The cache goes wrong, where it does, between two calls
around one rollover, or when an entry is found long after its write; two threads, and two hours
on either side of midnight, give every order of the three clock reads, and the last hour is
the first in which a query for the first one must be exact (`Life` is 1 there, so that it comes one hour
sooner than with the real 2). Two entries are one for each mode or for each of two hours.
The limiter's races need two
threads in `preHandle` and one reset; the interesting instants are before, at and
after the end of a window, and a window ends twice within five ticks. In the transport the second connection, the second
timer and the second subscription are where leaks would start; a switch and two uses of
the picker create all three, and two switches overlap. The live run has two clicks and no
other limit: two rollovers let a failed hour be followed by one that makes up for it. A panel that goes back needs two requests in
flight; the invariant is proved for any number. In the map, three events are a switch or
an opened chart in the middle of another load and its undoing; any of them may meet
hovering and the legend, which are not bounded, and two stations make a reused chart. The
selects go wrong at the ends of months, years and ranges: the start is the last hour of a
year before a leap year, one range ends before it and one runs past it, and six steps are
enough to open the panel, change every select and apply. Three provinces have a
predecessor, a successor and one that fails to load; three clicks make a pause, extend it
and interrupt the carousel again. `CHECK_DEADLOCK FALSE` is in every
cfg because clocks and clicks are bounded: a behaviour ends when they are used up.

Fairness in `RealtimeTransport!FairSpec`: the page has booted as soon as its
first request is answered, connections settle (SockJS resolves or rejects), HTTP
requests are answered, fail or time out after 8 s (`utils/request.js`), due timers fire, and the
server answers a STOMP request with a push or loses it. Nothing is assumed of the user, of the clock, or of
the hourly broadcast of the server (a dead scheduler must not stop the page). The clock
passes no hour while a request of the hour before is in flight: the timeout is 8 s.
Fairness in `ProvinceDashboard!FairSpec`: an interval that runs fires, a timeout that is
set fires, the map service answers or fails, and requests are answered or given up after
the 12 s of `$.ajax`. Nothing is assumed of the user, who may stop clicking at any time.

### What the violated runs show

* `ExplicitAnswersItsHour`: at 01:xx no row of 01:00 exists; a latest call falls
  back to the rows of the day and caches them under `mode:01:00`; a request with
  `queryTime=01:00` gets them. `HistoryIsExact` is what remains true: such an entry is written
  in its hour or, by a slow call, in the next, and dies `Life` hours later, so that nobody gets it who asks
  for a future hour, or more than `Life + 1` hours after the hour. An entry
  that an earlier process left is no exception; a call in which the clock turns twice is.
* `PushesSkipHistory`: the page is connecting; the user picks a historical time,
  which stops the subscriptions; the connection is established and `initRealtime`
  subscribes; the next push replaces the history on the screen. `HistoryIsQuiet` is what remains true:
  with no connection in flight only answers to HTTP requests change what is shown. Requests for
  the latest data that were sent before the time was picked are among them: their answers do
  replace the history.
* `PanelFollowsMode`: drought, flood, drought in quick succession. When the answer
  for the third click comes, the continuation of the second has just set the mode
  back to flood, and the answer is dropped. The overlap of the
  switches does this and not the order of the answers, as `PanelAgrees` proves.

### What does not hold and no document promises

* With two overlapping requests of one client its `WindowLimit` fails: both find the window expired,
  and the second `counter.set(0)` comes after the first has counted. `ImplementsTokenBatch` says what
  remains: admissions come in batches of `Limit` between resets.
* `LatestLagsOneHour` is not "the current hour is shown eventually": an answer served
  before the hour and handled after it sets the next timer an hour later.
* With two overlapping switches the late write of `currentMode` can leave the page
  subscribed to one topic while it asks for the other, and behind for good: `LatestLagsOneHour` exempts a user
  who picked a mode while the map was still being updated for an earlier pick (`hurried`). It
  also exempts a page with a failure in the hour before or later: nothing but the next hourly
  refresh retries. The property does speak of every failure before that, and of lost pushes.
* Without the assumptions of `ModeSwitchPatient` the panes may disagree for good:
  `fetchStationData`, the list and the cards show whichever answer comes last, and a
  late answer for details opens the view of the old mode.
* The toast of `request.js:69` says that a request that timed out is being retried; nothing
  retries it, and for a historical time no timer does.
* Switching the mode does not reset the risk filter of the map, as the comment at
  `modeSwitch.js:94` says: it resets a copy (`modeSwitch.js:16`), the one that
  `getFilteredMonitoringPoints` reads is at `initMap.js:72`.
* A switch changes the mode that the filter depends on (`initMap.js:95-101`) and does not
  redraw the map: until the answer comes, hidden levels hide the points by their levels for
  the mode that was left. `MapShowsFilter` says so, and that the answer is still to come.
* `isChartVisible` ("whether the chart is shown", `stationHistoryChart.js:349`) stays true
  when the 3D button is pressed on a history chart, which loads the 2D map instead; the
  next click on a station then draws into the hidden chart.
* An `initMap` that is still loading when a history chart is opened draws its map over it.
  `ScreenMatchesView` is for users who wait for the loading mask to go.
* Without a range of times, on the first of January, "yesterday" announces a day of the last
  year, whose option does not exist: the button then applies that day of the current year.
  The announcement of the button itself is overwritten at once by `setSelectedQueryTime`.
* The range of times is loaded once and not refreshed: later hours are clamped to its end.
* The end of loading starts the carousel during a pause, against the 30 seconds of the
  comment at `index/index.html:638`; `OnlyLoadingCutsPause` says that nothing else does.
* When the answer for the province selected last comes before that for an earlier one, the
  panels are left with the earlier province until the next selection; a request that fails
  leaves them as they were. `PanelsAgree` holds all the same, `PanelsFollowSelection` does not
  speak of it.
* What a province has no rows for stays on the page from an earlier one: its lines in the
  flow chart, now over the new years (`updateFlow` merges the series); the card of a type, while the type leaves the
  pie, against the comment at `js.js:314` that the two agree; the whole pie and the projects when
  there are none. The text "no data" of the project chart is never removed, and its `series: []` clears
  nothing. `ShowsRowsOf` speaks of the rows that a province has, no more.
* A websocket timer may be left behind when its id is overwritten; it sends one
  superfluous request an hour.

## 4. Proofs

`tlapm` proves, for every value of the constants that satisfies the named
assumptions of each module:

| Theorem | Statement |
|---|---|
| `StationQueryCache_proofs!Invariance`, `ModesIsolated`, `LatestStaysInItsDay`, `HistoryExact` | `[]IInv` and the three properties |
| `RateLimiter_proofs!LimiterInvariant`, `RefinesTokenBatch` | `[]LimiterInv`; the limiter implements `TokenBatch!Spec` |
| `RateLimiter_proofs!LimitPerWindow`, `LimitPerSecond` | `[]WindowLimit` and `[]AnySecondLimit` |
| `RealtimeTransport_proofs!Invariance`, `SubscriptionsNeverLeak`, `HttpTimersNeverLeak`, `RefreshIsArmed` | `[]IInv` and the three properties |
| `RealtimeTransport_proofs!HistoryStaysQuiet` | `HistoryIsQuiet` |
| `ModeSwitch_proofs!Invariance`, `PanelOnlyMovesForward` | `[]IInv`; `[][panel'.seq >= panel.seq]_vars` |
| `ModeSwitch_proofs!PanesAgree`, `DetailAgrees` | `[]SettledPanesAgree` and `[]DetailFollowsMode`, assuming `Orderly`: `Patience = 2`, `OrderedHttp`, `~MayRefuse` |
| `ModeSwitch_proofs!PanelAgrees` | `[]PanelFollowsMode`, assuming `Waiting`: `Patience = 2`, `~MayRefuse` |
| `MapView_proofs!Invariance`, `ChartsCanBeLeft`, `FilterIsShown` | `[]IInv` and the two properties |
| `MapView_proofs!CarefulInvariant`, `ScreenMatches` | `[]CarefulInv` and `[]ScreenMatchesView` |
| `QueryTime_proofs!Invariance`, `AlwaysADate`, `AnnouncementsHold`, `CardsFollow` | `[]IInv` and the three properties |
| `ProvinceDashboard_proofs!Invariance`, `TimersAreKept`, `HighlightIsSelection`, `PanelsAreOfOneProvince`, `PanelsFollow`, `RadarHasRoom`, `PausesLast` | `[]IInv` and its parts, and `OnlyLoadingCutsPause` |

*StationQueryCache.* `LatestNeverFromEarlierDay` speaks of answers, and an answer may
come from the cache, so the invariant has to say what the cache holds: `Sound(h, k, a)`
relates a result to the key it is stored under. It needs the weaker fact that the hour
a body takes is never before the hour of its key (`ControlOK`), and that `Sound` only
gets weaker as the clock moves on. Each step either keeps an answer, takes a sound one
from the cache, or computes one that is sound for its key. For `HistoryIsExact` the invariant
also dates the entries: one with rows of another hour was written in the hour of its key or the
next if calls are prompt, and is gone `Life` hours later, so that an explicit call that meets
it has begun by then. `Restart` empties the threads and keeps the cache, and the invariant with it.

*RateLimiter.* `LimiterInv` keeps the time of every thread and window in the past. For
the refinement the counter maps to the tokens that are left: an increment below the limit is
`Admit`, one beyond it `Reject`, `set(0)` is `Refill`, and every other step stutters. The two limits count what was let through; the
count is the cardinality of a set of pairs (`AdmittedIn`), so that the library's facts on
cardinality apply where a sum over a function would need induction. They hold for the clients
whose requests never overlapped, and `LimiterInv` says why: such a client has one thread
inside `preHandle` (`OneInside`), which goes by the window that is stored (`OwnWindow`), and
its counter stands at least at what that window has admitted, unless the counter is about to
be reset (`Counted`); no request of another client moves any of these. `LimitPerSecond` needs
the second before the current window too, in which `Counted` allows the limit once more: a
new window starts no earlier than the old one ends, so that a second meets two at most.

*RealtimeTransport.* `OneSubscription` and `OneHttpTimer` are inductive with types.
`RefreshArmed` is not: while a request that will set the timer is in flight nothing is
armed. `SettledIsArmed` adds that case (`ArmedByRequest`) and ties `websocketReady` to a
running timer; `WsTimerLive` is needed because clearing a stored id must not clear a
timer that is not there. What a step can do to one part of the transport is first
reduced to a few changes, then each change is treated once. `HistoryIsQuiet` marks where
`PushesSkipHistory` fails: picking a historical time gives up the stored subscription, which
by `OneSubscription` is the only one, and without a connection in flight no handler
subscribes again before the user goes back to the latest data. That the requests are a bag,
of any size, takes two lemmas on sending and receiving.

*ModeSwitch.* The panel is replaced only by the request that holds the last number given
out, and `SeqBounded` says that no number shown is larger. The agreement of the panes says
nothing before all is answered, so `PatientInv` says what is in flight: for each pane the
request with the highest number that will fill it is of the current mode, or there is none
and the pane already is (`Follows`). An answer in order that is not the last leaves the last
to come; one that is the last leaves none. Since the user waits there is one request for
resources at a time (`OneResourceRequest`), and it holds `latestUpdateSeq`. A detail view of
another mode is closed by a switch that is still in flight (`DetailCloses`); without
ordered answers it could come after it. The panel alone does not need the order of answers
(`PanelAgrees`): while there is one request for resources, its answer passes the check of the
request number whenever it comes. That is the boundary of `ModeSwitchPanel`, where answers
keep their order and the switches overlap.

*MapView.* `ChartCanBeLeft` needs to know that a visible chart exists (`VisibleHasChart`),
that the view named chart is visible (`ChartViewVisible`) and that a new chart takes a place
that is free (`ChartsKnown`); the back button is there or the answer that makes it is
pending, and no step removes both. `MapShowsFilter` is inductive once the invariant is
known: every step either leaves filter and canvas alone, draws the canvas with the new
filter, hides the map, or changes the mode and puts a request on its way that redraws it; an answer
that redraws takes itself off the way and draws by the mode of the moment. `ScreenMatchesView` speaks of the moment when all is answered, so
`CarefulInv` says what holds between a click and its last answer: every answer awaited is for
the mode of the page and the station clicked last (`AnswersOfPage`); data, map and history
chart are right, or an answer that will replace them is awaited (`DataOfPage`, `MapOfPage`,
`HistoryOfPage`); the view named is the one the element shows (`ViewsAgree`); and an element
without a usable map is empty and a load is under way. ECharts merges options, so the layers
of a chart are right only if a new instance starts blank, whence `DeadChartsBlank`, which
holds for any user. The proof has a lemma per action, and under each a step per part.

*QueryTime.* The proof rests on lemmas about the calendar: the day before and the hour
before a date are dates, a clamped date is a date in the range, and populating the selects
with a date in the range selects exactly that date, since its year has an option and its
day is one of its month. `SelectsSpellADate` and `AnnouncedIsApplied` follow from these and
from `OptionsFit`. `CardsFollow` needs no calendar: `CarefulInv` says that for a user who
waits everything in flight is of the current mode and every question about the cards of the
selected time, so that the order of their answers does not matter.

*ProvinceDashboard.* The invariant has three parts: the timers and the carousel's list
(`NoLostTimer`, `Turning`), the map (`InProgress`, `OneHighlight`: only drawn provinces
are ever selected), and the panels. `PanelsAgree` is kept by every answer on its own, in any
order. For `PanelsFollowSelection`, `LastIsSelected` says that the request sent last, while it has neither
failed nor overtaken another, is for the province selected, and it is the one that the
last answer to come is for. The lemmas on `Without` are about the queue of requests, the
one on `IndicatorMax` about rounding.

What TLAPS does not reach and TLC alone checks: `LatestLagsOneHour` and `CarouselGoesOn`
(liveness under fairness, `ENABLED`). Every other property that a
passing run checks is proved. `PanelAgrees` is about a property that one run shows violated,
for a user whom that run leaves out.

## 5. Not modelled, and why

* Warning cards with their caches, station histories, trends and warnings, rescue materials, water
  level, prediction, water projects: mostly sequential reads of the database and arithmetic
  on the rows; the few hazards they have are listed in `PROJECT.json` and come first in the plan.
* Loss of an established STOMP connection: `main.js` has no reaction to it.
* SUBSCRIBE and SEND of one connection are taken to be handled in order by the broker.
* `startAutoRefresh` of `initMap.js` and the rotation of `map3D.js` are never called. The
  search box of the station list, tooltips, resizing, particles, the radar chart behind the resources and the
  animation of digits have no state the properties speak of.
* Two copies of one function serve both modes (`updateMapForFlood`, `updateMapForDrought`):
  `MapAnswered` stands for both.
* Daylight saving: times are wall-clock hours, as in the selects.
* Floating-point forecasts (`WaterLevelServiceImpl.predictLevel`): no reals in TLC.

## 6. Plan

1. `CardCache`: dashboard cache in front of the real-time cache, four SQL reads per card,
   time to live, queries for future hours. Properties: a latest card is read in its own
   hour unless somebody asked for that hour in advance; what the two topics agree on.
2. `WarningLifecycle` (add, process and delete against read-then-write) and
   `DataInitializer` (failures, restarts, two instances).
3. Pure operators, each against a reference definition: paging, trend direction,
   window selection with fallback, aggregation of materials, warning predicate.
4. Composition: `RealtimeTransport` with the answers of `StationQueryCache` in place of an
   arbitrary hour, so that a push and an HTTP answer for the same hour can be compared; and
   `MapView` with pushes.
