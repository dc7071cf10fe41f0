------------------------- MODULE StationQueryCache -------------------------
(***************************************************************************)
(* The hourly station query of MonitoringStationServiceImpl and the Redis  *)
(* cache in front of it.                                                   *)
(*                                                                         *)
(* An HTTP request calls getCurrentHourStationVOs(mode, queryTime) through *)
(* Spring's caching proxy: the key is computed and looked up, on a miss    *)
(* the method runs its SQL queries, and its result is written under the    *)
(* key computed at the lookup.  A WebSocket push calls the one-argument    *)
(* default method instead, which calls the two-argument one on the target  *)
(* object itself: the proxy is not involved and the cache is neither read  *)
(* nor written.  The wall clock, the arrival of rows, the expiry of cache  *)
(* entries, failures of Redis and of the database and restarts of the      *)
(* server, which Redis outlives, interleave with all of these steps.       *)
(*                                                                         *)
(* Times are whole hours, of a clock that only moves forward (no demo time *)
(* is configured).  A row is told apart by its hour and by its unit (what  *)
(* the SQL filters look at).                                               *)
(***************************************************************************)
EXTENDS Integers, FiniteSets

CONSTANTS
    Requests,    \* threads that serve HTTP requests and pushes
    Modes,       \* values of the mode parameter that are in use
    MaxHour,     \* bound: last hour the clock and the rows reach
    Queried,     \* bound: the hours that are asked for by a queryTime
    Life,        \* hours after the hour of its write in which an entry may
                 \* still be found (2 for the 70 minutes of application.yml)
    Capacity,    \* bound: entries the cache holds at a time
    DayOf,       \* DayOf[h]: the calendar day hour h belongs to
    Row,         \* the station rows that may ever be stored: records with
                 \* the hour and the unit the row was recorded for
    Latest,      \* queryTime = null
    NoEntry      \* nothing is cached under a key

Hours == 0 .. MaxHour
Units == {"m", "%"}
Key   == [mode : Modes, hour : Hours]

\* What the method returns: the station rows, and the hour it took as the
\* current one (the trend of each row is computed against the hour before).
Result == [rows : SUBSET Row, at : Hours]

\* A cached result, with the hour in which it was written.
Entry == [value : Result, written : Hours]

\* The arguments of a call, the way it comes in and the hour in which it does.
Call == [mode : Modes, query : Queried \union {Latest}, proxied : BOOLEAN, begun : Hours]

ASSUME HourAssumption ==
    /\ MaxHour \in Nat
    /\ Life \in Nat
    /\ Queried \subseteq Hours
    /\ DayOf \in [Hours -> Nat]
    /\ \A g, h \in Hours : g <= h => DayOf[g] <= DayOf[h]

ASSUME ModeAssumption == Modes # {} /\ Modes \subseteq {"all", "flood", "drought"}

ASSUME RowAssumption == Row \subseteq [hour : Hours, unit : Units]

ASSUME SentinelAssumption == Latest \notin Hours /\ NoEntry \notin Entry

VARIABLES
    hour,     \* now() truncated to the hour
    stored,   \* rows of table monitoring_station
    cache,    \* the Redis cache "currentHourStations"
    pc,       \* where each thread is
    call,     \* the arguments of the call it serves
    key,      \* the cache key computed at the lookup
    bodyHour, \* local variable currentHour of the method
    answer,   \* the value the method (or the cache) produced
    prompt    \* history: no call has been in progress over two full hours

vars == <<hour, stored, cache, pc, call, key, bodyHour, answer, prompt>>

Steps == {"idle", "lookup", "hourQuery", "dayQuery", "put", "done", "failed"}

TypeOK ==
    /\ hour \in Hours
    /\ stored \in SUBSET Row
    /\ cache \in [Key -> Entry \union {NoEntry}]
    /\ pc \in [Requests -> Steps]
    /\ call \in [Requests -> Call]
    /\ key \in [Requests -> Key]
    /\ bodyHour \in [Requests -> Hours]
    /\ answer \in [Requests -> Result]
    /\ prompt \in BOOLEAN

-----------------------------------------------------------------------------
\* The units the SQL filter of a mode lets through.
UnitsOf(mode) ==
    CASE mode = "flood"   -> {"m"}
      [] mode = "drought" -> {"%"}
      [] OTHER            -> Units

\* Rows of one hour, and (DayRows below) of one day, that belong to a mode.
HourRows(mode, h) == {x \in stored : x.unit \in UnitsOf(mode) /\ x.hour = h}

\* Fault: the most recent rows, whatever their day.
DayRowsUpTo(mode, d) ==
    {x \in stored : x.unit \in UnitsOf(mode) /\ DayOf[x.hour] <= d}

DayRows(mode, d) ==
    {x \in stored : x.unit \in UnitsOf(mode) /\ DayOf[x.hour] = d}

\* The hour a call is about; the clock is read at the moment of evaluation.
ResolveQueryHour(query) == IF query = Latest THEN hour ELSE query

\* Fault: the mode forgotten in the key.
CacheKeyAnyMode(c) ==
    [mode |-> CHOOSE m \in Modes : TRUE, hour |-> ResolveQueryHour(c.query)]

\* The key the caching proxy evaluates: mode, ':' and the hour.
CacheKey(c) == [mode |-> c.mode, hour |-> ResolveQueryHour(c.query)]

\* A proxied call goes on to the cache write, a direct one returns.
AfterBody(r) == IF call[r].proxied THEN "put" ELSE "done"

\* What a reader finds where a was written in hour h.  The method returns the
\* final class List.of() when it has no rows; it is written without the type
\* the reader asks for, so that reading it fails and counts as a miss.
Readable(a, h) == IF a.rows = {} THEN NoEntry ELSE [value |-> a, written |-> h]

\* Fault: no time to live is set for the entries.
EntriesWithoutEnd(h) == cache

\* The entries whose time to live lets them be found in hour h.
EntriesLeft(h) ==
    [k \in Key |-> IF cache[k] # NoEntry /\ cache[k].written + Life < h
                      THEN NoEntry ELSE cache[k]]

RoomFor(k) ==
    cache[k] # NoEntry \/ Cardinality({e \in Key : cache[e] # NoEntry}) < Capacity

NoCall   == [mode |-> CHOOSE m \in Modes : TRUE, query |-> Latest,
             proxied |-> FALSE, begun |-> 0]
NoKey    == [mode |-> NoCall.mode, hour |-> 0]
NoAnswer == [rows |-> {}, at |-> 0]

\* The first start of the server, in any hour, on an empty Redis; every later
\* start is a Restart and meets what earlier processes left there.
Init ==
    /\ hour \in Hours
    /\ stored = {}
    /\ cache = [k \in Key |-> NoEntry]
    /\ pc = [r \in Requests |-> "idle"]
    /\ call = [r \in Requests |-> NoCall]
    /\ key = [r \in Requests |-> NoKey]
    /\ bodyHour = [r \in Requests |-> 0]
    /\ answer = [r \in Requests |-> NoAnswer]
    /\ prompt = TRUE

-----------------------------------------------------------------------------
\* GET /currentOverview/currentHourStations, with or without a queryTime.
HttpCall(r, mode, query) ==
    /\ pc[r] = "idle"
    /\ call' = [call EXCEPT ![r] = [mode |-> mode, query |-> query,
                                    proxied |-> TRUE, begun |-> hour]]
    /\ pc' = [pc EXCEPT ![r] = "lookup"]
    /\ UNCHANGED <<hour, stored, cache, key, bodyHour, answer, prompt>>

\* A push of the scheduler or of a WebSocket message: the default method
\* passes a null queryTime to the target object, past the proxy.
PushCall(r, mode) ==
    /\ pc[r] = "idle"
    /\ call' = [call EXCEPT ![r] = [mode |-> mode, query |-> Latest,
                                    proxied |-> FALSE, begun |-> hour]]
    /\ pc' = [pc EXCEPT ![r] = "hourQuery"]
    /\ UNCHANGED <<hour, stored, cache, key, bodyHour, answer, prompt>>

\* The proxy finds an entry it can read and returns it; the method does not run.
CacheHit(r) ==
    LET k == CacheKey(call[r]) IN
    /\ pc[r] = "lookup"
    /\ cache[k] # NoEntry
    /\ key' = [key EXCEPT ![r] = k]
    /\ answer' = [answer EXCEPT ![r] = cache[k].value]
    /\ pc' = [pc EXCEPT ![r] = "done"]
    /\ UNCHANGED <<hour, stored, cache, call, bodyHour, prompt>>

\* The lookup finds nothing, or fails - Redis does, or the entry cannot be read
\* - and handleCacheGetError lets it count as a miss: the method is executed.
CacheMissOrGetError(r) ==
    /\ pc[r] = "lookup"
    /\ key' = [key EXCEPT ![r] = CacheKey(call[r])]
    /\ pc' = [pc EXCEPT ![r] = "hourQuery"]
    /\ UNCHANGED <<hour, stored, cache, call, bodyHour, answer, prompt>>

\* currentHour is resolved - for a latest call the clock is read again - and
\* the rows of that hour are queried.  Only a latest call that finds none
\* goes on to the rows of the day.
HourQuery(r) ==
    LET c     == call[r]
        h     == ResolveQueryHour(c.query)
        found == HourRows(c.mode, h)
    IN
    /\ pc[r] = "hourQuery"
    /\ bodyHour' = [bodyHour EXCEPT ![r] = h]
    /\ IF c.query = Latest /\ found = {}
          THEN /\ pc' = [pc EXCEPT ![r] = "dayQuery"]
               /\ UNCHANGED answer
          ELSE /\ pc' = [pc EXCEPT ![r] = AfterBody(r)]
               /\ answer' = [answer EXCEPT ![r] = [rows |-> found, at |-> h]]
    /\ UNCHANGED <<hour, stored, cache, call, key, prompt>>

\* The fall-back of a latest call: every row of the day, the clock being
\* read a third time.
DayQuery(r) ==
    /\ pc[r] = "dayQuery"
    /\ answer' = [answer EXCEPT ![r] =
                    [rows |-> DayRows(call[r].mode, DayOf[hour]), at |-> bodyHour[r]]]
    /\ pc' = [pc EXCEPT ![r] = AfterBody(r)]
    /\ UNCHANGED <<hour, stored, cache, call, key, bodyHour, prompt>>

\* A query throws - one of these two or the one for the trend that follows
\* them - and the exception leaves the method: nothing is cached.
QueryFails(r) ==
    /\ pc[r] \in {"hourQuery", "dayQuery"}
    /\ pc' = [pc EXCEPT ![r] = "failed"]
    /\ UNCHANGED <<hour, stored, cache, call, key, bodyHour, answer, prompt>>

\* Fault: the key is evaluated a second time when the result is written.
CachePutUnderNewKey(r) ==
    /\ pc[r] = "put"
    /\ cache' = [cache EXCEPT ![CacheKey(call[r])] = Readable(answer[r], hour)]
    /\ pc' = [pc EXCEPT ![r] = "done"]
    /\ UNCHANGED <<hour, stored, call, key, bodyHour, answer, prompt>>

\* The result is written under the key of the lookup; an empty list is written
\* too, over what was there.
CachePut(r) ==
    /\ pc[r] = "put"
    /\ RoomFor(key[r])
    /\ cache' = [cache EXCEPT ![key[r]] = Readable(answer[r], hour)]
    /\ pc' = [pc EXCEPT ![r] = "done"]
    /\ UNCHANGED <<hour, stored, call, key, bodyHour, answer, prompt>>

\* The write fails: handleCachePutError logs and the caller gets its result.
CachePutError(r) ==
    /\ pc[r] = "put"
    /\ pc' = [pc EXCEPT ![r] = "done"]
    /\ UNCHANGED <<hour, stored, cache, call, key, bodyHour, answer, prompt>>

\* The response is sent (or the failure reported) and the thread is free.
Return(r) ==
    /\ pc[r] \in {"done", "failed"}
    /\ pc' = [pc EXCEPT ![r] = "idle"]
    /\ call' = [call EXCEPT ![r] = NoCall]
    /\ key' = [key EXCEPT ![r] = NoKey]
    /\ bodyHour' = [bodyHour EXCEPT ![r] = 0]
    /\ answer' = [answer EXCEPT ![r] = NoAnswer]
    /\ UNCHANGED <<hour, stored, cache, prompt>>

\* The clock reaches the next whole hour, and entries come to their end.
Tick ==
    /\ hour < MaxHour
    /\ hour' = hour + 1
    /\ cache' = EntriesLeft(hour + 1)
    /\ prompt' = (prompt /\ \A r \in Requests : pc[r] # "idle" => call[r].begun = hour)
    /\ UNCHANGED <<stored, pc, call, key, bodyHour, answer>>

\* The collecting system, outside this program, stores a row.
StoreRow(x) ==
    /\ x \notin stored
    /\ stored' = stored \union {x}
    /\ UNCHANGED <<hour, cache, pc, call, key, bodyHour, answer, prompt>>

\* An entry disappears: its time to live ends within the hour, or Redis lost it.
Expire(k) ==
    /\ cache[k] # NoEntry
    /\ cache' = [cache EXCEPT ![k] = NoEntry]
    /\ UNCHANGED <<hour, stored, pc, call, key, bodyHour, answer, prompt>>

\* The server stops, with the calls it serves, and starts again.  Redis and the
\* database keep what they hold.
Restart ==
    /\ pc' = [r \in Requests |-> "idle"]
    /\ call' = [r \in Requests |-> NoCall]
    /\ key' = [r \in Requests |-> NoKey]
    /\ bodyHour' = [r \in Requests |-> 0]
    /\ answer' = [r \in Requests |-> NoAnswer]
    /\ UNCHANGED <<hour, stored, cache, prompt>>

Arrive(r) == \E mode \in Modes :
    \/ \E query \in Queried \union {Latest} : HttpCall(r, mode, query)
    \/ PushCall(r, mode)

Serve(r) ==
    \/ CacheHit(r) \/ CacheMissOrGetError(r)
    \/ HourQuery(r) \/ DayQuery(r) \/ QueryFails(r)
    \/ CachePut(r) \/ CachePutError(r)
    \/ Return(r)

Next ==
    \/ \E r \in Requests : Arrive(r) \/ Serve(r)
    \/ Tick
    \/ \E x \in Row : StoreRow(x)
    \/ \E k \in Key : Expire(k)
    \/ Restart

Spec == Init /\ [][Next]_vars

-----------------------------------------------------------------------------
ModeOK(mode, a) == \A x \in a.rows : x.unit \in UnitsOf(mode)

Exact(h, a) == \A x \in a.rows : x.hour = h

\* An answer about one mode holds no row of another mode's unit, neither in
\* a thread nor in the cache all modes share (isolation of the modes by the
\* unit filters and by the cache key).
ModeIsolation ==
    /\ \A r \in Requests : pc[r] \in {"put", "done"} => ModeOK(call[r].mode, answer[r])
    /\ \A k \in Key : cache[k] # NoEntry => ModeOK(k.mode, cache[k].value)

\* A latest call that was looked up in hour h is never answered with rows of
\* a day before h's day, whichever of the three clock reads, the fall-back,
\* a midnight in between or an entry left by another call produced them.
LatestNeverFromEarlierDay == \A r \in Requests :
    pc[r] = "done" /\ call[r].proxied /\ call[r].query = Latest
        => \A x \in answer[r].rows : DayOf[x.hour] >= DayOf[key[r].hour]

\* What latest calls leave in the shared cache reaches a call for an hour only
\* while that entry lives.  A call for a future hour is answered with rows of
\* exactly that hour; so is one that comes more than Life + 1 hours after the
\* hour it asks for, whatever earlier processes left in Redis - as long as no
\* call takes so long that the clock turns twice in it, for then its result is
\* written, and lives on, later than that.
HistoryIsExact == \A r \in Requests :
    /\ pc[r] = "done"
    /\ call[r].query # Latest
    /\ call[r].query > hour \/ (prompt /\ call[r].begun > call[r].query + 1 + Life)
    => Exact(call[r].query, answer[r])

\* A call with a queryTime is answered with rows of that hour only (the
\* fall-back is for latest calls).  The shared key breaks this.
ExplicitAnswersItsHour == \A r \in Requests :
    pc[r] = "done" /\ call[r].query # Latest => Exact(call[r].query, answer[r])

-----------------------------------------------------------------------------
\* What, when the clock shows h, may be cached under k and may be the answer
\* of a call looked up under k.
Sound(h, k, a) ==
    /\ ModeOK(k.mode, a)
    /\ k.hour <= a.at
    /\ \A x \in a.rows : DayOf[x.hour] >= DayOf[k.hour]
    /\ k.hour > h => Exact(k.hour, a)

\* The key of a running call belongs to its arguments.
KeyOf(r) ==
    /\ key[r].mode = call[r].mode
    /\ IF call[r].query = Latest
          THEN call[r].begun <= key[r].hour /\ key[r].hour <= hour
          ELSE key[r].hour = call[r].query

ControlOK == \A r \in Requests :
    /\ pc[r] \in {"lookup", "put"} => call[r].proxied
    /\ pc[r] = "dayQuery" => call[r].query = Latest
    /\ pc[r] = "dayQuery" /\ call[r].proxied => key[r].hour <= bodyHour[r]
    /\ ~call[r].proxied => call[r].query = Latest
    /\ call[r].proxied /\ pc[r] \notin {"idle", "lookup"} => KeyOf(r)
    /\ pc[r] # "idle" => call[r].begun <= hour /\ (prompt => hour <= call[r].begun + 1)

\* An entry is sound for its key and within its time to live; one with rows of
\* another hour was written in the hour of its key or in the next.
CacheSound == \A k \in Key : cache[k] # NoEntry =>
    /\ Sound(hour, k, cache[k].value)
    /\ cache[k].written <= hour /\ hour <= cache[k].written + Life
    /\ prompt /\ ~Exact(k.hour, cache[k].value) => cache[k].written <= k.hour + 1

\* So is an answer; the method gives an explicit call rows of its hour only, and
\* only an entry that still lives gives it others.
AnswerSound == \A r \in Requests : pc[r] \in {"put", "done"} =>
    /\ ModeOK(call[r].mode, answer[r])
    /\ call[r].proxied => Sound(hour, key[r], answer[r])
    /\ call[r].query # Latest /\ ~Exact(call[r].query, answer[r])
          => /\ pc[r] = "done"
             /\ prompt => call[r].begun <= call[r].query + 1 + Life

\* The inductive invariant behind the three properties: what is cached or about
\* to be cached or returned is sound for the key of its lookup, whatever the
\* clock did between the lookup, the queries and the write.
IInv == TypeOK /\ ControlOK /\ CacheSound /\ AnswerSound
=============================================================================
