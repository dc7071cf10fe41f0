---------------------- MODULE StationQueryCache_proofs ----------------------
(***************************************************************************)
(* Proofs about StationQueryCache: IInv is inductive, and the properties   *)
(* the run checks on four hours follow from it for every number of threads,*)
(* hours, days, modes and rows, and every time to live.                    *)
(***************************************************************************)
EXTENDS StationQueryCache, TLAPS

USE HourAssumption, ModeAssumption, RowAssumption, SentinelAssumption

\* A record built from a mode and an hour is a key, and the default values
\* a free thread holds are well typed.
LEMMA DefaultsTyped == NoCall \in Call /\ NoKey \in Key /\ NoAnswer \in Result
<1>1. 0 \in Hours
  BY DEF Hours
<1>2. QED
  BY <1>1 DEF NoCall, NoKey, NoAnswer, Call, Key, Result

\* On an empty Redis nothing is cached, running or answered.
LEMMA InitIInv == Init => IInv
<1> SUFFICES ASSUME Init PROVE IInv
  OBVIOUS
<1>1. TypeOK
  BY DefaultsTyped DEF Init, TypeOK, Steps, Hours
<1>3. ControlOK
  BY DEF Init, ControlOK, NoCall
<1>4. CacheSound /\ AnswerSound
  BY DEF Init, CacheSound, AnswerSound
<1>5. QED
  BY <1>1, <1>3, <1>4 DEF IInv

\* Rows selected for an hour or a day are stored rows of the mode.
LEMMA SelectedRows ==
  ASSUME TypeOK, NEW m \in Modes
  PROVE  /\ \A h : HourRows(m, h) \in SUBSET Row
         /\ \A d : DayRows(m, d) \in SUBSET Row
  BY DEF TypeOK, HourRows, DayRows

\* The hour of a call is an hour, and its key is a key.
LEMMA ResolvedHour ==
  ASSUME TypeOK, NEW c \in Call
  PROVE  ResolveQueryHour(c.query) \in Hours /\ CacheKey(c) \in Key
  BY DEF TypeOK, Call, ResolveQueryHour, CacheKey, Key

\* What a reader finds where a result was written is an entry or nothing.
LEMMA ReadableTyped ==
  ASSUME NEW a \in Result, NEW h \in Hours
  PROVE  Readable(a, h) \in Entry \union {NoEntry}
  BY DEF Readable, Entry

\* Every step keeps the types.
LEMMA TypeStep == TypeOK /\ [Next]_vars => TypeOK'
<1> SUFFICES ASSUME TypeOK, [Next]_vars PROVE TypeOK'
  OBVIOUS
<1> USE DEF TypeOK, Steps
<1>1. ASSUME NEW r \in Requests, Arrive(r) PROVE TypeOK'
  <2>1. ASSUME NEW m \in Modes, NEW q \in Queried \union {Latest}, HttpCall(r, m, q)
        PROVE  TypeOK'
    <3>1. [mode |-> m, query |-> q, proxied |-> TRUE, begun |-> hour] \in Call
      BY DEF Call
    <3>2. QED
      BY <2>1, <3>1 DEF HttpCall
  <2>2. ASSUME NEW m \in Modes, PushCall(r, m) PROVE TypeOK'
    <3>1. [mode |-> m, query |-> Latest, proxied |-> FALSE, begun |-> hour] \in Call
      BY DEF Call
    <3>2. QED
      BY <2>2, <3>1 DEF PushCall
  <2>3. QED
    BY <1>1, <2>1, <2>2 DEF Arrive
<1>2. ASSUME NEW r \in Requests, CacheHit(r) PROVE TypeOK'
  <2>1. CacheKey(call[r]) \in Key
    BY ResolvedHour
  <2>2. cache[CacheKey(call[r])].value \in Result
    BY <1>2, <2>1 DEF CacheHit, Entry
  <2>3. QED
    BY <1>2, <2>1, <2>2 DEF CacheHit
<1>3. ASSUME NEW r \in Requests, CacheMissOrGetError(r) PROVE TypeOK'
  BY <1>3, ResolvedHour DEF CacheMissOrGetError
<1>4. ASSUME NEW r \in Requests, HourQuery(r) PROVE TypeOK'
  <2> DEFINE h == ResolveQueryHour(call[r].query)
             a == [rows |-> HourRows(call[r].mode, h), at |-> h]
  <2>1. h \in Hours
    BY ResolvedHour
  <2>2. a \in Result
    BY <2>1, SelectedRows DEF Result, Call
  <2>3. AfterBody(r) \in Steps
    BY DEF AfterBody
  <2>4. QED
    BY <1>4, <2>1, <2>2, <2>3 DEF HourQuery
<1>5. ASSUME NEW r \in Requests, DayQuery(r) PROVE TypeOK'
  <2> DEFINE a == [rows |-> DayRows(call[r].mode, DayOf[hour]), at |-> bodyHour[r]]
  <2>1. a \in Result
    BY SelectedRows DEF Result, Call
  <2>2. AfterBody(r) \in Steps
    BY DEF AfterBody
  <2>3. QED
    BY <1>5, <2>1, <2>2 DEF DayQuery
<1>6. ASSUME NEW r \in Requests, QueryFails(r) \/ CachePut(r) \/ CachePutError(r) PROVE TypeOK'
  BY <1>6, ReadableTyped DEF QueryFails, CachePut, CachePutError
<1>7. ASSUME NEW r \in Requests, Return(r) PROVE TypeOK'
  BY <1>7, DefaultsTyped DEF Return, NoAnswer, Hours
<1>8. CASE Tick
  BY <1>8 DEF Tick, EntriesLeft, Hours
<1>9. ASSUME NEW x \in Row, StoreRow(x) PROVE TypeOK'
  BY <1>9 DEF StoreRow
<1>10. ASSUME NEW k \in Key, Expire(k) PROVE TypeOK'
  BY <1>10 DEF Expire
<1>11. CASE UNCHANGED vars
  BY <1>11 DEF vars
<1>12. CASE Restart
  BY <1>12, DefaultsTyped DEF Restart, Hours
<1>13. QED
  BY <1>1, <1>2, <1>3, <1>4, <1>5, <1>6, <1>7, <1>8, <1>9, <1>10, <1>11, <1>12
     DEF Next, Serve

-----------------------------------------------------------------------------
\* What was sound stays sound when the clock moves on.
LEMMA SoundMonotone ==
  ASSUME NEW g \in Hours, NEW h \in Hours, g <= h,
         NEW k \in Key, NEW a \in Result, Sound(g, k, a)
  PROVE  Sound(h, k, a)
  BY DEF Sound, Hours, Key

\* Rows found for the very hour of the key, or for a later one when the key's
\* hour has been lived, are sound.
LEMMA HourRowsSound ==
  ASSUME TypeOK, NEW k \in Key, NEW h \in Hours,
         k.hour <= h, k.hour > hour => h = k.hour
  PROVE  Sound(hour, k, [rows |-> HourRows(k.mode, h), at |-> h])
<1>1. DayOf[h] >= DayOf[k.hour]
  BY DEF Key
<1>2. QED
  BY <1>1 DEF Sound, ModeOK, HourRows, Exact

\* So are the rows of the current day, for a key of an hour already lived.
LEMMA DayRowsSound ==
  ASSUME TypeOK, NEW k \in Key, NEW h \in Hours, k.hour <= hour, k.hour <= h
  PROVE  Sound(hour, k, [rows |-> DayRows(k.mode, DayOf[hour]), at |-> h])
<1>1. DayOf[hour] >= DayOf[k.hour]
  BY DEF Key, TypeOK, Hours
<1>2. DayOf[hour] \in Nat /\ DayOf[k.hour] \in Nat
  BY DEF Key, TypeOK
<1>3. QED
  BY <1>1, <1>2 DEF Sound, ModeOK, DayRows, Key, TypeOK, Hours

\* A step leaves the clock where it is or moves it forward, and an execution in
\* which a call has taken too long stays one.
LEMMA ClockForward == TypeOK /\ [Next]_vars => hour' >= hour /\ (prompt' => prompt)
<1> SUFFICES ASSUME TypeOK, [Next]_vars PROVE hour' >= hour /\ (prompt' => prompt)
  OBVIOUS
<1>1. hour \in Int
  BY DEF TypeOK, Hours
<1>2. CASE Tick
  <2>1. hour' >= hour
    BY <1>1, <1>2 DEF Tick
  <2>2. prompt' => prompt
    BY <1>2, Zenon DEF Tick
  <2>3. QED
    BY <2>1, <2>2
<1>3. CASE UNCHANGED <<hour, prompt>>
  BY <1>1, <1>3
<1>4. QED
  BY <1>2, <1>3 DEF Next, vars, Arrive, Serve, HttpCall, PushCall, CacheHit,
     CacheMissOrGetError, HourQuery, DayQuery, QueryFails, CachePut,
     CachePutError, Return, StoreRow, Expire, Restart

-----------------------------------------------------------------------------
\* Every step keeps the control invariant: the key a thread holds is the key
\* of its call, taken at an hour that has been lived if the call is latest.
LEMMA ControlStep == TypeOK /\ ControlOK /\ [Next]_vars => ControlOK'
<1> SUFFICES ASSUME TypeOK, ControlOK, [Next]_vars,
                    NEW q \in Requests
             PROVE  ControlOK!(q)'
  BY DEF ControlOK
<1> USE DEF ControlOK, KeyOf
<1>1. hour \in Int /\ call[q].begun \in Int /\ key[q].hour \in Int
  BY DEF TypeOK, Hours, Call, Key
<1>2. ASSUME NEW r \in Requests, Arrive(r) PROVE ControlOK!(q)'
  BY <1>1, <1>2 DEF Arrive, HttpCall, PushCall, TypeOK
<1>3. ASSUME NEW r \in Requests, CacheHit(r) \/ CacheMissOrGetError(r)
      PROVE  ControlOK!(q)'
  BY <1>1, <1>3 DEF CacheHit, CacheMissOrGetError, CacheKey, ResolveQueryHour, TypeOK
<1>4. ASSUME NEW r \in Requests, HourQuery(r) \/ DayQuery(r) PROVE ControlOK!(q)'
  <2>1. ResolveQueryHour(call[r].query) \in Hours
    BY ResolvedHour DEF TypeOK
  <2>2. CASE HourQuery(r)
    BY <1>1, <2>1, <2>2 DEF HourQuery, AfterBody, ResolveQueryHour, TypeOK, Key, Hours
  <2>3. CASE DayQuery(r)
    BY <1>1, <2>3 DEF DayQuery, AfterBody, TypeOK
  <2>4. QED
    BY <1>4, <2>2, <2>3
<1>5. ASSUME NEW r \in Requests, QueryFails(r) \/ CachePut(r) \/ CachePutError(r)
      PROVE  ControlOK!(q)'
  BY <1>1, <1>5 DEF QueryFails, CachePut, CachePutError, TypeOK
<1>6. ASSUME NEW r \in Requests, Return(r) PROVE ControlOK!(q)'
  BY <1>1, <1>6 DEF Return, NoCall, TypeOK
<1>7. CASE Tick
  <2>1. /\ hour' = hour + 1
        /\ prompt' => prompt /\ (pc[q] # "idle" => call[q].begun = hour)
        /\ UNCHANGED <<pc, call, key, bodyHour>>
    BY <1>7 DEF Tick
  <2>2. KeyOf(q) => KeyOf(q)'
    BY <1>1, <2>1
  <2>3. pc[q] # "idle" => call[q].begun <= hour' /\ (prompt' => hour' <= call[q].begun + 1)
    BY <1>1, <2>1
  <2>4. QED
    BY <2>1, <2>2, <2>3
<1>8. CASE \/ \E x \in Row : StoreRow(x)
           \/ \E k \in Key : Expire(k)
           \/ Restart
           \/ UNCHANGED vars
  BY <1>1, <1>8 DEF StoreRow, Expire, Restart, NoCall, vars, TypeOK
<1>9. QED
  BY <1>2, <1>3, <1>4, <1>5, <1>6, <1>7, <1>8 DEF Next, Serve

\* What an entry e under k must satisfy when the clock shows h and p says that
\* no call has taken too long, and what the answer a of a call c must that was
\* looked up under k and has come to step s.
EntryOK(k, e, h, p) ==
    /\ Sound(h, k, e.value)
    /\ e.written <= h /\ h <= e.written + Life
    /\ p /\ ~Exact(k.hour, e.value) => e.written <= k.hour + 1

AnswerOK(c, k, a, s, h, p) ==
    /\ ModeOK(c.mode, a)
    /\ c.proxied => Sound(h, k, a)
    /\ c.query # Latest /\ ~Exact(c.query, a)
          => /\ s = "done"
             /\ p => c.begun <= c.query + 1 + Life

\* The query of a given hour gives a call for that hour its rows only, so a
\* call that is about to write other rows is a latest one, whose key is of
\* the hour it began in or of the next.
LEMMA PutSound ==
  ASSUME IInv, NEW r \in Requests, CachePut(r)
  PROVE  /\ Sound(hour, key[r], answer[r])
         /\ prompt /\ ~Exact(key[r].hour, answer[r]) => hour <= key[r].hour + 1
<1>1. call[r].proxied /\ KeyOf(r) /\ pc[r] = "put"
  BY DEF CachePut, IInv, ControlOK
<1>2. Sound(hour, key[r], answer[r])
  BY <1>1 DEF IInv, AnswerSound
<1>3. ASSUME prompt, ~Exact(key[r].hour, answer[r]) PROVE hour <= key[r].hour + 1
  <2>1. call[r].query = Latest
    BY <1>1, <1>3 DEF KeyOf, IInv, AnswerSound
  <2>2. call[r].begun <= key[r].hour /\ hour <= call[r].begun + 1
    BY <1>1, <1>3, <2>1 DEF KeyOf, IInv, ControlOK
  <2>3. hour \in Int /\ call[r].begun \in Int /\ key[r].hour \in Int
    BY DEF IInv, TypeOK, Call, Key, Hours
  <2>4. QED
    BY <2>2, <2>3
<1>4. QED
  BY <1>2, <1>3

\* Only a put adds an entry, and it adds the sound answer of its thread; when
\* the clock moves, the entries that have outlived their time go.
LEMMA CacheStep == IInv /\ TypeOK' /\ [Next]_vars => CacheSound'
<1> SUFFICES ASSUME IInv, TypeOK', [Next]_vars, NEW k \in Key, cache'[k] # NoEntry
             PROVE  EntryOK(k, cache'[k], hour', prompt')
  BY DEF CacheSound, EntryOK
<1>1. /\ hour <= hour' /\ hour \in Hours /\ hour' \in Hours
      /\ cache'[k] \in Entry /\ (prompt' => prompt)
  BY ClockForward DEF IInv, TypeOK, Hours
<1>2. ASSUME cache'[k] = cache[k], hour' = hour PROVE EntryOK(k, cache'[k], hour', prompt')
  BY <1>1, <1>2 DEF IInv, CacheSound, EntryOK
<1>3. ASSUME NEW r \in Requests, CachePut(r) PROVE EntryOK(k, cache'[k], hour', prompt')
  <2>1. CASE k = key[r]
    <3>1. cache'[k] = Readable(answer[r], hour) /\ hour' = hour /\ prompt' = prompt
      BY <1>3, <2>1 DEF CachePut, IInv, TypeOK
    <3>2. cache'[k] = [value |-> answer[r], written |-> hour]
      BY <3>1 DEF Readable
    <3>3. hour <= hour + Life
      BY <1>1 DEF Hours
    <3>4. QED
      BY <1>1, <1>3, <2>1, <3>1, <3>2, <3>3, PutSound DEF EntryOK, Hours
  <2>2. CASE k # key[r]
    BY <1>2, <1>3, <2>2 DEF CachePut, IInv, TypeOK
  <2>3. QED
    BY <2>1, <2>2
<1>4. ASSUME NEW e \in Key, Expire(e) PROVE EntryOK(k, cache'[k], hour', prompt')
  BY <1>2, <1>4 DEF Expire, IInv, TypeOK
<1>5. CASE Tick
  <2>1. cache[k] # NoEntry /\ cache'[k] = cache[k] /\ ~(cache[k].written + Life < hour + 1)
    BY <1>5 DEF Tick, EntriesLeft
  <2>2. hour' = hour + 1 /\ cache[k].written \in Int /\ cache[k].value \in Result
    BY <1>1, <1>5, <2>1 DEF Tick, Entry, Hours
  <2>3. EntryOK(k, cache[k], hour, prompt)
    BY <2>1 DEF IInv, CacheSound, EntryOK
  <2>4. Sound(hour', k, cache[k].value)
    BY <1>1, <2>2, <2>3, SoundMonotone DEF EntryOK
  <2>5. QED
    BY <1>1, <2>1, <2>2, <2>3, <2>4 DEF EntryOK, Hours
<1>6. CASE UNCHANGED <<cache, hour>>
  BY <1>2, <1>6
<1>7. QED
  BY <1>3, <1>4, <1>5, <1>6 DEF Next, vars, Arrive, Serve, HttpCall, PushCall, CacheHit,
     CacheMissOrGetError, HourQuery, DayQuery, QueryFails, CachePutError, Return,
     StoreRow, Restart

\* A step leaves the answers of the threads it does not serve alone, and the
\* answer it gives the one it serves, from the cache or from a query, is sound.
LEMMA AnswerStep == IInv /\ TypeOK' /\ [Next]_vars => AnswerSound'
<1> DEFINE OK(q) == AnswerOK(call'[q], key'[q], answer'[q], pc'[q], hour, prompt)
<1> SUFFICES ASSUME IInv, TypeOK', [Next]_vars,
                    NEW q \in Requests, pc'[q] \in {"put", "done"}
             PROVE  AnswerOK(call'[q], key'[q], answer'[q], pc'[q], hour', prompt')
  BY DEF AnswerSound, AnswerOK
<1>1. /\ hour <= hour' /\ hour \in Hours /\ hour' \in Hours /\ (prompt' => prompt)
      /\ key'[q] \in Key /\ answer'[q] \in Result
  BY ClockForward DEF IInv, TypeOK, Hours
<1>2. SUFFICES OK(q)
  BY <1>1, SoundMonotone DEF AnswerOK
<1>3. ASSUME pc[q] \in {"put", "done"}, pc'[q] \in {pc[q], "done"},
             call'[q] = call[q], key'[q] = key[q], answer'[q] = answer[q]
      PROVE  OK(q)
  BY <1>3 DEF IInv, AnswerSound, AnswerOK
<1>4. ASSUME NEW r \in Requests, CacheHit(r) PROVE OK(q)
  <2> DEFINE k == CacheKey(call[r])
  <2>1. CASE q = r
    <3>1. k \in Key /\ k.mode = call[r].mode /\ call[r] \in Call
      BY ResolvedHour DEF IInv, TypeOK, CacheKey
    <3>2. /\ key'[q] = k /\ answer'[q] = cache[k].value /\ call'[q] = call[r]
          /\ pc'[q] = "done" /\ cache[k] # NoEntry
      BY <1>4, <2>1, <3>1 DEF CacheHit, IInv, TypeOK
    <3>3. EntryOK(k, cache[k], hour, prompt)
      BY <3>1, <3>2 DEF IInv, CacheSound, EntryOK
    <3>4. ASSUME prompt, call[r].query # Latest, ~Exact(call[r].query, cache[k].value)
          PROVE  call[r].begun <= call[r].query + 1 + Life
      <4>1. k.hour = call[r].query
        BY <3>4 DEF CacheKey, ResolveQueryHour
      <4>2. cache[k].written <= k.hour + 1 /\ hour <= cache[k].written + Life
        BY <3>3, <3>4, <4>1 DEF EntryOK
      <4>3. call[r].begun <= hour
        BY <1>4 DEF CacheHit, IInv, ControlOK
      <4>4. cache[k] \in Entry
        BY <3>1, <3>2 DEF IInv, TypeOK
      <4>5. /\ hour \in Int /\ call[r].begun \in Int /\ k.hour \in Int
            /\ cache[k].written \in Int /\ Life \in Int
        BY <1>1, <3>1, <4>4 DEF Call, Key, Entry, Hours
      <4>6. QED
        BY <4>1, <4>2, <4>3, <4>5
    <3>5. QED
      BY <3>1, <3>2, <3>3, <3>4 DEF Sound, EntryOK, AnswerOK
  <2>2. CASE q # r
    BY <1>3, <1>4, <2>2 DEF CacheHit, IInv, TypeOK
  <2>3. QED
    BY <2>1, <2>2
<1>5. ASSUME NEW r \in Requests, HourQuery(r) PROVE OK(q)
  <2> DEFINE c == call[r]
             h == ResolveQueryHour(c.query)
             a == [rows |-> HourRows(c.mode, h), at |-> h]
  <2>1. CASE q = r
    <3>1. answer'[q] = a /\ call'[q] = c /\ key'[q] = key[r]
      BY <1>5, <2>1 DEF HourQuery, IInv, TypeOK
    <3>2. h \in Hours /\ c \in Call
      BY ResolvedHour DEF IInv, TypeOK
    <3>3. ModeOK(c.mode, a) /\ (c.query # Latest => Exact(c.query, a))
      BY DEF ModeOK, HourRows, Exact, ResolveQueryHour
    <3>4. ASSUME c.proxied PROVE Sound(hour, key[r], a)
      <4>1. KeyOf(r)
        BY <1>5, <3>4 DEF HourQuery, IInv, ControlOK
      <4>2. key[r] \in Key /\ key[r].mode = c.mode
        BY <4>1 DEF KeyOf, IInv, TypeOK
      <4>3. key[r].hour <= h /\ (key[r].hour > hour => h = key[r].hour)
        BY <4>1, <4>2, <3>2, <1>1 DEF KeyOf, ResolveQueryHour, Hours, Key
      <4>4. QED
        BY <3>2, <4>2, <4>3, HourRowsSound DEF IInv
    <3>5. QED
      BY <3>1, <3>3, <3>4 DEF AnswerOK
  <2>2. CASE q # r
    BY <1>3, <1>5, <2>2 DEF HourQuery, IInv, TypeOK
  <2>3. QED
    BY <2>1, <2>2
<1>6. ASSUME NEW r \in Requests, DayQuery(r) PROVE OK(q)
  <2> DEFINE c == call[r]
             a == [rows |-> DayRows(c.mode, DayOf[hour]), at |-> bodyHour[r]]
  <2>1. CASE q = r
    <3>1. /\ answer'[q] = a /\ call'[q] = c /\ key'[q] = key[r]
          /\ bodyHour[r] \in Hours /\ c.query = Latest
      BY <1>6, <2>1 DEF DayQuery, IInv, TypeOK, ControlOK
    <3>2. ModeOK(c.mode, a)
      BY DEF ModeOK, DayRows
    <3>3. ASSUME c.proxied PROVE Sound(hour, key[r], a)
      <4>1. KeyOf(r) /\ key[r].hour <= bodyHour[r]
        BY <1>6, <3>3 DEF DayQuery, IInv, ControlOK
      <4>2. key[r] \in Key /\ key[r].mode = c.mode /\ key[r].hour <= hour
        BY <3>1, <4>1 DEF KeyOf, IInv, TypeOK
      <4>3. QED
        BY <3>1, <4>1, <4>2, DayRowsSound DEF IInv
    <3>4. QED
      BY <3>1, <3>2, <3>3 DEF AnswerOK
  <2>2. CASE q # r
    BY <1>3, <1>6, <2>2 DEF DayQuery, IInv, TypeOK
  <2>3. QED
    BY <2>1, <2>2
<1>7. ASSUME NEW r \in Requests, Arrive(r) \/ CacheMissOrGetError(r) \/ QueryFails(r)
                                 \/ CachePut(r) \/ CachePutError(r) \/ Return(r)
      PROVE  OK(q)
  BY <1>3, <1>7 DEF Arrive, HttpCall, PushCall, CacheMissOrGetError, QueryFails,
     CachePut, CachePutError, Return, IInv, TypeOK
<1>8. CASE Tick \/ (\E x \in Row : StoreRow(x)) \/ (\E k \in Key : Expire(k)) \/ UNCHANGED vars
  BY <1>3, <1>8 DEF Tick, StoreRow, Expire, vars
<1>9. CASE Restart
  BY <1>9 DEF Restart
<1>10. QED
  BY <1>4, <1>5, <1>6, <1>7, <1>8, <1>9 DEF Next, Serve

-----------------------------------------------------------------------------
\* The types, the control, the cache and the answers hold together in every
\* reachable state, whichever processes the server went through.
THEOREM Invariance == Spec => []IInv
<1>1. IInv /\ [Next]_vars => IInv'
  <2> SUFFICES ASSUME IInv, [Next]_vars PROVE IInv'
    OBVIOUS
  <2>1. TypeOK'
    BY TypeStep DEF IInv
  <2>2. ControlOK'
    BY ControlStep DEF IInv
  <2>3. CacheSound' /\ AnswerSound'
    BY <2>1, CacheStep, AnswerStep
  <2>4. QED
    BY <2>1, <2>2, <2>3 DEF IInv
<1>2. QED
  BY InitIInv, <1>1, PTL DEF Spec

\* Answers and cache entries of a mode hold only rows of its unit.
THEOREM ModesIsolated == Spec => []ModeIsolation
<1>1. IInv => ModeIsolation
  BY DEF IInv, ModeIsolation, AnswerSound, CacheSound, Sound
<1>2. QED
  BY <1>1, Invariance, PTL

\* Latest calls are never answered with a day before the one they asked in.
THEOREM LatestStaysInItsDay == Spec => []LatestNeverFromEarlierDay
<1>1. IInv => LatestNeverFromEarlierDay
  BY DEF IInv, LatestNeverFromEarlierDay, AnswerSound, Sound
<1>2. QED
  BY <1>1, Invariance, PTL

\* Calls for a future hour, and prompt ones that come late enough after their
\* hour, get that hour's rows only, over restarts of the server too.
THEOREM HistoryExact == Spec => []HistoryIsExact
<1>1. IInv => HistoryIsExact
  <2> SUFFICES ASSUME IInv, NEW r \in Requests, pc[r] = "done", call[r].query # Latest,
                      call[r].query > hour \/ (prompt /\ call[r].begun > call[r].query + 1 + Life)
               PROVE  Exact(call[r].query, answer[r])
    BY DEF HistoryIsExact
  <2>1. call[r].proxied /\ KeyOf(r)
    BY DEF IInv, ControlOK, TypeOK, Call
  <2>2. key[r].hour = call[r].query /\ Sound(hour, key[r], answer[r])
    BY <2>1 DEF KeyOf, IInv, AnswerSound
  <2>3. CASE call[r].query > hour
    BY <2>2, <2>3 DEF Sound
  <2>4. CASE prompt /\ call[r].begun > call[r].query + 1 + Life
    <3>1. call[r] \in Call
      BY DEF IInv, TypeOK
    <3>2. call[r].begun \in Hours /\ call[r].query \in Hours
      BY <3>1 DEF Call
    <3>3. ~(call[r].begun <= call[r].query + 1 + Life)
      BY <2>4, <3>2 DEF Hours
    <3>4. QED
      BY <2>4, <3>3 DEF IInv, AnswerSound
  <2>5. QED
    BY <2>3, <2>4
<1>2. QED
  BY <1>1, Invariance, PTL
=============================================================================
