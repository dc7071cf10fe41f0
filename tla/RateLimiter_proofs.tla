------------------------ MODULE RateLimiter_proofs ------------------------
(***************************************************************************)
(* The invariant of the rate limiter, its limits per window and per second *)
(* and its refinement of TokenBatch, for any number of threads and         *)
(* clients, any limit and any window.                                      *)
(***************************************************************************)
EXTENDS RateLimiter, FiniteSetTheorems, TLAPS

\* The steps of a thread, spelled out once for the case splits below.
LEMMA StepCases ==
    ASSUME Next
    PROVE  \/ \E t \in Threads, c \in Clients : Arrive(t, c)
           \/ \E t \in Threads : ReadWindow(t)
           \/ \E t \in Threads : OpenWindow(t)
           \/ \E t \in Threads : KeepWindow(t)
           \/ \E t \in Threads : ResetCounter(t)
           \/ \E t \in Threads : Count(t)
           \/ Tick
BY DEF Next, PreHandle

-----------------------------------------------------------------------------
\* Counting admissions, for a client's row of them.
Rows == [Time -> Nat]

LEMMA AdmissionsFinite ==
    ASSUME NEW row \in Rows, NEW S \in SUBSET Time
    PROVE  IsFiniteSet(Admissions(row, S)) /\ Cardinality(Admissions(row, S)) \in Nat
<1> DEFINE cells == {{s} \X (1 .. row[s]) : s \in S}
           cell  == [s \in S |-> {s} \X (1 .. row[s])]
<1>1. IsFiniteSet(S)
    <2>1. IsFiniteSet(0 .. MaxTime)
        BY ParameterAssumption, FS_Interval
    <2> QED BY <2>1, FS_Subset DEF Time
<1>2. cell \in Surjection(S, cells)
    BY DEF Surjection
<1>3. IsFiniteSet(cells)
    BY <1>1, <1>2, FS_Surjection
<1>4. ASSUME NEW T \in cells PROVE IsFiniteSet(T)
    <2>1. PICK s \in S : T = {s} \X (1 .. row[s])
        OBVIOUS
    <2>2. row[s] \in Nat
        BY DEF Rows
    <2>3. IsFiniteSet({s})
        BY FS_Singleton
    <2>4. IsFiniteSet(1 .. row[s])
        BY <2>2, FS_Interval
    <2> QED BY <2>1, <2>3, <2>4, FS_Product
<1>5. IsFiniteSet(UNION cells)
    BY <1>3, <1>4, FS_UNION
<1> QED BY <1>5, FS_CardinalityType DEF Admissions

\* Only times with an admission count.
LEMMA AdmissionsCovered ==
    ASSUME NEW row \in Rows, NEW S \in SUBSET Time, NEW T \in SUBSET Time,
           \A s \in S : row[s] > 0 => s \in T
    PROVE  Admissions(row, S) \subseteq Admissions(row, T)
<1> SUFFICES ASSUME NEW a \in Admissions(row, S) PROVE a \in Admissions(row, T)
    OBVIOUS
<1>1. PICK s \in S : a \in {s} \X (1 .. row[s])
    BY DEF Admissions
<1>2. row[s] \in Nat /\ a[2] \in 1 .. row[s]
    BY <1>1 DEF Rows
<1>3. s \in T
    BY <1>2
<1> QED BY <1>1, <1>3 DEF Admissions

LEMMA CountCovered ==
    ASSUME NEW row \in Rows, NEW S \in SUBSET Time, NEW T \in SUBSET Time,
           \A s \in S : row[s] > 0 => s \in T
    PROVE  Cardinality(Admissions(row, S)) <= Cardinality(Admissions(row, T))
BY AdmissionsCovered, AdmissionsFinite, FS_Subset

LEMMA CountSplit ==
    ASSUME NEW row \in Rows, NEW S \in SUBSET Time, NEW T \in SUBSET Time, NEW U \in SUBSET Time,
           \A s \in S : row[s] > 0 => s \in T \/ s \in U
    PROVE  Cardinality(Admissions(row, S))
               <= Cardinality(Admissions(row, T)) + Cardinality(Admissions(row, U))
<1> DEFINE A == Admissions(row, T)
           B == Admissions(row, U)
<1>1. Admissions(row, S) \subseteq Admissions(row, T \union U)
    BY AdmissionsCovered
<1>2. Admissions(row, T \union U) = A \union B
    BY DEF Admissions
<1>3. IsFiniteSet(A) /\ IsFiniteSet(B) /\ Cardinality(A) \in Nat /\ Cardinality(B) \in Nat
    BY AdmissionsFinite
<1> HIDE DEF A, B
<1>4. IsFiniteSet(A \intersect B) /\ Cardinality(A \intersect B) \in Nat
    BY <1>3, FS_Intersection, FS_CardinalityType
<1>5. /\ IsFiniteSet(A \union B) /\ Cardinality(A \union B) \in Nat
      /\ Cardinality(A \union B) <= Cardinality(A) + Cardinality(B)
    <2>1. IsFiniteSet(A \union B)
          /\ Cardinality(A \union B) = Cardinality(A) + Cardinality(B) - Cardinality(A \intersect B)
        BY <1>3, FS_Union
    <2> QED BY <1>3, <1>4, <2>1, FS_CardinalityType
<1>6. Cardinality(Admissions(row, S)) <= Cardinality(A \union B)
    BY <1>1, <1>2, <1>5, FS_Subset
<1>7. Cardinality(Admissions(row, S)) \in Nat
    BY AdmissionsFinite
<1> QED BY <1>3, <1>5, <1>6, <1>7 DEF A, B

LEMMA CountNone ==
    ASSUME NEW row \in Rows, NEW S \in SUBSET Time, \A s \in S : ~(row[s] > 0)
    PROVE  Cardinality(Admissions(row, S)) = 0
<1>1. Admissions(row, {}) = {}
    BY DEF Admissions
<1>2. Admissions(row, S) \subseteq {}
    BY <1>1, AdmissionsCovered
<1> QED BY <1>2, FS_EmptySet

\* One admission more adds one to the count of every set that has its time.
LEMMA CountOne ==
    ASSUME NEW row \in Rows, NEW x \in Time, NEW S \in SUBSET Time,
           NEW new, new = [row EXCEPT ![x] = @ + 1]
    PROVE  /\ new \in Rows
           /\ Cardinality(Admissions(new, S)) <= Cardinality(Admissions(row, S)) + 1
           /\ x \notin S => Admissions(new, S) = Admissions(row, S)
<1> DEFINE A   == Admissions(row, S)
           one == <<x, row[x] + 1>>
<1>1. row[x] \in Nat /\ new \in Rows
    BY DEF Rows
<1>2. \A s \in S : s # x => new[s] = row[s]
    BY DEF Rows
<1>3. CASE x \notin S
    <2>1. Admissions(new, S) = A
        BY <1>2, <1>3 DEF Admissions
    <2> QED BY <1>1, <1>3, <2>1, AdmissionsFinite
<1>4. CASE x \in S
    <2>1. ASSUME NEW a \in Admissions(new, S) PROVE a \in A \union {one}
        <3>1. PICK s \in S : a \in {s} \X (1 .. new[s])
            BY <2>1 DEF Admissions
        <3>2. CASE s # x
            BY <1>2, <3>1, <3>2 DEF Admissions
        <3>3. CASE s = x
            <4>1. new[x] = row[x] + 1
                BY DEF Rows
            <4>2. PICK n \in 1 .. row[x] + 1 : a = <<x, n>>
                BY <3>1, <3>3, <4>1
            <4>3. n = row[x] + 1 \/ n \in 1 .. row[x]
                BY <1>1
            <4>4. n \in 1 .. row[x] => a \in {x} \X (1 .. row[x])
                BY <4>2
            <4> QED BY <1>4, <4>2, <4>3, <4>4 DEF Admissions
        <3> QED BY <3>2, <3>3
    <2>2. Admissions(new, S) \subseteq A \union {one}
        BY <2>1
    <2>3. IsFiniteSet(A) /\ Cardinality(A) \in Nat
        BY AdmissionsFinite
    <2> HIDE DEF A, one
    <2>4. IsFiniteSet(A \union {one}) /\ Cardinality(A \union {one}) <= Cardinality(A) + 1
        BY <2>3, FS_AddElement
    <2>5. Cardinality(Admissions(new, S)) <= Cardinality(A \union {one})
        BY <2>2, <2>4, FS_Subset
    <2>6. Cardinality(A \union {one}) \in Nat /\ Cardinality(Admissions(new, S)) \in Nat
        BY <1>1, <2>4, AdmissionsFinite, FS_CardinalityType
    <2> QED BY <1>1, <1>4, <2>3, <2>4, <2>5, <2>6 DEF A
<1> QED BY <1>3, <1>4

-----------------------------------------------------------------------------
LEMMA InitInv == Init => LimiterInv
<1> USE ParameterAssumption DEF Time
<1> SUFFICES ASSUME Init PROVE LimiterInv
    OBVIOUS
<1>1. TypeOK
    BY DEF Init, TypeOK, Steps
<1>2. WindowsInPast
    BY DEF Init, WindowsInPast
<1>3. WindowStored /\ OneInside
    BY DEF Init, WindowStored, OneInside, Inside
<1>4. Serial
    BY DEF Init, Serial, OwnWindow, Counted, Inside
<1> QED BY <1>1, <1>2, <1>3, <1>4 DEF LimiterInv

LEMMA TypeStep == LimiterInv /\ Next => TypeOK'
<1> SUFFICES ASSUME TypeOK, Next, WindowStored PROVE TypeOK'
    BY DEF LimiterInv
<1> USE ParameterAssumption DEF TypeOK, Steps
<1>1. ASSUME NEW t \in Threads, NEW c \in Clients, Arrive(t, c) PROVE TypeOK'
    BY <1>1 DEF Arrive
<1>2. ASSUME NEW t \in Threads, ReadWindow(t) PROVE TypeOK'
    BY <1>2 DEF ReadWindow
<1>3. ASSUME NEW t \in Threads, OpenWindow(t) PROVE TypeOK'
    BY <1>3 DEF OpenWindow
<1>4. ASSUME NEW t \in Threads, KeepWindow(t) PROVE TypeOK'
    BY <1>4 DEF KeepWindow
<1>5. ASSUME NEW t \in Threads, ResetCounter(t) PROVE TypeOK'
    BY <1>5 DEF ResetCounter
<1>6. ASSUME NEW t \in Threads, Count(t) PROVE TypeOK'
    <2> DEFINE c == ip[t]
    <2>1. c \in Clients /\ now[t] \in Time
        OBVIOUS
    <2>2. requestCounts' \in [Clients -> Nat] /\ pc' \in [Threads -> Steps]
        BY <1>6, <2>1 DEF Count
    <2>3. verdict' \in [Threads -> {"none", "admitted", "rejected"}]
        BY <1>6 DEF Count
    <2>4. admitted' \in [Clients -> [Time -> Nat]]
        <3> DEFINE row == [admitted[c] EXCEPT ![now[t]] = @ + 1]
        <3>1. admitted' \in {admitted, [admitted EXCEPT ![c] = row]}
            BY <1>6, <2>1 DEF Count
        <3>2. row \in [Time -> Nat]
            BY <2>1
        <3> QED BY <2>1, <3>1, <3>2
    <2> QED BY <1>6, <2>2, <2>3, <2>4 DEF Count
<1>7. CASE Tick
    BY <1>7 DEF Tick, Time
<1> QED BY <1>1, <1>2, <1>3, <1>4, <1>5, <1>6, <1>7, StepCases

\* Windows stay in the past: what is stored or read is a thread's own time,
\* and that is a clock reading.
LEMMA PastStep == LimiterInv /\ Next => WindowsInPast'
<1> SUFFICES ASSUME TypeOK, WindowsInPast, WindowStored, Next PROVE WindowsInPast'
    BY DEF LimiterInv
<1> USE ParameterAssumption DEF TypeOK, WindowsInPast, Time
<1>1. ASSUME NEW t \in Threads, NEW c \in Clients, Arrive(t, c) PROVE WindowsInPast'
    BY <1>1 DEF Arrive
<1>2. ASSUME NEW t \in Threads, ReadWindow(t) PROVE WindowsInPast'
    BY <1>2 DEF ReadWindow
<1>3. ASSUME NEW t \in Threads, OpenWindow(t) PROVE WindowsInPast'
    BY <1>3 DEF OpenWindow
<1>4. ASSUME NEW t \in Threads, KeepWindow(t) PROVE WindowsInPast'
    BY <1>4 DEF KeepWindow
<1>5. ASSUME NEW t \in Threads, ResetCounter(t) PROVE WindowsInPast'
    BY <1>5 DEF ResetCounter
<1>6. ASSUME NEW t \in Threads, Count(t) PROVE WindowsInPast'
    BY <1>6 DEF Count
<1>7. CASE Tick
    BY <1>7 DEF Tick
<1> QED BY <1>1, <1>2, <1>3, <1>4, <1>5, <1>6, <1>7, StepCases

\* No step removes a window, and a thread leaves "window" by storing one.
LEMMA StoredStep == LimiterInv /\ Next => WindowStored'
<1> SUFFICES ASSUME TypeOK, WindowStored, Next PROVE WindowStored'
    BY DEF LimiterInv
<1> USE ParameterAssumption DEF TypeOK, WindowStored
<1>1. ASSUME NEW t \in Threads, NEW c \in Clients, Arrive(t, c) PROVE WindowStored'
    BY <1>1 DEF Arrive
<1>2. ASSUME NEW t \in Threads, ReadWindow(t) PROVE WindowStored'
    BY <1>2 DEF ReadWindow
<1>3. ASSUME NEW t \in Threads, OpenWindow(t) PROVE WindowStored'
    BY <1>3 DEF OpenWindow
<1>4. ASSUME NEW t \in Threads, KeepWindow(t) PROVE WindowStored'
    BY <1>4 DEF KeepWindow
<1>5. ASSUME NEW t \in Threads, ResetCounter(t) PROVE WindowStored'
    BY <1>5 DEF ResetCounter
<1>6. ASSUME NEW t \in Threads, Count(t) PROVE WindowStored'
    BY <1>6 DEF Count
<1>7. CASE Tick
    BY <1>7 DEF Tick
<1> QED BY <1>1, <1>2, <1>3, <1>4, <1>5, <1>6, <1>7, StepCases

-----------------------------------------------------------------------------
\* The accounts of one client.  A step of a thread that serves another client
\* leaves them alone.
Account(c) == OwnWindow(c) /\ Counted(c)

LEMMA AccountFrame ==
    ASSUME NEW c, Account(c),
           timeWindows'[c] = timeWindows[c], requestCounts'[c] = requestCounts[c],
           admitted'[c] = admitted[c],
           \A u \in Threads : Inside(u, c)' =>
               /\ Inside(u, c) /\ pc'[u] = pc[u] /\ now'[u] = now[u]
               /\ windowStart'[u] = windowStart[u],
           \A u \in Threads : Inside(u, c) => Inside(u, c)' /\ pc'[u] = pc[u]
    PROVE  Account(c)'
BY DEF Account, OwnWindow, Counted, AdmittedIn

LEMMA OtherClient ==
    ASSUME TypeOK, NEW t \in Threads, NEW c \in Clients, Account(c),
           \/ PreHandle(t) /\ c # ip[t]
           \/ \E d \in Clients : Arrive(t, d) /\ c # d
    PROVE  Account(c)'
<1> USE DEF TypeOK
<1>1. /\ timeWindows'[c] = timeWindows[c] /\ requestCounts'[c] = requestCounts[c]
      /\ admitted'[c] = admitted[c]
    BY DEF PreHandle, Arrive, ReadWindow, OpenWindow, KeepWindow, ResetCounter, Count
<1>2. ~Inside(t, c) /\ ~Inside(t, c)'
    BY DEF PreHandle, Arrive, ReadWindow, OpenWindow, KeepWindow, ResetCounter, Count, Inside
<1>3. \A u \in Threads : u # t => /\ pc'[u] = pc[u] /\ ip'[u] = ip[u] /\ now'[u] = now[u]
                                  /\ windowStart'[u] = windowStart[u]
    BY DEF PreHandle, Arrive, ReadWindow, OpenWindow, KeepWindow, ResetCounter, Count
<1>4. \A u \in Threads : Inside(u, c)' =>
          /\ Inside(u, c) /\ pc'[u] = pc[u] /\ now'[u] = now[u]
          /\ windowStart'[u] = windowStart[u]
    BY <1>2, <1>3 DEF Inside
<1>5. \A u \in Threads : Inside(u, c) => Inside(u, c)' /\ pc'[u] = pc[u]
    BY <1>2, <1>3 DEF Inside
<1> QED BY <1>1, <1>4, <1>5, AccountFrame

\* The thread that serves the client is the only one inside for it.
LEMMA Alone ==
    ASSUME LimiterInv, NEW t \in Threads, NEW c \in Clients \ raced, Inside(t, c), PreHandle(t)
    PROVE  /\ \A u \in Threads : Inside(u, c) => u = t
           /\ \A u \in Threads : Inside(u, c)' => u = t
           /\ Account(c) /\ c = ip[t] /\ ip' = ip /\ now' = now
           /\ now[t] \in Time /\ requestCounts[c] \in Nat /\ admitted[c] \in Rows
           /\ timeWindows[c] \in Time \union {NoWindow}
<1>1. \A u \in Threads : Inside(u, c) => u = t
    BY DEF LimiterInv, OneInside
<1>2. ip' = ip /\ now' = now
    BY DEF PreHandle, ReadWindow, OpenWindow, KeepWindow, ResetCounter, Count
<1>3. \A u \in Threads : u # t => pc'[u] = pc[u]
    BY DEF PreHandle, ReadWindow, OpenWindow, KeepWindow, ResetCounter, Count, LimiterInv, TypeOK
<1>4. \A u \in Threads : Inside(u, c)' => u = t
    BY <1>1, <1>2, <1>3 DEF Inside
<1> QED BY <1>1, <1>2, <1>4 DEF LimiterInv, TypeOK, Serial, Account, Inside, Rows

\* A request of a client that no thread serves: its time is that of the clock.
LEMMA ArriveAccount ==
    ASSUME LimiterInv, NEW t \in Threads, NEW c \in Clients, c \notin raced', Arrive(t, c)
    PROVE  Account(c)'
<1> USE DEF Arrive
<1>1. c \notin raced /\ \A u \in Threads : ~Inside(u, c)
    BY DEF Inside
<1>2. \A u \in Threads : Inside(u, c)' => u = t
    BY <1>1 DEF Inside, LimiterInv, TypeOK
<1>3. pc'[t] = "window" /\ now'[t] = clock
    BY DEF LimiterInv, TypeOK
<1>4. OwnWindow(c)'
    BY <1>2, <1>3 DEF OwnWindow, LimiterInv, WindowsInPast
<1>5. Counted(c)'
    BY <1>1 DEF Counted, LimiterInv, Serial, AdmittedIn
<1> QED BY <1>4, <1>5 DEF Account

LEMMA ReadAccount ==
    ASSUME LimiterInv, NEW t \in Threads, NEW c \in Clients \ raced, c = ip[t], ReadWindow(t)
    PROVE  Account(c)'
<1> USE DEF ReadWindow
<1>1. /\ Inside(t, c) /\ PreHandle(t)
    BY DEF Inside, PreHandle
<1>2. /\ \A u \in Threads : Inside(u, c) => u = t
      /\ \A u \in Threads : Inside(u, c)' => u = t
      /\ Account(c) /\ now' = now
      /\ now[t] \in Time /\ requestCounts[c] \in Nat /\ admitted[c] \in Rows
      /\ timeWindows[c] \in Time \union {NoWindow}
    BY <1>1, Alone
<1>3. /\ timeWindows'[c] = IF timeWindows[c] = NoWindow THEN now[t] ELSE timeWindows[c]
      /\ windowStart'[t] = timeWindows'[c]
      /\ pc[t] = "window" /\ pc'[t] = "check"
    BY DEF LimiterInv, TypeOK
<1>4. OwnWindow(c)'
    BY <1>1, <1>2, <1>3, ParameterAssumption DEF OwnWindow, Account, Time
<1>5. CASE timeWindows[c] = NoWindow
    <2>1. \A s \in Time : ~(admitted[c][s] > 0)
        BY <1>2, <1>5 DEF Account, Counted
    <2>2. WindowOf(now[t]) \in SUBSET Time /\ SecondBefore(now[t]) \in SUBSET Time
        BY DEF WindowOf, SecondBefore
    <2>3. /\ Cardinality(Admissions(admitted[c], WindowOf(now[t]))) = 0
          /\ Cardinality(Admissions(admitted[c], SecondBefore(now[t]))) = 0
        BY <1>2, <2>1, <2>2, CountNone
    <2>4. timeWindows'[c] = now[t]
        BY <1>3, <1>5
    <2> QED BY <1>2, <1>4, <2>1, <2>3, <2>4, ParameterAssumption DEF Account, Counted, AdmittedIn
<1>6. CASE timeWindows[c] # NoWindow
    <2>1. timeWindows'[c] = timeWindows[c]
        BY <1>3, <1>6
    <2>2. ~ \E u \in Threads : Inside(u, c) /\ pc[u] = "reset"
        BY <1>2, <1>3
    <2>3. Counted(c)'
        BY <1>2, <1>6, <2>1, <2>2 DEF Account, Counted, AdmittedIn
    <2> QED BY <1>4, <2>3 DEF Account
<1> QED BY <1>5, <1>6

\* The new window begins where the old one has ended: nothing was admitted in it,
\* and what was admitted in the second before was admitted in the old one.
LEMMA OpenAccount ==
    ASSUME LimiterInv, NEW t \in Threads, NEW c \in Clients \ raced, c = ip[t], OpenWindow(t)
    PROVE  Account(c)'
<1> USE DEF OpenWindow
<1> DEFINE w == timeWindows[c]
<1>1. /\ Inside(t, c) /\ PreHandle(t)
    BY DEF Inside, PreHandle
<1>2. /\ \A u \in Threads : Inside(u, c)' => u = t
      /\ Account(c) /\ now' = now /\ ip' = ip
      /\ now[t] \in Time /\ requestCounts[c] \in Nat /\ admitted[c] \in Rows
      /\ w \in Time \union {NoWindow}
    BY <1>1, Alone
<1>3. w # NoWindow /\ w \in Time
    BY <1>2 DEF LimiterInv, WindowStored
<1>4. timeWindows'[c] = now[t] /\ pc'[t] = "reset"
    BY DEF LimiterInv, TypeOK
<1>5. w <= now[t] /\ windowStart[t] = w
    BY <1>1, <1>2, <1>3 DEF Account, OwnWindow
<1>6. w + Window <= now[t]
    BY <1>2, <1>3, <1>5, ParameterAssumption DEF Outside, Time
<1>7. \A s \in Time : admitted[c][s] > 0 => s < w + Window
    BY <1>2 DEF Account, Counted
<1>8. /\ WindowOf(now[t]) \in SUBSET Time /\ SecondBefore(now[t]) \in SUBSET Time
      /\ WindowOf(w) \in SUBSET Time
    BY DEF WindowOf, SecondBefore
<1>9. Cardinality(Admissions(admitted[c], WindowOf(now[t]))) = 0
    <2>1. \A s \in WindowOf(now[t]) : ~(admitted[c][s] > 0)
        BY <1>2, <1>3, <1>6, <1>7, ParameterAssumption DEF WindowOf, Time
    <2> QED BY <1>2, <1>8, <2>1, CountNone
<1>10. Cardinality(Admissions(admitted[c], SecondBefore(now[t]))) <= Limit
    <2>1. \A s \in SecondBefore(now[t]) : admitted[c][s] > 0 => s \in WindowOf(w)
        BY <1>2, <1>3, <1>6, <1>7, ParameterAssumption DEF SecondBefore, WindowOf, Time
    <2>2. Cardinality(Admissions(admitted[c], SecondBefore(now[t])))
              <= Cardinality(Admissions(admitted[c], WindowOf(w)))
        BY <1>2, <1>8, <2>1, CountCovered
    <2>3. Cardinality(Admissions(admitted[c], WindowOf(w))) <= Limit
        BY <1>2, <1>3 DEF Account, Counted, AdmittedIn
    <2>4. /\ Cardinality(Admissions(admitted[c], SecondBefore(now[t]))) \in Nat
          /\ Cardinality(Admissions(admitted[c], WindowOf(w))) \in Nat
        BY <1>2, <1>8, AdmissionsFinite
    <2> QED BY <2>2, <2>3, <2>4, ParameterAssumption
<1>11. OwnWindow(c)'
    BY <1>2, <1>4, <1>9, ParameterAssumption DEF OwnWindow, AdmittedIn, Time
<1>12. Counted(c)'
    <2>1. \A s \in Time : admitted[c][s] > 0 => s < now[t] + Window
        BY <1>2, <1>3, <1>6, <1>7, ParameterAssumption DEF Time
    <2>2. now[t] # NoWindow
        BY <1>2, ParameterAssumption
    <2> QED BY <1>2, <1>4, <1>9, <1>10, <2>1, <2>2, ParameterAssumption DEF Counted, AdmittedIn
<1> QED BY <1>11, <1>12 DEF Account

LEMMA KeepAccount ==
    ASSUME LimiterInv, NEW t \in Threads, NEW c \in Clients \ raced, c = ip[t], KeepWindow(t)
    PROVE  Account(c)'
<1> USE DEF KeepWindow
<1>1. /\ Inside(t, c) /\ PreHandle(t)
    BY DEF Inside, PreHandle
<1>2. /\ \A u \in Threads : Inside(u, c) => u = t
      /\ \A u \in Threads : Inside(u, c)' => u = t
      /\ Account(c) /\ now[t] \in Time /\ timeWindows[c] \in Time \union {NoWindow}
    BY <1>1, Alone
<1>3. timeWindows[c] \in Time /\ windowStart[t] = timeWindows[c]
    BY <1>1, <1>2 DEF LimiterInv, WindowStored, Account, OwnWindow
<1>4. pc'[t] = "count" /\ pc[t] = "check"
    BY DEF LimiterInv, TypeOK
<1>5. now[t] \in WindowOf(timeWindows[c])
    BY <1>2, <1>3, ParameterAssumption DEF Outside, WindowOf, Time
<1>6. OwnWindow(c)'
    BY <1>1, <1>2, <1>4, <1>5 DEF OwnWindow, Account
<1>7. Counted(c)'
    BY <1>2, <1>4 DEF Counted, Account, AdmittedIn
<1> QED BY <1>6, <1>7 DEF Account

LEMMA ResetAccount ==
    ASSUME LimiterInv, NEW t \in Threads, NEW c \in Clients \ raced, c = ip[t], ResetCounter(t)
    PROVE  Account(c)'
<1> USE DEF ResetCounter
<1>1. /\ Inside(t, c) /\ PreHandle(t)
    BY DEF Inside, PreHandle
<1>2. /\ \A u \in Threads : Inside(u, c)' => u = t
      /\ Account(c) /\ now[t] \in Time
    BY <1>1, Alone
<1>3. /\ timeWindows[c] = now[t]
      /\ Cardinality(Admissions(admitted[c], WindowOf(timeWindows[c]))) = 0
    BY <1>1, <1>2 DEF Account, OwnWindow, AdmittedIn
<1>4. pc'[t] = "count" /\ requestCounts'[c] = 0
    BY DEF LimiterInv, TypeOK
<1>5. now[t] \in WindowOf(timeWindows[c])
    BY <1>2, <1>3, ParameterAssumption DEF WindowOf, Time
<1>6. OwnWindow(c)'
    BY <1>1, <1>2, <1>4, <1>5 DEF OwnWindow, Account
<1>7. Counted(c)'
    BY <1>2, <1>3, <1>4 DEF Counted, Account, AdmittedIn
<1> QED BY <1>6, <1>7 DEF Account

\* What an admission does to a client's row.
LEMMA CountRow ==
    ASSUME LimiterInv, NEW t \in Threads, Count(t), NEW c \in Clients, c = ip[t]
    PROVE  IF requestCounts[c] + 1 > Limit
           THEN admitted'[c] = admitted[c]
           ELSE admitted'[c] = [admitted[c] EXCEPT ![now[t]] = @ + 1]
BY DEF Count, LimiterInv, TypeOK

\* The counter stands at least at what its window has admitted: it admits one
\* more only if both stay within the limit.
LEMMA CountAccount ==
    ASSUME LimiterInv, NEW t \in Threads, NEW c \in Clients \ raced, c = ip[t], Count(t)
    PROVE  Account(c)'
<1> USE DEF Count
<1> DEFINE w == timeWindows[c]
           n == requestCounts[c]
           A == Cardinality(Admissions(admitted[c], WindowOf(w)))
           B == Cardinality(Admissions(admitted'[c], WindowOf(w)))
<1>1. /\ Inside(t, c) /\ PreHandle(t)
    BY DEF Inside, PreHandle
<1>2. /\ \A u \in Threads : Inside(u, c) => u = t
      /\ \A u \in Threads : Inside(u, c)' => u = t
      /\ Account(c) /\ now[t] \in Time /\ n \in Nat /\ admitted[c] \in Rows
      /\ w \in Time \union {NoWindow}
    BY <1>1, Alone
<1>3. w \in Time /\ now[t] \in WindowOf(w)
    BY <1>1, <1>2 DEF LimiterInv, WindowStored, Account, OwnWindow
<1>4. pc'[t] = "idle" /\ pc[t] = "count" /\ requestCounts'[c] = n + 1
    BY DEF LimiterInv, TypeOK
<1>5. OwnWindow(c)'
    BY <1>2, <1>4 DEF OwnWindow, Inside
<1>6. A \in Nat /\ A <= n /\ A <= Limit
    <2>1. A <= n /\ A <= Limit
        BY <1>2, <1>3, <1>4, ParameterAssumption DEF Account, Counted, AdmittedIn
    <2>2. WindowOf(w) \in SUBSET Time
        BY DEF WindowOf
    <2> QED BY <1>2, <2>1, <2>2, AdmissionsFinite
<1>7. /\ \A s \in Time : admitted'[c][s] > 0 => s < w + Window
      /\ B <= Limit /\ B <= n + 1
      /\ Cardinality(Admissions(admitted'[c], SecondBefore(w))) <= Limit
    <2>1. /\ \A s \in Time : admitted[c][s] > 0 => s < w + Window
          /\ Cardinality(Admissions(admitted[c], SecondBefore(w))) <= Limit
        BY <1>2, <1>3, ParameterAssumption DEF Account, Counted, AdmittedIn
    <2>2. CASE n + 1 > Limit
        BY <1>2, <1>6, <2>1, <2>2, CountRow
    <2>3. CASE ~(n + 1 > Limit)
        <3>1. admitted'[c] = [admitted[c] EXCEPT ![now[t]] = @ + 1]
            BY <2>3, CountRow
        <3>2. WindowOf(w) \in SUBSET Time /\ SecondBefore(w) \in SUBSET Time
            BY DEF WindowOf, SecondBefore
        <3>3. now[t] \notin SecondBefore(w) /\ now[t] < w + Window
            BY <1>2, <1>3, ParameterAssumption DEF WindowOf, SecondBefore, Time
        <3>4. admitted'[c] \in Rows /\ B <= A + 1
            BY <1>2, <3>1, <3>2, CountOne
        <3>5. Admissions(admitted'[c], SecondBefore(w)) = Admissions(admitted[c], SecondBefore(w))
            BY <1>2, <3>1, <3>2, <3>3, CountOne
        <3>6. B \in Nat
            BY <3>2, <3>4, AdmissionsFinite
        <3>7. B <= Limit /\ B <= n + 1
            <4> HIDE DEF A, B
            <4> QED BY <1>2, <1>6, <2>3, <3>4, <3>6, ParameterAssumption
        <3>8. \A s \in Time : admitted'[c][s] > 0 => s < w + Window
            BY <1>2, <2>1, <3>1, <3>3 DEF Rows
        <3> QED BY <2>1, <3>5, <3>7, <3>8
    <2> QED BY <2>2, <2>3
<1>8. Counted(c)'
    BY <1>3, <1>4, <1>7, ParameterAssumption DEF Counted, AdmittedIn
<1> QED BY <1>5, <1>8 DEF Account

LEMMA SerialStep == LimiterInv /\ Next => Serial'
<1> SUFFICES ASSUME LimiterInv, Next, NEW c \in Clients, c \notin raced'
             PROVE  Account(c)'
    BY DEF Serial, Account
<1>1. raced \subseteq raced'
    BY StepCases DEF Arrive, ReadWindow, OpenWindow, KeepWindow, ResetCounter, Count, Tick
<1>2. c \in Clients \ raced /\ TypeOK /\ Account(c)
    BY <1>1 DEF LimiterInv, Serial, Account
<1>3. ASSUME NEW t \in Threads, NEW d \in Clients, Arrive(t, d) PROVE Account(c)'
    BY <1>2, <1>3, ArriveAccount, OtherClient
<1>4. ASSUME NEW t \in Threads, PreHandle(t) PROVE Account(c)'
    <2>1. CASE c # ip[t]
        BY <1>2, <1>4, <2>1, OtherClient
    <2>2. CASE c = ip[t]
        BY <1>2, <1>4, <2>2, ReadAccount, OpenAccount, KeepAccount, ResetAccount, CountAccount
           DEF PreHandle
    <2> QED BY <2>1, <2>2
<1>5. CASE Tick
    BY <1>2, <1>5, AccountFrame DEF Tick, Inside
<1> QED BY <1>3, <1>4, <1>5 DEF Next

\* A request that finds another one of its client inside marks the client.
LEMMA OneInsideStep == LimiterInv /\ Next => OneInside'
<1> SUFFICES ASSUME TypeOK, OneInside, Next PROVE OneInside'
    BY DEF LimiterInv
<1> USE DEF TypeOK, OneInside, Inside
<1>1. ASSUME NEW t \in Threads, NEW c \in Clients, Arrive(t, c) PROVE OneInside'
    BY <1>1 DEF Arrive
<1>2. ASSUME NEW t \in Threads, PreHandle(t) PROVE OneInside'
    <2>1. /\ raced' = raced /\ ip' = ip
          /\ \A u \in Threads : pc'[u] # "idle" => pc[u] # "idle"
        BY <1>2 DEF PreHandle, ReadWindow, OpenWindow, KeepWindow, ResetCounter, Count
    <2> QED BY <2>1
<1>3. CASE Tick
    BY <1>3 DEF Tick
<1> QED BY <1>1, <1>2, <1>3 DEF Next

LEMMA StutterInv == LimiterInv /\ UNCHANGED vars => LimiterInv'
BY DEF LimiterInv, TypeOK, WindowsInPast, WindowStored, OneInside, Inside, Serial, OwnWindow,
       Counted, AdmittedIn, vars

\* The limiter's state is well typed, its windows were opened in the past, every
\* thread past computeIfAbsent finds one stored, and the accounts of a client
\* whose requests never overlap are right, at every instant of every
\* interleaving.
THEOREM LimiterInvariant == Spec => []LimiterInv
<1>1. LimiterInv /\ [Next]_vars => LimiterInv'
    BY TypeStep, PastStep, StoredStep, OneInsideStep, SerialStep, StutterInv DEF LimiterInv
<1> QED BY InitInv, <1>1, PTL DEF Spec

\* In its current window a client whose requests never overlap was let through
\* no more than Limit times, whatever other clients do (preHandle).
THEOREM LimitPerWindow == Spec => []WindowLimit
<1>1. LimiterInv => WindowLimit
    BY DEF LimiterInv, Serial, Counted, WindowLimit
<1> QED BY <1>1, LimiterInvariant, PTL

-----------------------------------------------------------------------------
\* Any second: only an admission adds to one, and the second that has its time
\* lies in the current window and the second before it.
LEMMA SecondStep ==
    ASSUME LimiterInv, LimiterInv', AnySecondLimit, Next
    PROVE  AnySecondLimit'
<1> SUFFICES ASSUME NEW c \in Clients, c \notin raced', NEW s \in Time
             PROVE  Cardinality(Admissions(admitted'[c], WindowOf(s))) <= 2 * Limit
    BY DEF AnySecondLimit, AdmittedIn
<1>1. c \in Clients \ raced
    BY StepCases DEF Arrive, ReadWindow, OpenWindow, KeepWindow, ResetCounter, Count, Tick
<1>2. Cardinality(Admissions(admitted[c], WindowOf(s))) <= 2 * Limit
    BY <1>1 DEF AnySecondLimit, AdmittedIn
<1>3. CASE admitted'[c] = admitted[c]
    BY <1>2, <1>3
<1>4. ASSUME NEW t \in Threads, Count(t), c = ip[t], ~(requestCounts[c] + 1 > Limit)
      PROVE  Cardinality(Admissions(admitted'[c], WindowOf(s))) <= 2 * Limit
    <2> DEFINE w == timeWindows[c]
    <2>1. /\ WindowOf(s) \in SUBSET Time /\ WindowOf(w) \in SUBSET Time
          /\ SecondBefore(w) \in SUBSET Time
        BY DEF WindowOf, SecondBefore
    <2>2. Inside(t, c) /\ PreHandle(t) /\ pc[t] = "count"
        BY <1>4 DEF Inside, PreHandle, Count
    <2>3. /\ Account(c) /\ now[t] \in Time /\ admitted[c] \in Rows
          /\ w \in Time \union {NoWindow}
        BY <1>1, <2>2, Alone
    <2>4. w \in Time /\ now[t] \in WindowOf(w) /\ timeWindows'[c] = w
        BY <1>4, <2>2, <2>3 DEF LimiterInv, WindowStored, Account, OwnWindow, Count
    <2>5. admitted'[c] = [admitted[c] EXCEPT ![now[t]] = @ + 1]
        BY <1>4, CountRow
    <2>6. admitted'[c] \in Rows
        BY <2>1, <2>3, <2>5, CountOne
    <2>7. /\ \A x \in Time : admitted'[c][x] > 0 => x < w + Window
          /\ Cardinality(Admissions(admitted'[c], WindowOf(w))) <= Limit
          /\ Cardinality(Admissions(admitted'[c], SecondBefore(w))) <= Limit
        BY <2>4, ParameterAssumption DEF LimiterInv, Serial, Counted, AdmittedIn
    <2>8. CASE now[t] \notin WindowOf(s)
        BY <1>2, <2>1, <2>3, <2>5, <2>8, CountOne
    <2>9. CASE now[t] \in WindowOf(s)
        <3>1. \A x \in WindowOf(s) : admitted'[c][x] > 0 => x \in SecondBefore(w) \/ x \in WindowOf(w)
            BY <2>3, <2>4, <2>7, <2>9, ParameterAssumption DEF WindowOf, SecondBefore, Time
        <3> DEFINE X == Cardinality(Admissions(admitted'[c], WindowOf(s)))
                   Y == Cardinality(Admissions(admitted'[c], SecondBefore(w)))
                   Z == Cardinality(Admissions(admitted'[c], WindowOf(w)))
        <3>2. X <= Y + Z
            BY <2>1, <2>6, <3>1, CountSplit
        <3>3. X \in Nat /\ Y \in Nat /\ Z \in Nat
            BY <2>1, <2>6, AdmissionsFinite
        <3>4. Y <= Limit /\ Z <= Limit
            BY <2>7
        <3> HIDE DEF X, Y, Z
        <3>5. X <= 2 * Limit
            BY <3>2, <3>3, <3>4, ParameterAssumption
        <3> QED BY <3>5 DEF X
    <2> QED BY <2>8, <2>9
<1>5. admitted'[c] = admitted[c] \/ \E t \in Threads :
          Count(t) /\ c = ip[t] /\ ~(requestCounts[c] + 1 > Limit)
    <2>1. CASE \E t \in Threads : Count(t)
        <3>1. PICK t \in Threads : Count(t)
            BY <2>1
        <3>2. CASE c = ip[t]
            BY <3>1, <3>2, CountRow
        <3>3. CASE c # ip[t]
            <4>1. admitted'[c] = admitted[c]
                BY <3>1, <3>3 DEF Count, LimiterInv, TypeOK
            <4> QED BY <4>1
        <3> QED BY <3>2, <3>3
    <2>2. CASE ~(\E t \in Threads : Count(t))
        <3>1. admitted' = admitted
            BY <2>2, StepCases DEF Arrive, ReadWindow, OpenWindow, KeepWindow, ResetCounter, Tick
        <3> QED BY <3>1
    <2> QED BY <2>1, <2>2
<1> QED BY <1>3, <1>4, <1>5

\* In no second, wherever it starts, is such a client let through more than
\* twice the limit: a second overlaps two windows at most (preHandle).
THEOREM LimitPerSecond == Spec => []AnySecondLimit
<1>1. Init => AnySecondLimit
    <2> SUFFICES ASSUME Init, NEW c \in Clients, NEW s \in Time
                 PROVE  Cardinality(Admissions(admitted[c], WindowOf(s))) <= 2 * Limit
        BY DEF AnySecondLimit, AdmittedIn
    <2>1. admitted[c] \in Rows /\ \A x \in Time : ~(admitted[c][x] > 0)
        BY DEF Init, Rows
    <2>2. WindowOf(s) \in SUBSET Time
        BY DEF WindowOf
    <2>3. Cardinality(Admissions(admitted[c], WindowOf(s))) = 0
        BY <2>1, <2>2, CountNone
    <2> QED BY <2>3, ParameterAssumption
<1>2. LimiterInv /\ LimiterInv' /\ AnySecondLimit /\ [Next]_vars => AnySecondLimit'
    <2>1. CASE UNCHANGED vars
        BY <2>1 DEF vars, AnySecondLimit, AdmittedIn
    <2> QED BY <2>1, SecondStep
<1> QED BY <1>1, <1>2, LimiterInvariant, PTL DEF Spec

-----------------------------------------------------------------------------
\* The tokens left of a counter that stands at n.
Left(n) == IF n >= Limit THEN 0 ELSE Limit - n

LEMMA TakeOne ==
    ASSUME NEW n \in Nat, ~(n + 1 > Limit)
    PROVE  Left(n) > 0 /\ Left(n + 1) = Left(n) - 1
<1>1. Limit \in Nat /\ n < Limit
    BY ParameterAssumption
<1>2. CASE n + 1 = Limit
    BY <1>1, <1>2 DEF Left
<1>3. CASE n + 1 < Limit
    BY <1>1, <1>3 DEF Left
<1> QED BY <1>1, <1>2, <1>3

LEMMA InitRefines == Init => Batch!Init
BY ParameterAssumption DEF Init, Batch!Init

\* Only a reset and an increment are visible to the batch.
LEMMA StepRefines == LimiterInv /\ [Next]_vars => [Batch!Next]_(Batch!tokenVars)
<1> SUFFICES ASSUME TypeOK, [Next]_vars
             PROVE  Batch!Next \/ UNCHANGED Batch!tokenVars
    BY DEF LimiterInv
<1> USE ParameterAssumption DEF TypeOK
<1>1. ASSUME NEW t \in Threads, NEW c \in Clients, Arrive(t, c)
      PROVE UNCHANGED Batch!tokenVars
    BY <1>1 DEF Arrive, Batch!tokenVars
<1>2. ASSUME NEW t \in Threads, ReadWindow(t) PROVE UNCHANGED Batch!tokenVars
    BY <1>2 DEF ReadWindow, Batch!tokenVars
<1>3. ASSUME NEW t \in Threads, OpenWindow(t) PROVE UNCHANGED Batch!tokenVars
    BY <1>3 DEF OpenWindow, Batch!tokenVars
<1>4. ASSUME NEW t \in Threads, KeepWindow(t) PROVE UNCHANGED Batch!tokenVars
    BY <1>4 DEF KeepWindow, Batch!tokenVars
<1>5. ASSUME NEW t \in Threads, ResetCounter(t) PROVE Batch!Next
    <2>1. PICK c \in Clients : ip[t] = c
        OBVIOUS
    <2>2. requestCounts' = [requestCounts EXCEPT ![c] = 0] /\ UNCHANGED verdict
        BY <1>5, <2>1 DEF ResetCounter
    <2>3. \A d \in Clients : Left(requestCounts'[d]) =
                              IF d = c THEN Limit ELSE Left(requestCounts[d])
        BY <2>2 DEF Left
    <2>4. Batch!Refill(c)
        BY <2>2, <2>3 DEF Batch!Refill, Left
    <2> QED BY <2>4 DEF Batch!Next
<1>6. ASSUME NEW t \in Threads, Count(t) PROVE Batch!Next
    <2>1. PICK c \in Clients : ip[t] = c
        OBVIOUS
    <2>2. requestCounts[c] \in Nat
        OBVIOUS
    <2>3. requestCounts' = [requestCounts EXCEPT ![c] = requestCounts[c] + 1]
        BY <1>6, <2>1 DEF Count
    <2>4. CASE requestCounts[c] + 1 > Limit
        <3>1. Batch!Reject(t, c)
            BY <1>6, <2>1, <2>2, <2>3, <2>4 DEF Count, Batch!Reject
        <3> QED BY <3>1 DEF Batch!Next
    <2>5. CASE ~(requestCounts[c] + 1 > Limit)
        <3>1. verdict' = [verdict EXCEPT ![t] = "admitted"]
            BY <1>6, <2>1, <2>5 DEF Count
        <3>2. \A d \in Clients : Left(requestCounts'[d]) =
                 IF d = c THEN Left(requestCounts[c]) - 1 ELSE Left(requestCounts[d])
            BY <2>2, <2>3, <2>5, TakeOne
        <3>3. Left(requestCounts[c]) > 0
            BY <2>2, <2>5, TakeOne
        <3>4. Batch!Admit(t, c)
            BY <3>1, <3>2, <3>3 DEF Batch!Admit, Left
        <3> QED BY <3>4 DEF Batch!Next
    <2> QED BY <2>4, <2>5
<1>7. CASE Tick
    BY <1>7 DEF Tick, Batch!tokenVars
<1>8. CASE UNCHANGED vars
    BY <1>8 DEF vars, Batch!tokenVars
<1> QED BY <1>1, <1>2, <1>3, <1>4, <1>5, <1>6, <1>7, <1>8, StepCases

\* Whatever the interleaving of the threads and whatever happens to the
\* windows, every counter hands out its admissions as batches of Limit.
THEOREM RefinesTokenBatch == Spec => ImplementsTokenBatch
<1>1. Spec => []LimiterInv
    BY LimiterInvariant
<1> QED BY <1>1, InitRefines, StepRefines, PTL DEF Spec, ImplementsTokenBatch, Batch!Spec
=============================================================================
