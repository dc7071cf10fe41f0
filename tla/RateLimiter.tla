---------------------------- MODULE RateLimiter ----------------------------
(***************************************************************************)
(* RateLimitInterceptor.preHandle as the threads of the server execute it. *)
(* Each access to the two shared maps, and each operation on a counter,    *)
(* is one atomic step; other threads, and time, may pass between any two.  *)
(*                                                                         *)
(* Time counts ticks of System.nanoTime().  A counter that is absent from  *)
(* requestCounts is created as 0 before its first use, so 0 stands for it. *)
(***************************************************************************)
EXTENDS Integers, FiniteSets

CONSTANTS
    Threads,
    Clients,      \* remote addresses
    Limit,        \* MAX_REQUESTS_PER_SECOND
    Window,       \* WINDOW_NANOS, in ticks
    MaxTime,      \* bound: last tick
    MaxArrivals,  \* bound: requests over a whole behaviour
    NoWindow      \* no windowStart stored for a client

Time == 0 .. MaxTime

ASSUME ParameterAssumption ==
    /\ Limit \in Nat \ {0}
    /\ Window \in Nat \ {0}
    /\ MaxTime \in Nat
    /\ MaxArrivals \in Nat
    /\ NoWindow \notin Time

VARIABLES
    clock,          \* System.nanoTime()
    timeWindows,    \* start of the current window of each client
    requestCounts,  \* the client's AtomicInteger
    pc,             \* where each thread is in preHandle
    ip,             \* its local variables ip, now and windowStart
    now,
    windowStart,
    arrivals,       \* requests received so far (bound only)
    admitted,       \* admitted[c][t]: requests of c read at tick t let through
    raced,          \* history: clients with two requests inside preHandle at once
    verdict         \* what each thread last returned

vars == <<clock, timeWindows, requestCounts, pc, ip, now, windowStart,
          arrivals, admitted, raced, verdict>>

Steps == {"idle", "window", "check", "reset", "count"}

TypeOK ==
    /\ clock \in Time
    /\ timeWindows \in [Clients -> Time \union {NoWindow}]
    /\ requestCounts \in [Clients -> Nat]
    /\ pc \in [Threads -> Steps]
    /\ ip \in [Threads -> Clients]
    /\ now \in [Threads -> Time]
    /\ windowStart \in [Threads -> Time]
    /\ arrivals \in Nat
    /\ admitted \in [Clients -> [Time -> Nat]]
    /\ raced \subseteq Clients
    /\ verdict \in [Threads -> {"none", "admitted", "rejected"}]

Init ==
    /\ clock = 0
    /\ timeWindows = [c \in Clients |-> NoWindow]
    /\ requestCounts = [c \in Clients |-> 0]
    /\ pc = [t \in Threads |-> "idle"]
    /\ ip \in {[t \in Threads |-> c] : c \in Clients}
    /\ now = [t \in Threads |-> 0]
    /\ windowStart = [t \in Threads |-> 0]
    /\ arrivals = 0
    /\ admitted = [c \in Clients |-> [s \in Time |-> 0]]
    /\ raced = {}
    /\ verdict = [t \in Threads |-> "none"]

-----------------------------------------------------------------------------
\* A request of client c arrives and the clock is read for it.
Arrive(t, c) ==
    /\ pc[t] = "idle"
    /\ arrivals < MaxArrivals
    /\ arrivals' = arrivals + 1
    /\ raced' = IF \E u \in Threads : pc[u] # "idle" /\ ip[u] = c
                   THEN raced \union {c} ELSE raced
    /\ ip' = [ip EXCEPT ![t] = c]
    /\ now' = [now EXCEPT ![t] = clock]
    /\ pc' = [pc EXCEPT ![t] = "window"]
    /\ UNCHANGED <<clock, timeWindows, requestCounts, windowStart, admitted, verdict>>

\* Fault: getOrDefault, which does not store the window it makes up.
ReadWindowOnly(t) ==
    LET c == ip[t] IN
    /\ pc[t] = "window"
    /\ windowStart' = [windowStart EXCEPT
           ![t] = IF timeWindows[c] = NoWindow THEN now[t] ELSE timeWindows[c]]
    /\ pc' = [pc EXCEPT ![t] = "check"]
    /\ UNCHANGED <<clock, timeWindows, requestCounts, ip, now, arrivals, admitted, raced,
                   verdict>>

\* timeWindows.computeIfAbsent(ip, k -> now)
ReadWindow(t) ==
    LET c     == ip[t]
        start == IF timeWindows[c] = NoWindow THEN now[t] ELSE timeWindows[c]
    IN
    /\ pc[t] = "window"
    /\ timeWindows' = [timeWindows EXCEPT ![c] = start]
    /\ windowStart' = [windowStart EXCEPT ![t] = start]
    /\ pc' = [pc EXCEPT ![t] = "check"]
    /\ UNCHANGED <<clock, requestCounts, ip, now, arrivals, admitted, raced, verdict>>

\* Fault: the division that turns nanoseconds into half seconds.
OutsideHalf(t) ==
    \/ now[t] < windowStart[t]
    \/ now[t] - windowStart[t] >= Window \div 2

\* The window the thread has read does not contain the thread's time.
Outside(t) ==
    \/ now[t] < windowStart[t]
    \/ now[t] - windowStart[t] >= Window

\* timeWindows.put(ip, now): the thread opens a new window.
OpenWindow(t) ==
    /\ pc[t] = "check"
    /\ Outside(t)
    /\ timeWindows' = [timeWindows EXCEPT ![ip[t]] = now[t]]
    /\ pc' = [pc EXCEPT ![t] = "reset"]
    /\ UNCHANGED <<clock, requestCounts, ip, now, windowStart, arrivals, admitted, raced,
                   verdict>>

KeepWindow(t) ==
    /\ pc[t] = "check"
    /\ ~Outside(t)
    /\ pc' = [pc EXCEPT ![t] = "count"]
    /\ UNCHANGED <<clock, timeWindows, requestCounts, ip, now, windowStart,
                   arrivals, admitted, raced, verdict>>

\* counter.set(0)
ResetCounter(t) ==
    /\ pc[t] = "reset"
    /\ requestCounts' = [requestCounts EXCEPT ![ip[t]] = 0]
    /\ pc' = [pc EXCEPT ![t] = "count"]
    /\ UNCHANGED <<clock, timeWindows, ip, now, windowStart, arrivals, admitted, raced, verdict>>

\* Fault: getAndIncrement, which lets one request too many through.
CountBefore(t) ==
    LET c == ip[t] IN
    /\ pc[t] = "count"
    /\ requestCounts' = [requestCounts EXCEPT ![c] = @ + 1]
    /\ verdict' = [verdict EXCEPT
           ![t] = IF requestCounts[c] > Limit THEN "rejected" ELSE "admitted"]
    /\ admitted' = [admitted EXCEPT
           ![c][now[t]] = IF requestCounts[c] > Limit THEN @ ELSE @ + 1]
    /\ pc' = [pc EXCEPT ![t] = "idle"]
    /\ UNCHANGED <<clock, timeWindows, ip, now, windowStart, arrivals, raced>>

\* counter.incrementAndGet(), and the verdict on its value.
Count(t) ==
    LET c == ip[t]
        n == requestCounts[c] + 1
    IN
    /\ pc[t] = "count"
    /\ requestCounts' = [requestCounts EXCEPT ![c] = n]
    /\ IF n > Limit
          THEN /\ verdict' = [verdict EXCEPT ![t] = "rejected"]
               /\ UNCHANGED admitted
          ELSE /\ verdict' = [verdict EXCEPT ![t] = "admitted"]
               /\ admitted' = [admitted EXCEPT ![c][now[t]] = @ + 1]
    /\ pc' = [pc EXCEPT ![t] = "idle"]
    /\ UNCHANGED <<clock, timeWindows, ip, now, windowStart, arrivals, raced>>

Tick ==
    /\ clock < MaxTime
    /\ clock' = clock + 1
    /\ UNCHANGED <<timeWindows, requestCounts, pc, ip, now, windowStart,
                   arrivals, admitted, raced, verdict>>

PreHandle(t) ==
    \/ ReadWindow(t)
    \/ OpenWindow(t) \/ KeepWindow(t)
    \/ ResetCounter(t)
    \/ Count(t)

Next ==
    \/ \E t \in Threads : (\E c \in Clients : Arrive(t, c)) \/ PreHandle(t)
    \/ Tick

Spec == Init /\ [][Next]_vars

-----------------------------------------------------------------------------
\* The times a stored window start covers.
WindowOf(s) == {x \in Time : s <= x /\ x < s + Window}

SecondBefore(s) == {x \in Time : s - Window <= x /\ x < s}

\* How many requests of c with a time in the set S were admitted: the n-th one
\* of time s counts as <<s, n>>.
Admissions(row, S) == UNION {{s} \X (1 .. row[s]) : s \in S}
AdmittedIn(c, S) == Cardinality(Admissions(admitted[c], S))

\* The limit as MAX_REQUESTS_PER_SECOND states it: in the current window of a
\* client no more than Limit requests were admitted.  It holds for a client whose
\* requests never overlap, whatever other clients do; two threads that both find
\* a window expired reset the counter twice, the second time after the first has
\* counted.
WindowLimit == \A c \in Clients \ raced : timeWindows[c] # NoWindow =>
    AdmittedIn(c, WindowOf(timeWindows[c])) <= Limit

\* A limit per window is not a limit per second: a second can overlap two
\* windows, and for requests that never overlap never three, since windows do
\* not overlap and none is shorter than a second.
AnySecondLimit == \A c \in Clients \ raced, s \in Time :
    AdmittedIn(c, WindowOf(s)) <= 2 * Limit

\* A stored or read window never starts later than the clock, and a thread's
\* own time lies in the past: "now < windowStart" can only mean that another
\* thread opened a window while this one was delayed.
WindowsInPast ==
    /\ \A c \in Clients : timeWindows[c] # NoWindow => timeWindows[c] <= clock
    /\ \A t \in Threads : now[t] <= clock /\ windowStart[t] <= clock

\* A thread that has read a window finds one stored.
WindowStored == \A t \in Threads :
    pc[t] \notin {"idle", "window"} => timeWindows[ip[t]] # NoWindow

\* A client whose requests never overlap: one thread at most is inside
\* preHandle for it, and the window that thread goes by is the stored one.
Inside(t, c) == pc[t] # "idle" /\ ip[t] = c

OneInside == \A c \in Clients \ raced, t, u \in Threads :
    Inside(t, c) /\ Inside(u, c) => t = u

OwnWindow(c) == \A t \in Threads : Inside(t, c) =>
    /\ timeWindows[c] # NoWindow => timeWindows[c] <= now[t]
    /\ pc[t] = "check" => windowStart[t] = timeWindows[c]
    /\ pc[t] = "reset" => timeWindows[c] = now[t] /\ AdmittedIn(c, WindowOf(now[t])) = 0
    /\ pc[t] = "count" => now[t] \in WindowOf(timeWindows[c])

\* Nothing was admitted after its window; a window admits no more than Limit and
\* than its counter says, unless the counter is about to be reset; and no more
\* than Limit were admitted in the second before it.
Counted(c) ==
    /\ \A s \in Time : admitted[c][s] > 0 =>
           timeWindows[c] # NoWindow /\ s < timeWindows[c] + Window
    /\ timeWindows[c] # NoWindow =>
           /\ AdmittedIn(c, WindowOf(timeWindows[c])) <= Limit
           /\ \/ AdmittedIn(c, WindowOf(timeWindows[c])) <= requestCounts[c]
              \/ \E t \in Threads : Inside(t, c) /\ pc[t] = "reset"
           /\ AdmittedIn(c, SecondBefore(timeWindows[c])) <= Limit

Serial == \A c \in Clients \ raced : OwnWindow(c) /\ Counted(c)

\* The inductive invariant: types, windows opened in the past, a stored window
\* for every thread past computeIfAbsent, and the accounts of the clients whose
\* requests never overlap.
LimiterInv == TypeOK /\ WindowsInPast /\ WindowStored /\ OneInside /\ Serial

\* Whatever the interleaving, each counter hands out its admissions as a
\* batch of Limit tokens: no increment is lost between two resets.
Batch == INSTANCE TokenBatch WITH
    tokens <- [c \in Clients |->
                 IF requestCounts[c] >= Limit THEN 0 ELSE Limit - requestCounts[c]]

ImplementsTokenBatch == Batch!Spec
=============================================================================
