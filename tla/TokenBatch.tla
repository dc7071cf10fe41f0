----------------------------- MODULE TokenBatch -----------------------------
(***************************************************************************)
(* What the request counter of the rate limiter promises, with clocks,     *)
(* windows and interleavings left out: every client has a batch of Limit   *)
(* tokens; a thread that serves the client takes one and admits the        *)
(* request, or finds none and rejects it; and now and then the batch is    *)
(* filled up again as a whole.                                             *)
(***************************************************************************)
EXTENDS Integers

CONSTANTS Threads, Clients, Limit

VARIABLES
    tokens,   \* tokens[c]: admissions client c has left
    verdict   \* verdict[t]: what thread t last answered

tokenVars == <<tokens, verdict>>

Init ==
    /\ tokens = [c \in Clients |-> Limit]
    /\ verdict = [t \in Threads |-> "none"]

Admit(t, c) ==
    /\ tokens[c] > 0
    /\ tokens' = [tokens EXCEPT ![c] = tokens[c] - 1]
    /\ verdict' = [verdict EXCEPT ![t] = "admitted"]

Reject(t, c) ==
    /\ tokens[c] = 0
    /\ verdict' = [verdict EXCEPT ![t] = "rejected"]
    /\ UNCHANGED tokens

Refill(c) ==
    /\ tokens' = [tokens EXCEPT ![c] = Limit]
    /\ UNCHANGED verdict

Next == \E c \in Clients : Refill(c) \/ \E t \in Threads : Admit(t, c) \/ Reject(t, c)

Spec == Init /\ [][Next]_tokenVars
=============================================================================
