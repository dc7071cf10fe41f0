---------------------------- MODULE MCRateLimiter ----------------------------
(***************************************************************************)
(* The instance of RateLimiter for TLC: two threads that serve two clients,*)
(* over more than one window, the requests of a client overlapping or not. *)
(***************************************************************************)
EXTENDS RateLimiter
=============================================================================
