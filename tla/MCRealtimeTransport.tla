------------------------ MODULE MCRealtimeTransport ------------------------
(***************************************************************************)
(* Instances of RealtimeTransport for TLC: two modes, one historical time  *)
(* and one or two rollovers of the hour.                                   *)
(***************************************************************************)
EXTENDS RealtimeTransport
=============================================================================
