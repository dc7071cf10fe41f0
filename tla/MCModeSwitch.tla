----------------------------- MODULE MCModeSwitch -----------------------------
(***************************************************************************)
(* Instances of ModeSwitch for TLC: the two modes of the page.  Patience   *)
(* and OrderedHttp make the difference between the runs: who clicks        *)
(* whenever, and who waits.                                                *)
(***************************************************************************)
EXTENDS ModeSwitch
=============================================================================
