------------------------------ MODULE MCMapView ------------------------------
(***************************************************************************)
(* Instances of MapView for TLC.  The stations of a run are                *)
(* interchangeable.                                                        *)
(***************************************************************************)
EXTENDS MapView, TLC

StationSymmetry == Permutations(Stations)
=============================================================================
