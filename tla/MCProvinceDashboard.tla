------------------------- MODULE MCProvinceDashboard -------------------------
(***************************************************************************)
(* The instance of ProvinceDashboard for TLC: a province with rows for     *)
(* everything, one that lacks a station type, a line and any project, and  *)
(* one with no stations and projects that are all 0.  The levels are 0, a  *)
(* level whose padded scale is rounded up to 10, and one just above that.  *)
(***************************************************************************)
EXTENDS ProvinceDashboard, TLC

CONSTANTS p1, p2, p3, t1, t2, s1, s2

MCDistricts  == <<p1, p2, p3>>
MCTypesOf    == p1 :> {t1, t2} @@ p2 :> {t1} @@ p3 :> {}
MCSeriesOf   == p1 :> {s1, s2} @@ p2 :> {s1} @@ p3 :> {s1, s2}
MCProjectsOf == p1 :> "some" @@ p2 :> "none" @@ p3 :> "zero"
MCWorstOf    == p1 :> 0 @@ p2 :> 799 @@ p3 :> 801
=============================================================================
