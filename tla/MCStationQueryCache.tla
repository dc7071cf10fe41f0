------------------------ MODULE MCStationQueryCache ------------------------
(***************************************************************************)
(* Midnight lies between hours 1 and 2.  The flood row is of hour 0, the   *)
(* drought row of hour 1.                                                  *)
(***************************************************************************)
EXTENDS StationQueryCache, TLC

MCDayOf == [h \in 0 .. MaxHour |-> IF h < 2 THEN 0 ELSE 1]

MCRow == {[hour |-> 0, unit |-> "m"], [hour |-> 1, unit |-> "%"]}

Threads == Permutations(Requests)
=============================================================================
