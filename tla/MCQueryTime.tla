----------------------------- MODULE MCQueryTime -----------------------------
(***************************************************************************)
(* A year of two months of two days and one, or of two and two in a leap   *)
(* year, and days of two hours; 2028 is a leap year.  The page is opened   *)
(* in the last hour of 2027.  One range ends before that, the other runs   *)
(* into 2028.                                                              *)
(***************************************************************************)
EXTENDS QueryTime

Time(y, m, d, h) == [year |-> y, month |-> m, day |-> d, hour |-> h]

MCCommonYear == <<2, 1>>
MCLeapYear   == <<2, 2>>
MCStart      == Time(2027, 2, 1, 1)

MCRanges == {[min |-> Time(2027, 1, 2, 0), max |-> Time(2027, 2, 1, 0)],
             [min |-> Time(2026, 2, 1, 0), max |-> Time(2028, 2, 2, 0)]}
=============================================================================
