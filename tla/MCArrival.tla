------------------------------ MODULE MCArrival ------------------------------
(***************************************************************************)
(* An instance of Arrival for TLC: with Radius 3 and Tolerance 1, a place  *)
(* inside and one that only a known accuracy brings inside; with           *)
(* MaxAccuracy 2, a reading without accuracy and one of an invalid and of  *)
(* a coarse accuracy; a clock set back by more than MaxAge.                *)
(***************************************************************************)
EXTENDS Arrival

Places == {3, 4}
ReportedAccuracies == {None, -1, 3}
ClockOffsets == {-2, 0}
=============================================================================
