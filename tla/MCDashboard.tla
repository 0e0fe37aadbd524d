---------------------------- MODULE MCDashboard -----------------------------
(***************************************************************************)
(* An instance of Dashboard for TLC.                                       *)
(***************************************************************************)
EXTENDS Dashboard, TLC

CONSTANTS a1, a2, r1, r2

\* The route planned last may be the one to drive first.
Dates == [r \in Routes |-> IF r = r1 THEN 1 ELSE 2]
=============================================================================
