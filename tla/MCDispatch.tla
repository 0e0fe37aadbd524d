---------------------------- MODULE MCDispatch ------------------------------
(***************************************************************************)
(* An instance of Dispatch for TLC.  Requests, drivers, routes, journeys   *)
(* and activities of the same kind are interchangeable: no definition      *)
(* names one of them or orders them.                                       *)
(***************************************************************************)
EXTENDS Dispatch, TLC

Symmetry == Permutations(Handlers) \cup Permutations(Drivers)
            \cup Permutations(Journeys) \cup Permutations(Routes)
            \cup Permutations(Activities)
=============================================================================
