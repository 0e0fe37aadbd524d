---------------------------- MODULE MCDeviceSync ----------------------------
(***************************************************************************)
(* An instance of DeviceSync for TLC.  There is no symmetry set: the runs  *)
(* check liveness, and commands and points are ordered.                    *)
(***************************************************************************)
EXTENDS DeviceSync

\* Enough of the commands for a whole journey: it starts, its activity is
\* failed (a final status, so that the route may end), it ends.
JourneyOperations == {"start_route", "fail_activity", "finish_route"}

\* An arrival may be refused, and the route is ended too early.
ConflictingOperations == {"start_route", "arrive", "finish_route"}
=============================================================================
