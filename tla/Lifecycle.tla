------------------------------ MODULE Lifecycle ------------------------------
(***************************************************************************)
(* The statuses of activities, routes and journeys, and the device         *)
(* commands that move an activity: what the API and the mobile app share.  *)
(***************************************************************************)

\* The statuses the code writes, of the thirteen of the schema.
ActivityStatus == {"none", "AWAITING_ASSIGNMENT", "ASSIGNED", "ACCEPTED",
                   "EN_ROUTE", "ON_SITE", "IN_SERVICE", "COMPLETED", "FAILED"}

RouteStatus == {"none", "planned", "published", "in_progress", "completed"}
JourneyStatus == {"none", "active", "completed"}

\* The statuses with which routes.transition and finish_route let a route end.
Final == {"COMPLETED", "FAILED"}

\* The device commands that move an activity one step, with both ends.
Transition == [accept_activity |-> <<"ASSIGNED", "ACCEPTED">>,
               depart_activity |-> <<"ACCEPTED", "EN_ROUTE">>,
               arrive          |-> <<"EN_ROUTE", "ON_SITE">>,
               start_service   |-> <<"ON_SITE", "IN_SERVICE">>]

TransitionOps == {"accept_activity", "depart_activity", "arrive", "start_service"}

\* The statuses from which fail_activity is allowed.
FailureAllowed == {"ASSIGNED", "ACCEPTED", "EN_ROUTE", "ON_SITE", "IN_SERVICE"}
=============================================================================
