----------------------------- MODULE Ownership ------------------------------
(***************************************************************************)
(* What planning promises, without requests, transactions or statuses: an  *)
(* activity is given to one driver, once and for good, either directly or  *)
(* as a stop of a route; a route takes all of its stops or none, and every *)
(* stop belongs to the route's driver.                                     *)
(***************************************************************************)
CONSTANTS Activities, Drivers, Routes, None

VARIABLES
  owner,  \* the driver each activity belongs to, or None
  plan    \* the driver and the stops of each planned route, or None

Init ==
  /\ owner = [a \in Activities |-> None]
  /\ plan = [r \in Routes |-> None]

Free(activities) == \A a \in activities : owner[a] = None

Give(d, activities) ==
  /\ Free(activities)
  /\ owner' = [a \in Activities |-> IF a \in activities THEN d ELSE owner[a]]

\* A dispatcher gives one activity to a driver.
AssignDirectly(a, d) ==
  /\ Give(d, {a})
  /\ UNCHANGED plan

\* A dispatcher plans a route.
PlanRoute(r, d, activities) ==
  /\ plan[r] = None
  /\ Give(d, activities)
  /\ plan' = [plan EXCEPT ![r] = [driver |-> d, stops |-> activities]]

Next ==
  \/ \E a \in Activities, d \in Drivers : AssignDirectly(a, d)
  \/ \E r \in Routes, d \in Drivers, activities \in SUBSET Activities :
       PlanRoute(r, d, activities)

Spec == Init /\ [][Next]_<<owner, plan>>
=============================================================================
