------------------------------- MODULE Office -------------------------------
(***************************************************************************)
(* What the pages of the dashboard and the phones of the drivers have in   *)
(* common: the activities and routes of the API, at the grain of one       *)
(* request.  A request is one step here; Dispatch shows what may happen    *)
(* inside it and that planning keeps its promises there.                   *)
(*                                                                         *)
(* An activity awaits assignment, is given to a driver, and becomes final  *)
(* (completed or failed) by the driver's work.                             *)
(***************************************************************************)
EXTENDS Naturals, Sequences, Lifecycle

CONSTANTS
  Activities,   \* activity ids
  Drivers,      \* registered drivers
  Routes,       \* route ids
  PlannedDate,  \* the day each route is planned for
  MaxFaults,    \* bound: answers lost, loads failed, pages reloaded
  None          \* no driver, no request, no notice

ASSUME OfficeAssumption ==
  /\ None \notin Activities \cup Drivers \cup Routes
  /\ PlannedDate \in [Routes -> Nat]
  /\ MaxFaults \in Nat

VARIABLES
  status,    \* activities.status, as far as the pages tell it apart
  holder,    \* driver of the activity's assignment
  route,     \* the route with its stops in sequence
  numbered,  \* history: the numbers the author of the route saw on its stops
  faults

officeVars == <<status, holder, route, numbered>>

Coarse == {"none", "awaiting", "given", "final"}
NoRoute == [status |-> "none", driver |-> None, stops |-> <<>>]

Elements(s) == {s[i] : i \in DOMAIN s}
Distinct(s) == \A i, k \in DOMAIN s : s[i] = s[k] => i = k

OfficeTypeOK ==
  /\ status \in [Activities -> Coarse]
  /\ holder \in [Activities -> Drivers \cup {None}]
  /\ route \in [Routes -> [status : RouteStatus, driver : Drivers \cup {None},
                           stops : Seq(Activities)]]
  /\ numbered \in [Routes -> SUBSET (Nat \X Activities)]
  /\ faults \in 0..MaxFaults

\* Some activities have been created; nothing has been planned.
OfficeInit(created) ==
  /\ status = [a \in Activities |-> IF a \in created THEN "awaiting" ELSE "none"]
  /\ holder = [a \in Activities |-> None]
  /\ route = [r \in Routes |-> NoRoute]
  /\ numbered = [r \in Routes |-> {}]
  /\ faults = 0

\* What the two lists of the API answer to the pages.
Awaiting == {a \in Activities : status[a] = "awaiting"}
RouteStatuses == [r \in Routes |-> route[r].status]

Fault == faults < MaxFaults /\ faults' = faults + 1

-----------------------------------------------------------------------------
(* The requests of the dashboard *)

\* ActivitiesService.create.
CreateActivity(a) ==
  /\ status[a] = "none"
  /\ status' = [status EXCEPT ![a] = "awaiting"]
  /\ UNCHANGED <<holder, route, numbered>>

\* ActivitiesService.assign refuses an activity that no longer waits.
MayAssign(a) == status[a] = "awaiting"

GiveTo(d, activities) ==
  /\ status' = [a \in Activities |-> IF a \in activities THEN "given" ELSE status[a]]
  /\ holder' = [a \in Activities |-> IF a \in activities THEN d ELSE holder[a]]

AssignActivity(a, d) ==
  /\ GiveTo(d, {a})
  /\ UNCHANGED <<route, numbered>>

\* Looks at the list only, not at the activities (mutant of MayCreate).
MayCreateUnseen(stops) == Distinct(stops)

\* RoutesService.create refuses a list with duplicates or with an activity
\* that no longer waits, whatever the page believes.
MayCreate(stops) == Distinct(stops) /\ Elements(stops) \subseteq Awaiting

\* The stops take their sequence from their place in the request.
CreateRoute(r, d, stops, numbers) ==
  /\ route[r].status = "none"
  /\ route' = [route EXCEPT ![r] = [status |-> "planned", driver |-> d, stops |-> stops]]
  /\ numbered' = [numbered EXCEPT ![r] = numbers]
  /\ GiveTo(d, Elements(stops))

Target == [publish |-> "published", start |-> "in_progress", complete |-> "completed"]
Expected == [publish |-> "planned", start |-> "published", complete |-> "in_progress"]

\* transition refuses a route that is not in the expected status, and to end
\* one with a stop that is not final.
Transits(r, op) ==
  /\ route[r].status = Expected[op]
  /\ op = "complete" => \A a \in Elements(route[r].stops) : status[a] = "final"

\* A route somebody else has already moved there is answered as a success.
MayTransit(r, op) == route[r].status = Target[op] \/ Transits(r, op)

Transit(r, op) ==
  /\ route' = [route EXCEPT ![r].status = Target[op]]
  /\ UNCHANGED <<status, holder, numbered>>

-----------------------------------------------------------------------------
(* The drivers *)

Visible(d) == {r \in Routes : route[r].driver = d
                              /\ route[r].status \in {"published", "in_progress"}}

\* assignedActivities, the list the API gives the driver's phone: the stops, in
\* sequence, of his first route published or in progress, and of no other.
\* (The phone shows them by updated_at and id, sqliteLocalStore.ts:25.)
Assigned(d) ==
  {route[r].stops : r \in {v \in Visible(d) :
                             \A w \in Visible(d) : PlannedDate[v] <= PlannedDate[w]}}

\* The driver takes an activity of that list to its end.
Work(d, a) ==
  /\ \E list \in Assigned(d) : a \in Elements(list)
  /\ status[a] = "given"
  /\ status' = [status EXCEPT ![a] = "final"]
  /\ UNCHANGED <<holder, route, numbered>>

-----------------------------------------------------------------------------
(* Somebody else at another dashboard, or the phone starting and ending routes *)

OthersTransit(r, op) == Transits(r, op) /\ Transit(r, op)

OthersAssign(a, d) == MayAssign(a) /\ AssignActivity(a, d)
=============================================================================
