------------------------------ MODULE Dispatch ------------------------------
(***************************************************************************)
(* The operational database of NAP Log and the request handlers that write *)
(* it: activities (activities.service.ts), routes (routes.service.ts), the *)
(* transactions of the mobile commands (mobile.service.ts) and the         *)
(* completion of an activity (evidence.service.ts).                        *)
(*                                                                         *)
(* Every handler follows one scheme: it reads rows, returns early when     *)
(* what it read does not allow the operation, and only then writes.        *)
(* PostgreSQL runs the transactions at READ COMMITTED, so other handlers   *)
(* commit between the reads and the writes.  A handler is therefore two    *)
(* steps (three when it reads twice):                                      *)
(*   - Read...: the reads with their early returns.  A handler that        *)
(*     returns early writes nothing, so only those that pass their checks  *)
(*     appear: `pending[h]' is what handler h has decided to write.        *)
(*   - a commit step: the writes, visible to others only at the commit,    *)
(*     whose rows stay locked until then.  What the database re-evaluates  *)
(*     at that moment (the WHERE of a conditional updateMany, a unique     *)
(*     index) is a guard of the step or a choice in it; what it does not   *)
(*     (an update by primary key) overwrites whatever is there.            *)
(* Abort ends a handler without its writes: the process dies, the          *)
(* transaction times out, an index rejects a row, a conditional update     *)
(* matches no row.                                                         *)
(***************************************************************************)
EXTENDS Naturals, Sequences, Lifecycle

CONSTANTS
  Activities,  \* activity ids
  Drivers,     \* registered drivers
  Routes,      \* route ids available to routes.create
  Journeys,    \* journey ids available to the two ways of starting a route
  Handlers,    \* requests the API can be serving at once
  Operations,  \* the operations clients call in an instance
  MaxProofs,   \* bound: proof versions an activity may reach
  None         \* no handler work, no driver, no route

ASSUME DispatchAssumption ==
  /\ None \notin Activities \cup Drivers \cup Routes \cup Journeys
  /\ MaxProofs \in Nat

-----------------------------------------------------------------------------
(* Types *)

\* The operations on a whole route: three of the dashboard, two of the device.
RouteOps == {"publish", "start", "complete", "start_route", "finish_route"}

\* What the dashboard calls, and what a device sends.
OfficeOps == {"create", "assign", "plan", "publish", "start", "complete"}
DeviceOps == TransitionOps \cup {"fail_activity", "start_route", "finish_route"}

AllOperations == OfficeOps \cup DeviceOps \cup {"finish"}

\* What a handler has decided to write after its reads.  "finishing" is
\* completeActivity between its read of the activity and its read of the
\* latest proof; "finish" is completeActivity with the version it computed.
PendingWrite ==
  [op : {"assign"}, activity : Activities, driver : Drivers]
  \cup [op : {"plan"}, driver : Drivers, stops : SUBSET Activities]
  \cup [op : RouteOps, route : Routes]
  \cup [op : TransitionOps \cup {"fail_activity", "finishing"}, activity : Activities]
  \cup [op : {"finish"}, activity : Activities, version : Nat]

-----------------------------------------------------------------------------

VARIABLES
  status,       \* activities.status
  assigned,     \* drivers of the activity's assignments with ended_at NULL
  routeStatus,  \* routes.status
  routeDriver,  \* routes.driver_id
  stops,        \* activities of the route's stops
  journey,      \* journeys.status
  opener,       \* history: the route whose start inserted the journey
  proofs,       \* versions of the activity's proofs, in insertion order
  pending       \* what each handler is about to write

dbVars == <<status, assigned, routeStatus, routeDriver, stops, journey, opener, proofs>>
vars == <<dbVars, pending>>

TypeOK ==
  /\ status \in [Activities -> ActivityStatus]
  /\ assigned \in [Activities -> SUBSET Drivers]
  /\ routeStatus \in [Routes -> RouteStatus]
  /\ routeDriver \in [Routes -> Drivers \cup {None}]
  /\ stops \in [Routes -> SUBSET Activities]
  /\ journey \in [Journeys -> JourneyStatus]
  /\ opener \in [Journeys -> Routes \cup {None}]
  /\ proofs \in [Activities -> Seq(Nat)]
  /\ pending \in [Handlers -> PendingWrite \cup {None}]

Init ==
  /\ status = [a \in Activities |-> "none"]
  /\ assigned = [a \in Activities |-> {}]
  /\ routeStatus = [r \in Routes |-> "none"]
  /\ routeDriver = [r \in Routes |-> None]
  /\ stops = [r \in Routes |-> {}]
  /\ journey = [j \in Journeys |-> "none"]
  /\ opener = [j \in Journeys |-> None]
  /\ proofs = [a \in Activities |-> <<>>]
  /\ pending = [h \in Handlers |-> None]

-----------------------------------------------------------------------------
(* Handler steps *)

\* A handler that passed its checks keeps what it is going to write.
Decide(h, write) ==
  /\ pending[h] = None
  /\ write.op \in Operations
  /\ pending' = [pending EXCEPT ![h] = write]
  /\ UNCHANGED dbVars

Done(h) == pending' = [pending EXCEPT ![h] = None]

\* Handler h is about to perform one of the operations ops.
About(h, ops) == pending[h] # None /\ pending[h].op \in ops

\* The request ends without its writes.
Abort(h) ==
  /\ pending[h] # None
  /\ Done(h)
  /\ UNCHANGED dbVars

-----------------------------------------------------------------------------
(* Activities *)

\* ActivitiesService.create: a single insert, with the status the schema
\* gives by default.
Create(a) ==
  /\ "create" \in Operations
  /\ status[a] = "none"
  /\ status' = [status EXCEPT ![a] = "AWAITING_ASSIGNMENT"]
  /\ UNCHANGED <<assigned, routeStatus, routeDriver, stops, journey, opener,
                 proofs, pending>>

\* ActivitiesService.assign reads the activity outside the transaction of save.
ReadAssign(h, a, d) ==
  /\ status[a] = "AWAITING_ASSIGNMENT"
  /\ Decide(h, [op |-> "assign", activity |-> a, driver |-> d])

\* A schema without the index assignments_one_active (mutant of Unassigned).
UnassignedUnchecked(activities) == TRUE

\* The partial unique index assignments_one_active: no active assignment yet.
Unassigned(activities) == \A a \in activities : assigned[a] = {}

\* Gives the activities to the driver: assignment row and ASSIGNED.
GiveTo(d, activities) ==
  /\ Unassigned(activities)
  /\ status' = [a \in Activities |-> IF a \in activities THEN "ASSIGNED" ELSE status[a]]
  /\ assigned' = [a \in Activities |->
                    IF a \in activities THEN assigned[a] \cup {d} ELSE assigned[a]]

\* PrismaActivityRepository.save: the update is by primary key, only the
\* index on assignments can refuse.
Assign(h) ==
  /\ About(h, {"assign"})
  /\ GiveTo(pending[h].driver, {pending[h].activity})
  /\ Done(h)
  /\ UNCHANGED <<routeStatus, routeDriver, stops, journey, opener, proofs>>

-----------------------------------------------------------------------------
(* Routes *)

\* RoutesService.create: every activity must be awaiting assignment when read.
ReadPlan(h, d, activities) ==
  /\ activities # {}
  /\ \A a \in activities : status[a] = "AWAITING_ASSIGNMENT"
  /\ Decide(h, [op |-> "plan", driver |-> d, stops |-> activities])

\* Route, stops, one assignment and one status update per stop, all or none.
Plan(h, r) ==
  /\ About(h, {"plan"})
  /\ routeStatus[r] = "none"
  /\ GiveTo(pending[h].driver, pending[h].stops)
  /\ routeStatus' = [routeStatus EXCEPT ![r] = "planned"]
  /\ routeDriver' = [routeDriver EXCEPT ![r] = pending[h].driver]
  /\ stops' = [stops EXCEPT ![r] = pending[h].stops]
  /\ Done(h)
  /\ UNCHANGED <<journey, opener, proofs>>

\* The status a route must have for the operation.
Expected(op) ==
  CASE op = "publish" -> "planned"
    [] op \in {"start", "start_route"} -> "published"
    [] OTHER -> "in_progress"

AllFinal(r) == \A a \in stops[r] : status[a] \in Final

\* RoutesService.transition and the route commands of the device read the
\* route with its stops; ending one requires every stop to be final.  A route
\* already in the target status is answered without a write, so is not here.
ReadRoute(h, op, r) ==
  /\ routeStatus[r] = Expected(op)
  /\ op \in {"complete", "finish_route"} => AllFinal(r)
  /\ Decide(h, [op |-> op, route |-> r])

\* An update by primary key instead of the conditional one (mutant of Move).
MoveUnchecked(r, from, to) == routeStatus' = [routeStatus EXCEPT ![r] = to]

\* updateMany where status = expected, then count !== 1 ends the request.
Move(r, from, to) ==
  /\ routeStatus[r] = from
  /\ routeStatus' = [routeStatus EXCEPT ![r] = to]

Publish(h) ==
  /\ About(h, {"publish"})
  /\ Move(pending[h].route, "planned", "published")
  /\ Done(h)
  /\ UNCHANGED <<status, assigned, routeDriver, stops, journey, opener, proofs>>

\* Both ways of starting a route: the conditional update, a new journey, and
\* the stops still assigned or accepted go en route.
Start(h, j) ==
  /\ About(h, {"start", "start_route"})
  /\ LET r == pending[h].route
         departing == {a \in stops[r] : status[a] \in {"ASSIGNED", "ACCEPTED"}}
     IN /\ Move(r, "published", "in_progress")
        /\ journey[j] = "none"
        /\ journey' = [journey EXCEPT ![j] = "active"]
        /\ opener' = [opener EXCEPT ![j] = r]
        /\ status' = [a \in Activities |->
                        IF a \in departing THEN "EN_ROUTE" ELSE status[a]]
  /\ Done(h)
  /\ UNCHANGED <<assigned, routeDriver, stops, proofs>>

\* Ends the first active journey found, not all of them (mutant of CloseJourneys).
CloseFirst(d) ==
  \E j \in Journeys :
    /\ journey[j] = "active" /\ routeDriver[opener[j]] = d
    /\ journey' = [journey EXCEPT ![j] = "completed"]

\* Ends the journeys of every driver (mutant of CloseJourneys).
CloseAll(d) ==
  journey' = [j \in Journeys |-> IF journey[j] = "active" THEN "completed" ELSE journey[j]]

\* journey.updateMany: every active journey of the driver ends, whichever
\* route opened it.
CloseJourneys(d) ==
  journey' = [j \in Journeys |->
                IF journey[j] = "active" /\ routeDriver[opener[j]] = d
                  THEN "completed" ELSE journey[j]]

\* RoutesService.transition to completed.
Complete(h) ==
  /\ About(h, {"complete"})
  /\ Move(pending[h].route, "in_progress", "completed")
  /\ CloseJourneys(routeDriver[pending[h].route])
  /\ Done(h)
  /\ UNCHANGED <<status, assigned, routeDriver, stops, opener, proofs>>

\* finish_route does not look at the count of its conditional update: the
\* journeys end even when the route was no longer in progress.
FinishRoute(h) ==
  /\ About(h, {"finish_route"})
  /\ LET r == pending[h].route
     IN /\ \/ Move(r, "in_progress", "completed")
           \/ routeStatus[r] # "in_progress" /\ UNCHANGED routeStatus
        /\ CloseJourneys(routeDriver[r])
  /\ Done(h)
  /\ UNCHANGED <<status, assigned, routeDriver, stops, opener, proofs>>

-----------------------------------------------------------------------------
(* The activity in the field *)

\* The device commands that move an activity: the current status must be the
\* expected one (the target already reached is answered without a write).
ReadCommand(h, op, a) ==
  /\ status[a] = Transition[op][1]
  /\ Decide(h, [op |-> op, activity |-> a])

ReadFail(h, a) ==
  /\ status[a] \in FailureAllowed
  /\ Decide(h, [op |-> "fail_activity", activity |-> a])

\* Writes a status of the schema that nothing else knows (mutant of Target).
TargetArrived(op) == IF op = "arrive" THEN "ARRIVED"
                     ELSE IF op = "fail_activity" THEN "FAILED" ELSE Transition[op][2]

\* What the command in hand writes.
Target(op) == IF op = "fail_activity" THEN "FAILED" ELSE Transition[op][2]

\* activity.update by primary key, whatever the status has become.
Command(h) ==
  /\ About(h, TransitionOps \cup {"fail_activity"})
  /\ status' = [status EXCEPT ![pending[h].activity] = Target(pending[h].op)]
  /\ Done(h)
  /\ UNCHANGED <<assigned, routeStatus, routeDriver, stops, journey, opener, proofs>>

\* completeActivity, first statement: the activity must be on site or in
\* service.
ReadFinish(h, a) ==
  /\ "finish" \in Operations
  /\ pending[h] = None
  /\ status[a] \in {"ON_SITE", "IN_SERVICE"}
  /\ pending' = [pending EXCEPT ![h] = [op |-> "finishing", activity |-> a]]
  /\ UNCHANGED dbVars

\* The highest version among the activity's proofs, 0 without one.
Latest(a) ==
  CHOOSE v \in {0} \cup {proofs[a][i] : i \in DOMAIN proofs[a]} :
    \A i \in DOMAIN proofs[a] : proofs[a][i] <= v

\* Second statement: the latest proof, from which the new version is computed.
\* Whether the required evidence is confirmed is the environment's choice here.
ReadProof(h) ==
  /\ About(h, {"finishing"})
  /\ LET a == pending[h].activity
     IN /\ Len(proofs[a]) < MaxProofs
        /\ pending' = [pending EXCEPT ![h] =
                         [op |-> "finish", activity |-> a,
                          version |-> Latest(a) + 1]]
  /\ UNCHANGED dbVars

\* Receivers and proofs without their unique indexes (mutant of VersionFree).
VersionUnchecked(a, v) == TRUE

\* The unique index on (activity, version) of receivers and proofs.
VersionFree(a, v) == \A i \in DOMAIN proofs[a] : proofs[a][i] # v

\* Receiver, proof, outbox event and COMPLETED in one transaction.
Finish(h) ==
  /\ About(h, {"finish"})
  /\ LET a == pending[h].activity
     IN /\ VersionFree(a, pending[h].version)
        /\ proofs' = [proofs EXCEPT ![a] = Append(@, pending[h].version)]
        /\ status' = [status EXCEPT ![a] = "COMPLETED"]
  /\ Done(h)
  /\ UNCHANGED <<assigned, routeStatus, routeDriver, stops, journey, opener>>

-----------------------------------------------------------------------------

Reads(h) ==
  \/ \E a \in Activities, d \in Drivers : ReadAssign(h, a, d)
  \/ \E d \in Drivers, activities \in SUBSET Activities : ReadPlan(h, d, activities)
  \/ \E op \in RouteOps, r \in Routes : ReadRoute(h, op, r)
  \/ \E op \in TransitionOps, a \in Activities : ReadCommand(h, op, a)
  \/ \E a \in Activities : ReadFail(h, a)
  \/ \E a \in Activities : ReadFinish(h, a)
  \/ ReadProof(h)

Writes(h) ==
  \/ Assign(h)
  \/ \E r \in Routes : Plan(h, r)
  \/ Publish(h)
  \/ \E j \in Journeys : Start(h, j)
  \/ Complete(h)
  \/ FinishRoute(h)
  \/ Command(h)
  \/ Finish(h)

Next ==
  \/ \E a \in Activities : Create(a)
  \/ \E h \in Handlers : Reads(h) \/ Writes(h) \/ Abort(h)

Spec == Init /\ [][Next]_vars

-----------------------------------------------------------------------------
(* Safety *)

\* An activity has at most one driver; it is without one exactly while it
\* awaits assignment; and the driver of a route is the driver of each of its
\* stops.  Concurrent assign and routes.create requests decide on a status
\* read before either commits (activities.service.ts:51, routes.service.ts:46).
AssignmentAgreement ==
  /\ \A a \in Activities : \A d, e \in assigned[a] : d = e
  /\ \A a \in Activities :
       assigned[a] = {} <=> status[a] \in {"none", "AWAITING_ASSIGNMENT"}
  /\ \A r \in Routes : \A a \in stops[r] : assigned[a] = {routeDriver[r]}

\* No activity is a stop of two routes: nothing in the schema says so (the
\* index on stops is per route), it follows from the index on assignments.
OneRoutePerActivity ==
  \A r, s \in Routes : r # s => stops[r] \cap stops[s] = {}

\* An active journey belongs to a route in progress: tracking a driver is
\* authorised only between the start and the end of a route.  Journeys carry
\* no route, and the end of one route closes the journeys of others.
JourneyBacked ==
  \A j \in Journeys :
    journey[j] = "active" => routeStatus[opener[j]] = "in_progress"

\* A route opens at most one journey, although the dashboard and the device
\* may both have read it as published (routes.service.ts:134,
\* mobile.service.ts:126).
OneJourneyPerRoute ==
  \A i, j \in Journeys : opener[i] # None /\ opener[i] = opener[j] => i = j

\* The proofs of an activity are numbered 1, 2, 3, ... in the order they were
\* issued, however many completions run at once (evidence.service.ts:164).
ProofsNumbered ==
  \A a \in Activities : \A i \in DOMAIN proofs[a] : proofs[a][i] = i

\* A completed activity has a proof (evidence.service.ts:152 relies on it to
\* answer a repeated completion).
CompletedHasProof ==
  \A a \in Activities : status[a] = "COMPLETED" => proofs[a] # <<>>

(* Action properties *)

RouteOrder == {<<"none", "planned">>, <<"planned", "published">>,
               <<"published", "in_progress">>, <<"in_progress", "completed">>}

\* A route moves one stage at a time and never back, whatever requests run
\* against it at once.
RouteAdvances ==
  [][\A r \in Routes : routeStatus'[r] # routeStatus[r]
        => <<routeStatus[r], routeStatus'[r]>> \in RouteOrder]_vars

\* A journey ends only when a route of its driver has been completed.
JourneyEndsWithRoute ==
  [][\A j \in Journeys : journey[j] = "active" /\ journey'[j] # "active"
        => \E r \in Routes : /\ routeStatus'[r] = "completed"
                             /\ routeDriver[r] = routeDriver[opener[j]]]_vars

(* Refinement *)

TheDriver(ds) == IF ds = {} THEN None ELSE CHOOSE d \in ds : TRUE
Owner == [a \in Activities |-> TheDriver(assigned[a])]
PlanOf == [r \in Routes |->
            IF routeStatus[r] = "none" THEN None
            ELSE [driver |-> routeDriver[r], stops |-> stops[r]]]

Contract == INSTANCE Ownership WITH owner <- Owner, plan <- PlanOf

\* Planning by concurrent requests is as good as planning one request at a
\* time: activities are given away atomically, once, and routes whole.
ImplementsOwnership == Contract!Spec

-----------------------------------------------------------------------------
(* What the repository says and the code does not keep *)

\* A completed or failed activity stays so (mobile.service.ts:279 answers
\* "activity_already_final"; the device's own table of transitions has none
\* out of them).
FinalIsFinal ==
  [][\A a \in Activities : status[a] \in Final => status'[a] = status[a]]_vars
=============================================================================
