--------------------------- MODULE DashboardProofs ---------------------------
(***************************************************************************)
(* That an activity is held as somebody confirmed it or planned it, that   *)
(* the numbers of a route are kept, that the selection stays free of       *)
(* duplicates, and that activities are given away as Ownership allows, for *)
(* any number of activities, drivers, routes and requests under way.       *)
(*                                                                         *)
(* The invariant adds to HeldAsConfirmed what the requests carry: each one *)
(* that is to assign an activity is for a pair that was confirmed,         *)
(* whatever dialogs have been closed and opened since.  For the refinement *)
(* it adds that nobody holds what still waits.                             *)
(***************************************************************************)
EXTENDS Dashboard, SequenceTheorems, TLAPS

\* A route that does not exist has no stops.
UnplannedEmpty ==
  \A r \in Routes : route[r].status = "none" => Elements(route[r].stops) = {}

RequestsConfirmed ==
  \A q \in Requests :
    requests[q] # None /\ requests[q].activity # "create" =>
      <<requests[q].activity, requests[q].driver>> \in confirmed

RoutesShaped ==
  /\ route = [r \in Routes |-> route[r]]
  /\ \A r \in Routes : route[r] = [status |-> route[r].status, driver |-> route[r].driver,
                                   stops |-> route[r].stops]

HeldInv ==
  /\ RoutesShaped
  /\ requests \in [Requests -> Request \cup {None}]
  /\ UnplannedEmpty
  /\ RequestsConfirmed
  /\ HeldAsConfirmed

heldVars == <<holder, route, requests, confirmed>>

-----------------------------------------------------------------------------

LEMMA InitHeld == Init => HeldInv
  <1> SUFFICES ASSUME Init PROVE HeldInv
    OBVIOUS
  <1> USE DEF Init, OfficeInit, OperationsInit
  <1>1. HeldAsConfirmed
    BY DEF HeldAsConfirmed
  <1>2. Elements(<<>>) = {}
    BY DEF Elements
  <1>3. RoutesShaped /\ UnplannedEmpty
    BY <1>2 DEF RoutesShaped, UnplannedEmpty, NoRoute, RouteStatus
  <1>4. requests \in [Requests -> Request \cup {None}] /\ RequestsConfirmed
    BY DEF RequestsConfirmed
  <1> QED
    BY <1>1, <1>3, <1>4 DEF HeldInv

LEMMA QuietHeld == HeldInv /\ UNCHANGED heldVars => HeldInv'
  BY DEF HeldInv, heldVars, RoutesShaped, UnplannedEmpty, RequestsConfirmed, HeldAsConfirmed

\* A route moves, its driver and its stops do not.
LEMMA TransitHeld ==
  ASSUME HeldInv, NEW r \in Routes, NEW op \in RouteOps,
         Transit(r, op), UNCHANGED <<requests, confirmed>>
  PROVE  HeldInv'
  <1>1. Target[op] # "none"
    BY DEF RouteOps, Target
  <1>2. route' = [route EXCEPT ![r].status = Target[op]] /\ holder' = holder
    BY DEF Transit
  <1>3. \A s \in Routes : route'[s].driver = route[s].driver /\ route'[s].stops = route[s].stops
    BY <1>2 DEF HeldInv, RoutesShaped
  <1>4. RoutesShaped' /\ UnplannedEmpty'
    BY <1>1, <1>2 DEF HeldInv, RoutesShaped, UnplannedEmpty
  <1>5. HeldAsConfirmed'
    BY <1>2, <1>3 DEF HeldInv, HeldAsConfirmed
  <1>6. RequestsConfirmed'
    BY DEF HeldInv, RequestsConfirmed
  <1> QED
    BY <1>2, <1>4, <1>5, <1>6 DEF HeldInv

\* A route is planned: it had no stops, and its new ones are its driver's.
LEMMA CreateRouteHeld ==
  ASSUME HeldInv, NEW r \in Routes, NEW d, NEW stops, NEW numbers,
         CreateRoute(r, d, stops, numbers), UNCHANGED <<requests, confirmed>>
  PROVE  HeldInv'
  <1>1. route' = [route EXCEPT ![r] = [status |-> "planned", driver |-> d, stops |-> stops]]
    BY DEF CreateRoute
  <1>2. holder' = [a \in Activities |-> IF a \in Elements(stops) THEN d ELSE holder[a]]
    BY DEF CreateRoute, GiveTo
  <1>3. \A s \in Routes \ {r} : route'[s] = route[s]
    BY <1>1 DEF HeldInv, RoutesShaped
  <1>4. route'[r] = [status |-> "planned", driver |-> d, stops |-> stops]
    BY <1>1 DEF HeldInv, RoutesShaped
  <1>5. RoutesShaped'
    BY <1>1, <1>3, <1>4 DEF HeldInv, RoutesShaped
  <1>6. UnplannedEmpty'
    BY <1>3, <1>4 DEF HeldInv, UnplannedEmpty
  <1>7. HeldAsConfirmed'
    <2> SUFFICES ASSUME NEW a \in Activities, holder'[a] # None
                 PROVE  \/ <<a, holder'[a]>> \in confirmed
                        \/ \E s \in Routes : route'[s].driver = holder'[a]
                                             /\ a \in Elements(route'[s].stops)
      BY DEF HeldAsConfirmed
    <2>1. CASE a \in Elements(stops)
      BY <2>1, <1>2, <1>4
    <2>2. CASE a \notin Elements(stops)
      <3>1. holder'[a] = holder[a]
        BY <2>2, <1>2
      <3>2. route[r].status = "none" /\ Elements(route[r].stops) = {}
        BY DEF CreateRoute, HeldInv, UnplannedEmpty
      <3>3. \/ <<a, holder[a]>> \in confirmed
            \/ \E s \in Routes : route[s].driver = holder[a] /\ a \in Elements(route[s].stops)
        BY <3>1 DEF HeldInv, HeldAsConfirmed
      <3> QED
        BY <3>1, <3>2, <3>3, <1>3
    <2> QED
      BY <2>1, <2>2
  <1>8. RequestsConfirmed'
    BY DEF HeldInv, RequestsConfirmed
  <1> QED
    BY <1>5, <1>6, <1>7, <1>8 DEF HeldInv

\* An activity is assigned to the driver it has been confirmed for.
LEMMA AssignHeld ==
  ASSUME HeldInv, NEW a, NEW d,
         AssignActivity(a, d), <<a, d>> \in confirmed',
         confirmed \subseteq confirmed',
         requests' \in [Requests -> Request \cup {None}], RequestsConfirmed'
  PROVE  HeldInv'
  <1>1. holder' = [b \in Activities |-> IF b \in {a} THEN d ELSE holder[b]] /\ route' = route
    BY DEF AssignActivity, GiveTo
  <1>3. HeldAsConfirmed'
    BY <1>1 DEF HeldInv, HeldAsConfirmed
  <1>4. RoutesShaped' /\ UnplannedEmpty'
    BY <1>1 DEF HeldInv, RoutesShaped, UnplannedEmpty
  <1> QED
    BY <1>3, <1>4 DEF HeldInv

\* Requests come and go, nothing is given.
LEMMA RequestsHeld ==
  ASSUME HeldInv, UNCHANGED <<holder, route>>, confirmed \subseteq confirmed',
         requests' \in [Requests -> Request \cup {None}], RequestsConfirmed'
  PROVE  HeldInv'
  BY DEF HeldInv, RoutesShaped, UnplannedEmpty, HeldAsConfirmed

\* What the planning page does: only its writes reach the API.
LEMMA PlanningHeld ==
  ASSUME HeldInv, PlanningNext, UNCHANGED operationsVars
  PROVE  HeldInv'
  <1>1. UNCHANGED <<requests, confirmed>>
    BY DEF operationsVars, operationsFree
  <1>2. CASE ServeWrite
    <2>1. PICK accepted \in BOOLEAN : Execute(write, accepted)
      BY <1>2 DEF ServeWrite
    <2>2. CASE Create(write, accepted)
      <3>1. CASE ~accepted
        BY <2>2, <3>1, <1>1, QuietHeld DEF Create, officeVars, heldVars
      <3>2. CASE accepted
        <4>1. PICK r \in Routes : CreateRoute(r, write.driver, write.stops, write.numbers)
          BY <2>2, <3>2 DEF Create
        <4> QED
          BY <4>1, <1>1, CreateRouteHeld
      <3> QED
        BY <3>1, <3>2
    <2>3. CASE MoveRoute(write, accepted)
      <3>1. CASE ~accepted
        BY <2>3, <3>1, <1>1, QuietHeld DEF MoveRoute, officeVars, heldVars
      <3>2. CASE accepted /\ write.route \in Routes
        BY <2>3, <3>2, <1>1, TransitHeld DEF MoveRoute
      <3>3. CASE accepted /\ write.route \notin Routes
        <4>1. route' = route /\ holder' = holder
          BY <2>3, <3>3 DEF MoveRoute, Transit, HeldInv, RoutesShaped
        <4> QED
          BY <4>1, <1>1, QuietHeld DEF heldVars
      <3> QED
        BY <3>1, <3>2, <3>3
    <2> QED
      BY <2>1, <2>2, <2>3 DEF Execute
  <1>3. CASE ~ServeWrite
    <2>1. UNCHANGED <<holder, route>>
      <3>1. CASE Planner
        BY <3>1 DEF Planner, PressRefresh, Toggle, Move, PressCreate, PressTransition,
                    BeginWrite, officeVars
      <3>2. CASE PlanningAnswer
        BY <3>2, <1>3 DEF PlanningAnswer, WriteRefused, WriteSucceeds, officeVars
      <3>3. CASE \E l \in Loads : LoadAnswer(l) \/ LoadFails(l)
        BY <3>3 DEF LoadAnswer, ReadLists, LoadArrives, LoadFails, officeVars
      <3>4. CASE WriteLost \/ Reload
        BY <3>4 DEF WriteLost, Reload, officeVars
      <3> QED
        BY <3>1, <3>2, <3>3, <3>4 DEF PlanningNext
    <2> QED
      BY <2>1, <1>1, QuietHeld DEF heldVars
  <1> QED
    BY <1>2, <1>3

\* What the dialogs leave behind when they close is what was confirmed.
LEMMA DetachedTyped ==
  ASSUME HeldInv
  PROVE  /\ Detached \in [Requests -> Request \cup {None}]
         /\ \A q \in Requests : Detached[q] # None =>
              /\ requests[q] # None
              /\ Detached[q].activity = requests[q].activity
              /\ Detached[q].driver = requests[q].driver
  BY DEF HeldInv, Detached, Request

\* What the operations page does.
LEMMA OperationsHeld ==
  ASSUME HeldInv, OperationsNext
  PROVE  HeldInv'
  <1> USE DEF officeVars
  <1>1. CASE \E q \in Requests : ServeRequest(q)
    <2>1. PICK q \in Requests : ServeRequest(q)
      BY <1>1
    <2>2. requests' \in [Requests -> Request \cup {None}] /\ confirmed' = confirmed
      BY <2>1 DEF ServeRequest, Answered, Request, HeldInv
    <2>3. \A p \in Requests : requests'[p] # None =>
             /\ requests[p] # None
             /\ requests'[p].activity = requests[p].activity
             /\ requests'[p].driver = requests[p].driver
      BY <2>1 DEF ServeRequest, Answered, Request, HeldInv
    <2>4. RequestsConfirmed'
      BY <2>2, <2>3 DEF HeldInv, RequestsConfirmed
    <2>5. CASE Subject(q) # "create" /\ AssignActivity(Subject(q), requests[q].driver)
      <3>1. <<Subject(q), requests[q].driver>> \in confirmed
        BY <2>1, <2>5 DEF HeldInv, RequestsConfirmed, Subject, ServeRequest
      <3> QED
        BY <3>1, <2>2, <2>4, <2>5, AssignHeld
    <2>6. CASE UNCHANGED <<holder, route>>
      BY <2>2, <2>4, <2>6, RequestsHeld
    <2> QED
      BY <2>1, <2>5, <2>6 DEF ServeRequest, CreateActivity
  <1>2. CASE \E q \in Requests, d \in Drivers : ConfirmAssign(q, d)
    <2>1. PICK q \in Requests, d \in Drivers : ConfirmAssign(q, d)
      BY <1>2
    <2>2. /\ requests' = [requests EXCEPT ![q] = [activity |-> dialog, driver |-> d,
                                                stage |-> "sent", ofDialog |-> TRUE]]
          /\ confirmed' = confirmed \cup {<<dialog, d>>}
          /\ dialog \in Activities
          /\ UNCHANGED <<holder, route>>
      BY <2>1 DEF ConfirmAssign, Ask
    <2>3. requests' \in [Requests -> Request \cup {None}]
      BY <2>2 DEF HeldInv, Request
    <2>4. RequestsConfirmed'
      BY <2>2 DEF HeldInv, RequestsConfirmed
    <2> QED
      BY <2>2, <2>3, <2>4, RequestsHeld
  <1>3. CASE \E q \in Requests : ConfirmCreate(q)
    <2>1. PICK q \in Requests : ConfirmCreate(q)
      BY <1>3
    <2>2. /\ requests' = [requests EXCEPT ![q] = [activity |-> "create", driver |-> None,
                                                stage |-> "sent", ofDialog |-> TRUE]]
          /\ UNCHANGED <<confirmed, holder, route>>
      BY <2>1 DEF ConfirmCreate, Ask
    <2>3. requests' \in [Requests -> Request \cup {None}] /\ RequestsConfirmed'
      BY <2>2 DEF HeldInv, Request, RequestsConfirmed
    <2> QED
      BY <2>2, <2>3, RequestsHeld
  <1>4. CASE CloseDialog
    <2>1. requests' = Detached /\ UNCHANGED <<confirmed, holder, route>>
      BY <1>4 DEF CloseDialog
    <2>2. requests' \in [Requests -> Request \cup {None}] /\ RequestsConfirmed'
      BY <2>1, DetachedTyped DEF HeldInv, RequestsConfirmed
    <2> QED
      BY <2>1, <2>2, RequestsHeld
  <1>5. CASE \E q \in Requests : RequestLost(q) \/ RequestStrays(q) \/ RequestRefused(q)
    <2>1. PICK q \in Requests : RequestLost(q) \/ RequestStrays(q) \/ RequestRefused(q)
      BY <1>5
    <2>2. UNCHANGED <<confirmed, holder, route>>
      BY <2>1 DEF RequestLost, RequestStrays, RequestRefused
    <2>3. requests' \in [Requests -> Request \cup {None}]
      BY <2>1 DEF RequestLost, RequestStrays, RequestRefused, RequestIs, HeldInv, Request
    <2>4. \A p \in Requests : requests'[p] # None =>
             /\ requests[p] # None
             /\ requests'[p].activity = requests[p].activity
             /\ requests'[p].driver = requests[p].driver
      BY <2>1 DEF RequestLost, RequestStrays, RequestRefused, RequestIs, HeldInv, Request
    <2>5. RequestsConfirmed'
      BY <2>2, <2>4 DEF HeldInv, RequestsConfirmed
    <2> QED
      BY <2>2, <2>3, <2>5, RequestsHeld
  <1>6. CASE \E q \in Requests, l \in Reads : RequestSucceeds(q, l)
    <2>1. PICK q \in Requests, l \in Reads : RequestSucceeds(q, l)
      BY <1>6
    <2>2. UNCHANGED <<confirmed, holder, route>>
      BY <2>1 DEF RequestSucceeds
    <2>3. requests' = [Detached EXCEPT ![q] = None] \/ requests' = [requests EXCEPT ![q] = None]
      BY <2>1 DEF RequestSucceeds
    <2>4. requests' \in [Requests -> Request \cup {None}]
      BY <2>3, DetachedTyped DEF HeldInv
    <2>5. \A p \in Requests : requests'[p] # None =>
             /\ requests[p] # None
             /\ requests'[p].activity = requests[p].activity
             /\ requests'[p].driver = requests[p].driver
      BY <2>3, DetachedTyped DEF HeldInv
    <2>6. RequestsConfirmed'
      BY <2>2, <2>5 DEF HeldInv, RequestsConfirmed
    <2> QED
      BY <2>2, <2>4, <2>6, RequestsHeld
  <1>7. CASE \/ \E l \in Reads : PressRevalidate(l) \/ ReadAnswer(l) \/ RowsFail(l)
             \/ \E subject \in Activities \cup {"create"} : OpenDialog(subject)
    <2>1. UNCHANGED heldVars
      BY <1>7 DEF PressRevalidate, BeginRead, ReadAnswer, ReadRows, RowsArrive, RowsFail,
                  OpenDialog, heldVars
    <2> QED
      BY <2>1, QuietHeld
  <1> QED
    BY <1>1, <1>2, <1>3, <1>4, <1>5, <1>6, <1>7 DEF OperationsNext, Operator, RequestAnswer

\* What the other dashboards and the drivers do.
LEMMA ElsewhereHeld ==
  ASSUME HeldInv, Elsewhere
  PROVE  HeldInv'
  <1> USE DEF operationsVars, operationsFree
  <1>1. CASE \E a \in Activities, d \in Drivers :
               OthersAssign(a, d) /\ confirmed' = confirmed \cup {<<a, d>>} /\ requests' = requests
    <2>1. PICK a \in Activities, d \in Drivers :
            OthersAssign(a, d) /\ confirmed' = confirmed \cup {<<a, d>>} /\ requests' = requests
      BY <1>1
    <2>2. RequestsConfirmed' /\ requests' \in [Requests -> Request \cup {None}]
      BY <2>1 DEF HeldInv, RequestsConfirmed
    <2> QED
      BY <2>1, <2>2, AssignHeld DEF OthersAssign
  <1>2. CASE \E r \in Routes, op \in RouteOps :
               OthersTransit(r, op) /\ UNCHANGED <<requests, confirmed>>
    BY <1>2, TransitHeld DEF OthersTransit
  <1>3. CASE UNCHANGED heldVars
    BY <1>3, QuietHeld
  <1> QED
    BY <1>1, <1>2, <1>3 DEF Elsewhere, Work, CreateActivity, heldVars

LEMMA NextHeld == HeldInv /\ [Next]_vars => HeldInv'
  <1> SUFFICES ASSUME HeldInv, [Next]_vars PROVE HeldInv'
    OBVIOUS
  <1>1. CASE OnPlanning(PlanningNext)
    BY <1>1, PlanningHeld DEF OnPlanning
  <1>2. CASE OnOperations(OperationsNext)
    BY <1>2, OperationsHeld DEF OnOperations
  <1>3. CASE Elsewhere
    BY <1>3, ElsewhereHeld
  <1>4. CASE UNCHANGED vars
    BY <1>4, QuietHeld DEF vars, officeVars, operationsVars, operationsFree, heldVars
  <1> QED
    BY <1>1, <1>2, <1>3, <1>4 DEF Next

\* A driver holds an activity only because a dialog was confirmed for it and
\* him or a route of his has it, whatever requests overtake each other and
\* whichever dialog is open when one is answered (operacoes/page.tsx:189).
THEOREM HeldTheorem == Spec => []HeldAsConfirmed
  <1>1. HeldInv => HeldAsConfirmed
    BY DEF HeldInv
  <1> QED
    BY <1>1, InitHeld, NextHeld, PTL DEF Spec

-----------------------------------------------------------------------------
(* The numbers of a route *)

CreateShape == [op |-> write.op, driver |-> write.driver, stops |-> write.stops,
                numbers |-> write.numbers, stage |-> write.stage]
MoveShape == [op |-> write.op, route |-> write.route, stage |-> write.stage]

\* A create under way carries numbers that fit its stops.
WriteNumbered ==
  write # None =>
    \/ write = CreateShape /\ write.numbers \subseteq Numbering(write.stops)
    \/ write = MoveShape /\ write.op # "create"

\* So does every route that exists.
RoutesNumbered ==
  \A r \in Routes :
    route[r].status # "none" => numbered[r] \subseteq Numbering(route[r].stops)

NumbersInv ==
  /\ RoutesShaped
  /\ numbered = [r \in Routes |-> numbered[r]]
  /\ WriteNumbered
  /\ RoutesNumbered

LEMMA InitNumbers == Init => NumbersInv
  BY DEF Init, OfficeInit, PlanningInit, NumbersInv, RoutesShaped, NoRoute, WriteNumbered,
         RoutesNumbered

LEMMA QuietNumbers == NumbersInv /\ UNCHANGED <<route, numbered, write>> => NumbersInv'
  BY DEF NumbersInv, RoutesShaped, WriteNumbered, CreateShape, MoveShape, RoutesNumbered

\* What the numbers are needs only the stages of a write to have moved.
LEMMA StageNumbered ==
  ASSUME WriteNumbered, write # None, NEW stage, WriteIs(stage)
  PROVE  WriteNumbered'
  <1>1. CASE write = CreateShape /\ write.numbers \subseteq Numbering(write.stops)
    <2>1. write' = [op |-> write.op, driver |-> write.driver, stops |-> write.stops,
                    numbers |-> write.numbers, stage |-> stage]
      BY <1>1 DEF WriteIs, CreateShape
    <2> QED
      BY <1>1, <2>1 DEF WriteNumbered, CreateShape
  <1>2. CASE write = MoveShape /\ write.op # "create"
    <2>1. write' = [op |-> write.op, route |-> write.route, stage |-> stage]
      BY <1>2 DEF WriteIs, MoveShape
    <2> QED
      BY <1>2, <2>1 DEF WriteNumbered, MoveShape
  <1> QED
    BY <1>1, <1>2 DEF WriteNumbered

LEMMA TransitNumbers ==
  ASSUME NumbersInv, NEW r \in Routes, NEW op \in RouteOps,
         route[r].status # "none", Transit(r, op), WriteNumbered'
  PROVE  NumbersInv'
  <1>1. route' = [route EXCEPT ![r].status = Target[op]] /\ numbered' = numbered
    BY DEF Transit
  <1>2. \A s \in Routes :
          /\ route'[s].stops = route[s].stops
          /\ route'[s].status = "none" \/ route[s].status # "none"
    BY <1>1 DEF NumbersInv, RoutesShaped
  <1>3. RoutesShaped'
    BY <1>1 DEF NumbersInv, RoutesShaped
  <1>4. RoutesNumbered'
    BY <1>1, <1>2 DEF NumbersInv, RoutesNumbered
  <1> QED
    BY <1>1, <1>3, <1>4 DEF NumbersInv

\* A route that may be moved exists.
LEMMA MovedExists ==
  ASSUME NEW r \in Routes, NEW op \in RouteOps, MayTransit(r, op)
  PROVE  route[r].status # "none"
  BY DEF MayTransit, Transits, Target, Expected, RouteOps

LEMMA CreateRouteNumbers ==
  ASSUME NumbersInv, NEW r \in Routes, NEW d, NEW stops, NEW numbers,
         numbers \subseteq Numbering(stops),
         CreateRoute(r, d, stops, numbers), WriteNumbered'
  PROVE  NumbersInv'
  <1>1. /\ route' = [route EXCEPT ![r] = [status |-> "planned", driver |-> d, stops |-> stops]]
        /\ numbered' = [numbered EXCEPT ![r] = numbers]
    BY DEF CreateRoute
  <1>2. RoutesShaped'
    BY <1>1 DEF NumbersInv, RoutesShaped
  <1>3. RoutesNumbered'
    BY <1>1 DEF NumbersInv, RoutesShaped, RoutesNumbered
  <1> QED
    BY <1>1, <1>2, <1>3 DEF NumbersInv

\* The form sends all that is selected, and shows some of its numbers.
LEMMA PressNumbers ==
  ASSUME NumbersInv, NEW d \in Drivers, PressCreate(d)
  PROVE  NumbersInv'
  <1>1. /\ write' = [op |-> "create", driver |-> d, stops |-> Submitted,
                     numbers |-> NumbersShown, stage |-> "sent"]
        /\ UNCHANGED <<route, numbered>>
    BY DEF PressCreate, BeginWrite, officeVars
  <1>2. NumbersShown \subseteq Numbering(Submitted)
    BY DEF NumbersShown, Submitted, Numbering
  <1>3. WriteNumbered'
    BY <1>1, <1>2 DEF WriteNumbered, CreateShape
  <1> QED
    BY <1>1, <1>3 DEF NumbersInv, RoutesShaped, RoutesNumbered

LEMMA ServeNumbers ==
  ASSUME NumbersInv, ServeWrite
  PROVE  NumbersInv'
  <1>1. PICK accepted \in BOOLEAN :
          Execute(write, accepted) /\ WriteIs(IF accepted THEN "done" ELSE "failed")
    BY DEF ServeWrite
  <1>2. write # None
    BY DEF ServeWrite, Writing
  <1>3. WriteNumbered'
    BY <1>1, <1>2, StageNumbered DEF NumbersInv
  <1>4. CASE UNCHANGED <<route, numbered>>
    BY <1>3, <1>4 DEF NumbersInv, RoutesShaped, RoutesNumbered
  <1>5. CASE Create(write, accepted) /\ accepted
    <2>1. PICK r \in Routes : CreateRoute(r, write.driver, write.stops, write.numbers)
      BY <1>5 DEF Create
    <2>2. write.numbers \subseteq Numbering(write.stops)
      BY <1>2, <1>5 DEF NumbersInv, WriteNumbered, Create
    <2> QED
      BY <1>3, <2>1, <2>2, CreateRouteNumbers
  <1>6. CASE MoveRoute(write, accepted) /\ accepted
    <2>1. CASE write.route \in Routes
      BY <1>3, <1>6, <2>1, MovedExists, TransitNumbers DEF MoveRoute
    <2>2. CASE write.route \notin Routes
      <3>1. UNCHANGED <<route, numbered>>
        BY <1>6, <2>2 DEF MoveRoute, Transit, NumbersInv, RoutesShaped
      <3> QED
        BY <3>1, <1>4
    <2> QED
      BY <2>1, <2>2
  <1> QED
    BY <1>1, <1>4, <1>5, <1>6 DEF Execute, Create, MoveRoute, officeVars

LEMMA PlanningNumbers ==
  ASSUME NumbersInv, PlanningNext
  PROVE  NumbersInv'
  <1> USE DEF officeVars
  <1>1. CASE ServeWrite
    BY <1>1, ServeNumbers
  <1>2. CASE \E d \in Drivers : PressCreate(d)
    BY <1>2, PressNumbers
  <1>3. CASE \E r \in Routes : PressTransition(r)
    <2>1. PICK r \in Routes : PressTransition(r)
      BY <1>3
    <2>2. /\ write' = [op |-> NextOp(routesShown[r]), route |-> r, stage |-> "sent"]
          /\ UNCHANGED <<route, numbered>>
      BY <2>1 DEF PressTransition, BeginWrite
    <2>3. NextOp(routesShown[r]) # "create"
      BY DEF NextOp
    <2>4. WriteNumbered'
      BY <2>2, <2>3 DEF WriteNumbered, MoveShape
    <2> QED
      BY <2>2, <2>4 DEF NumbersInv, RoutesShaped, RoutesNumbered
  <1>4. CASE WriteLost
    <2>1. WriteNumbered'
      BY <1>4, StageNumbered DEF WriteLost, Writing, NumbersInv
    <2> QED
      BY <1>4, <2>1 DEF WriteLost, NumbersInv, RoutesShaped, RoutesNumbered
  <1>5. CASE WriteRefused \/ Reload \/ \E l \in Loads : WriteSucceeds(l)
    <2>1. write' = None /\ UNCHANGED <<route, numbered>>
      BY <1>5 DEF WriteRefused, Reload, WriteSucceeds
    <2> QED
      BY <2>1 DEF NumbersInv, RoutesShaped, WriteNumbered, RoutesNumbered
  <1>6. CASE \/ \E l \in Loads : PressRefresh(l) \/ LoadAnswer(l) \/ LoadFails(l)
             \/ \E a \in Activities : Toggle(a) \/ Move(a)
    <2>1. UNCHANGED <<route, numbered, write>>
      BY <1>6 DEF PressRefresh, LoadAnswer, ReadLists, LoadArrives, LoadFails, Toggle, Move
    <2> QED
      BY <2>1, QuietNumbers
  <1> QED
    BY <1>1, <1>2, <1>3, <1>4, <1>5, <1>6 DEF PlanningNext, Planner, PlanningAnswer

LEMMA NextNumbers == NumbersInv /\ [Next]_vars => NumbersInv'
  <1> SUFFICES ASSUME NumbersInv, [Next]_vars PROVE NumbersInv'
    OBVIOUS
  <1>1. CASE OnPlanning(PlanningNext)
    BY <1>1, PlanningNumbers DEF OnPlanning
  <1>2. CASE OnOperations(OperationsNext)
    <2>1. UNCHANGED <<route, numbered>>
      <3>1. CASE Operator
        BY <3>1 DEF Operator, PressRevalidate, OpenDialog, CloseDialog, ConfirmAssign,
                    ConfirmCreate, Ask, officeVars
      <3>2. CASE \E q \in Requests : RequestAnswer(q) \/ RequestLost(q) \/ RequestStrays(q)
        BY <3>2 DEF RequestAnswer, ServeRequest, RequestRefused, RequestSucceeds, RequestLost,
                    RequestStrays, CreateActivity, AssignActivity, officeVars
      <3>3. CASE \E l \in Reads : ReadAnswer(l) \/ RowsFail(l)
        BY <3>3 DEF ReadAnswer, ReadRows, RowsArrive, RowsFail, officeVars
      <3> QED
        BY <1>2, <3>1, <3>2, <3>3 DEF OnOperations, OperationsNext
    <2>2. UNCHANGED write
      BY <1>2 DEF OnOperations, planningVars
    <2> QED
      BY <2>1, <2>2, QuietNumbers
  <1>3. CASE Elsewhere
    <2>1. UNCHANGED write
      BY <1>3 DEF Elsewhere, planningVars
    <2>2. CASE \E r \in Routes, op \in RouteOps : OthersTransit(r, op)
      <3>1. PICK r \in Routes, op \in RouteOps : OthersTransit(r, op)
        BY <2>2
      <3>2. WriteNumbered'
        BY <2>1 DEF NumbersInv, WriteNumbered, CreateShape, MoveShape
      <3> QED
        BY <3>1, <3>2, MovedExists, TransitNumbers DEF OthersTransit, MayTransit
    <2>3. CASE UNCHANGED <<route, numbered>>
      BY <2>1, <2>3, QuietNumbers
    <2> QED
      BY <1>3, <2>2, <2>3 DEF Elsewhere, OthersAssign, AssignActivity, Work, CreateActivity
  <1>4. CASE UNCHANGED vars
    BY <1>4, QuietNumbers DEF vars, officeVars, planningVars
  <1> QED
    BY <1>1, <1>2, <1>3, <1>4 DEF Next

\* Every number the planner saw on a stop is its place on the API's list for the
\* driver, for any number of activities, routes and loads under way
\* (planejamento/page.tsx:76, :252).
THEOREM NumbersTheorem == Spec => []NumbersKept
  <1>1. NumbersInv => NumbersKept
    <2> SUFFICES ASSUME NumbersInv, NEW d \in Drivers, NEW list \in Assigned(d)
                 PROVE  \E r \in Routes : route[r].driver = d
                                          /\ numbered[r] \subseteq Numbering(list)
      BY DEF NumbersKept
    <2>1. PICK r \in Visible(d) : list = route[r].stops
      BY DEF Assigned
    <2>2. r \in Routes /\ route[r].driver = d /\ route[r].status # "none"
      BY DEF Visible
    <2> QED
      BY <2>1, <2>2 DEF NumbersInv, RoutesNumbered
  <1> QED
    BY <1>1, InitNumbers, NextNumbers, PTL DEF Spec

-----------------------------------------------------------------------------
(* The selection *)

\* What is left when one place of a sequence is dropped.
LEMMA RemovedAt ==
  ASSUME NEW s \in Seq(Activities), NEW i \in 1..Len(s)
  PROVE  /\ Seqs!RemoveAt(s, i) \in Seq(Activities)
         /\ Len(Seqs!RemoveAt(s, i)) = Len(s) - 1
         /\ \A k \in 1..(Len(s) - 1) :
              Seqs!RemoveAt(s, i)[k] = IF k < i THEN s[k] ELSE s[k + 1]
  <1> DEFINE front == SubSeq(s, 1, i - 1)
             back == SubSeq(s, i + 1, Len(s))
  <1>1. /\ front \in Seq(Activities) /\ Len(front) = i - 1
        /\ \A k \in 1..(i - 1) : front[k] = s[k]
    OBVIOUS
  <1>2. /\ back \in Seq(Activities) /\ Len(back) = Len(s) - i
        /\ \A k \in 1..(Len(s) - i) : back[k] = s[i + k]
    OBVIOUS
  <1> HIDE DEF front, back
  <1>3. Seqs!RemoveAt(s, i) = front \o back
    BY DEF front, back, Seqs!RemoveAt
  <1>4. front \o back \in Seq(Activities) /\ Len(front \o back) = Len(s) - 1
    BY <1>1, <1>2
  <1>5. ASSUME NEW k \in 1..(Len(s) - 1)
        PROVE  (front \o back)[k] = IF k < i THEN s[k] ELSE s[k + 1]
    <2>1. CASE k < i
      <3>1. k \in 1..(i - 1) /\ (front \o back)[k] = front[k]
        BY <1>1, <1>2, <2>1
      <3> QED
        BY <1>1, <2>1, <3>1
    <2>2. CASE ~(k < i)
      <3>1. k - (i - 1) \in 1..(Len(s) - i) /\ (front \o back)[k] = back[k - (i - 1)]
        BY <1>1, <1>2, <2>2
      <3>2. i + (k - (i - 1)) = k + 1
        OBVIOUS
      <3> QED
        BY <1>2, <2>2, <3>1, <3>2
    <2> QED
      BY <2>1, <2>2
  <1> QED
    BY <1>3, <1>4, <1>5

\* Selecting and deselecting keep the selection free of duplicates, and change
\* it by the one activity.
LEMMA ToggledIs ==
  ASSUME selected \in Seq(Activities), Distinct(selected), NEW a \in Activities
  PROVE  /\ Toggled(a) \in Seq(Activities) /\ Distinct(Toggled(a))
         /\ Elements(Toggled(a)) = IF a \in Elements(selected) THEN Elements(selected) \ {a}
                                                               ELSE Elements(selected) \cup {a}
  <1>1. CASE a \notin Elements(selected)
    <2> DEFINE new == Append(selected, a)
    <2>1. /\ new \in Seq(Activities) /\ Len(new) = Len(selected) + 1
          /\ \A i \in 1..Len(selected) : new[i] = selected[i]
          /\ new[Len(selected) + 1] = a
      OBVIOUS
    <2>2. Toggled(a) = new
      BY <1>1 DEF Toggled
    <2>3. \A i \in 1..Len(selected) : selected[i] # a
      BY <1>1 DEF Elements
    <2> HIDE DEF new
    <2>4. /\ DOMAIN new = 1..(Len(selected) + 1) /\ DOMAIN selected = 1..Len(selected)
          /\ Len(selected) \in Nat
      BY <2>1
    <2>5. \A i \in DOMAIN new : i = Len(selected) + 1 \/ i \in DOMAIN selected
      BY <2>4
    <2>6. Distinct(new)
      BY <2>1, <2>3, <2>4, <2>5 DEF Distinct
    <2>7. Elements(new) = Elements(selected) \cup {a}
      <3>1. ASSUME NEW x \in Elements(new) PROVE x \in Elements(selected) \cup {a}
        BY <2>1, <2>4, <2>5 DEF Elements
      <3>2. ASSUME NEW x \in Elements(selected) \cup {a} PROVE x \in Elements(new)
        <4>1. Len(selected) + 1 \in DOMAIN new /\ DOMAIN selected \subseteq DOMAIN new
          BY <2>4
        <4> QED
          BY <2>1, <2>4, <4>1 DEF Elements
      <3> QED
        BY <3>1, <3>2
    <2> QED
      BY <1>1, <2>1, <2>2, <2>6, <2>7
  <1>2. CASE a \in Elements(selected)
    <2> DEFINE i == CHOOSE i \in DOMAIN selected : selected[i] = a
               new == Seqs!RemoveAt(selected, i)
               old(k) == IF k < i THEN k ELSE k + 1
    <2>1. i \in 1..Len(selected) /\ selected[i] = a
      <3>1. \E k \in DOMAIN selected : selected[k] = a
        BY <1>2 DEF Elements
      <3>2. i \in DOMAIN selected /\ selected[i] = a
        BY <3>1
      <3> QED
        BY <3>2
    <2>2. Toggled(a) = new
      BY <1>2 DEF Toggled
    <2> HIDE DEF i
    <2>3. /\ new \in Seq(Activities) /\ Len(new) = Len(selected) - 1
          /\ \A k \in 1..(Len(selected) - 1) : new[k] = selected[old(k)]
      BY <2>1, RemovedAt
    <2> HIDE DEF new
    <2>4. /\ DOMAIN new = 1..(Len(selected) - 1) /\ DOMAIN selected = 1..Len(selected)
          /\ Len(selected) \in Nat
      BY <2>3
    <2>5. ASSUME NEW k \in DOMAIN new
          PROVE  new[k] = selected[old(k)] /\ old(k) \in DOMAIN selected /\ old(k) # i
      BY <2>1, <2>3, <2>4
    <2>6. ASSUME NEW k \in DOMAIN new, NEW j \in DOMAIN new, old(k) = old(j)
          PROVE  k = j
      BY <2>1, <2>4, <2>6
    <2>7. ASSUME NEW j \in DOMAIN selected, j # i
          PROVE  \E k \in DOMAIN new : old(k) = j
      <3>1. CASE j < i
        <4>1. j \in DOMAIN new /\ old(j) = j
          BY <2>1, <2>4, <3>1
        <4> QED
          BY <4>1
      <3>2. CASE ~(j < i)
        <4>1. j - 1 \in DOMAIN new /\ old(j - 1) = j
          BY <2>1, <2>4, <2>7, <3>2
        <4> QED
          BY <4>1
      <3> QED
        BY <3>1, <3>2
    <2> HIDE DEF old
    <2>8. Distinct(new)
      <3> SUFFICES ASSUME NEW k \in DOMAIN new, NEW j \in DOMAIN new, new[k] = new[j]
                   PROVE  k = j
        BY DEF Distinct
      <3>1. selected[old(k)] = selected[old(j)]
        BY <2>5
      <3>2. old(k) = old(j)
        BY <2>5, <3>1 DEF Distinct
      <3> QED
        BY <2>6, <3>2
    <2>9. Elements(new) = Elements(selected) \ {a}
      <3>1. ASSUME NEW x \in Elements(new) PROVE x \in Elements(selected) /\ x # a
        <4>1. PICK k \in DOMAIN new : x = new[k]
          BY DEF Elements
        <4>2. x = selected[old(k)] /\ old(k) \in DOMAIN selected /\ old(k) # i
          BY <2>5, <4>1
        <4>3. x # a
          BY <2>1, <2>4, <4>2 DEF Distinct
        <4> QED
          BY <4>2, <4>3 DEF Elements
      <3>2. ASSUME NEW x \in Elements(selected), x # a PROVE x \in Elements(new)
        <4>1. PICK j \in DOMAIN selected : x = selected[j]
          BY DEF Elements
        <4>2. j # i
          BY <2>1, <3>2, <4>1
        <4>3. PICK k \in DOMAIN new : old(k) = j
          BY <2>7, <4>2
        <4> QED
          BY <2>5, <4>1, <4>3 DEF Elements
      <3> QED
        BY <3>1, <3>2
    <2> QED
      BY <1>2, <2>2, <2>3, <2>8, <2>9
  <1> QED
    BY <1>1, <1>2

\* So do the arrows.
LEMMA SwappedIs ==
  ASSUME selected \in Seq(Activities), Distinct(selected),
         NEW i \in DOMAIN selected, NEW k \in DOMAIN selected
  PROVE  Swapped(selected, i, k) \in Seq(Activities) /\ Distinct(Swapped(selected, i, k))
  <1> DEFINE once == [selected EXCEPT ![i] = selected[k]]
             new == [once EXCEPT ![k] = selected[i]]
  <1>1. Swapped(selected, i, k) = new
    BY DEF Swapped
  <1>2. selected[i] \in Activities /\ selected[k] \in Activities
    OBVIOUS
  <1>3. once \in Seq(Activities) /\ DOMAIN once = DOMAIN selected
    BY <1>2
  <1>4. \A j \in DOMAIN selected : once[j] = IF j = i THEN selected[k] ELSE selected[j]
    OBVIOUS
  <1> HIDE DEF once
  <1>5. new \in Seq(Activities) /\ DOMAIN new = DOMAIN selected
    BY <1>2, <1>3
  <1>6. \A j \in DOMAIN selected :
          new[j] = IF j = k THEN selected[i] ELSE IF j = i THEN selected[k] ELSE selected[j]
    BY <1>3, <1>4
  <1> HIDE DEF new
  <1>7. Distinct(new)
    BY <1>5, <1>6 DEF Distinct
  <1> QED
    BY <1>1, <1>5, <1>7

-----------------------------------------------------------------------------
(* Types *)

\* A load that brings routes brings activities too.
LoadsRead == \A l \in Loads : Loaded(l) => loads[l].activities \subseteq Activities

TypeInv == TypeOK /\ LoadsRead

\* The office without the count of its faults.
OfficeTyped ==
  /\ status \in [Activities -> Coarse]
  /\ holder \in [Activities -> Drivers \cup {None}]
  /\ route \in [Routes -> [status : RouteStatus, driver : Drivers \cup {None},
                           stops : Seq(Activities)]]
  /\ numbered \in [Routes -> SUBSET (Nat \X Activities)]

LEMMA OfficeSplit == OfficeTypeOK <=> OfficeTyped /\ faults \in 0..MaxFaults
  BY DEF OfficeTypeOK, OfficeTyped

LEMMA OfficeKept == OfficeTyped /\ UNCHANGED officeVars => OfficeTyped'
  BY DEF OfficeTyped, officeVars

LEMMA CreateActivityTyped ==
  ASSUME OfficeTyped, NEW a \in Activities, CreateActivity(a) PROVE OfficeTyped'
  BY DEF OfficeTyped, CreateActivity, Coarse

LEMMA AssignTyped ==
  ASSUME OfficeTyped, NEW a, NEW d \in Drivers \cup {None}, AssignActivity(a, d)
  PROVE  OfficeTyped'
  BY DEF OfficeTyped, AssignActivity, GiveTo, Coarse

LEMMA WorkTyped ==
  ASSUME OfficeTyped, NEW a \in Activities, NEW d \in Drivers, Work(d, a) PROVE OfficeTyped'
  BY DEF OfficeTyped, Work, Coarse

LEMMA TransitTyped ==
  ASSUME OfficeTyped, NEW r \in Routes, NEW op \in RouteOps, Transit(r, op) PROVE OfficeTyped'
  <1>1. Target[op] \in RouteStatus
    BY DEF RouteOps, Target, RouteStatus
  <1> QED
    BY <1>1 DEF OfficeTyped, Transit

LEMMA CreateRouteTyped ==
  ASSUME OfficeTyped, NEW r \in Routes, NEW d \in Drivers, NEW stops \in Seq(Activities),
         NEW numbers \in SUBSET (Nat \X Activities), CreateRoute(r, d, stops, numbers)
  PROVE  OfficeTyped'
  <1>1. /\ route' = [route EXCEPT ![r] = [status |-> "planned", driver |-> d, stops |-> stops]]
        /\ numbered' = [numbered EXCEPT ![r] = numbers]
        /\ GiveTo(d, Elements(stops))
    BY DEF CreateRoute
  <1>2. [status |-> "planned", driver |-> d, stops |-> stops]
          \in [status : RouteStatus, driver : Drivers \cup {None}, stops : Seq(Activities)]
    BY DEF RouteStatus
  <1>3. status' \in [Activities -> Coarse] /\ holder' \in [Activities -> Drivers \cup {None}]
    BY <1>1 DEF OfficeTyped, GiveTo, Coarse
  <1> QED
    BY <1>1, <1>2, <1>3 DEF OfficeTyped

LEMMA ListsTyped ==
  ASSUME OfficeTyped
  PROVE  /\ Awaiting \subseteq Activities
         /\ RouteStatuses \in [Routes -> RouteStatus]
  BY DEF OfficeTyped, Awaiting, RouteStatuses

LEMMA FaultCounted == faults \in 0..MaxFaults /\ Fault => faults' \in 0..MaxFaults
  BY OfficeAssumption DEF Fault

-----------------------------------------------------------------------------
(* What the planning page keeps *)

PlanningTyped == PlanningTypeOK /\ LoadsRead

LEMMA PlanningKept == PlanningTyped /\ UNCHANGED planningVars => PlanningTyped'
  BY DEF PlanningTyped, PlanningTypeOK, LoadsRead, Loaded, planningVars

LEMMA NewLoadTyped ==
  ASSUME NEW ofWrite \in BOOLEAN
  PROVE  NewLoad(ofWrite) \in Load /\ NewLoad(ofWrite).routes = None
  BY DEF NewLoad, Load

\* A load changes, and what it has read is of the right kind.
LEMMA LoadChanges ==
  ASSUME PlanningTyped, NEW l \in Loads, NEW new \in Load \cup {None},
         new # None /\ new.routes # None => new.activities \subseteq Activities,
         loads' = [loads EXCEPT ![l] = new]
  PROVE  loads' \in [Loads -> Load \cup {None}] /\ LoadsRead'
  BY DEF PlanningTyped, PlanningTypeOK, LoadsRead, Loaded

LEMMA BeginLoadTyped ==
  ASSUME PlanningTyped, NEW l \in Loads, NEW ofWrite \in BOOLEAN, BeginLoad(l, ofWrite)
  PROVE  loads' \in [Loads -> Load \cup {None}] /\ LoadsRead' /\ loading' \in BOOLEAN
  BY NewLoadTyped, LoadChanges DEF BeginLoad

LEMMA EndLoadTyped ==
  ASSUME PlanningTyped, NEW l \in Loads, loads[l] # None, EndLoad(l)
  PROVE  /\ loads' \in [Loads -> Load \cup {None}] /\ LoadsRead'
         /\ loading' \in BOOLEAN /\ saving' \in BOOLEAN
  <1>1. loads[l] \in Load
    BY DEF PlanningTyped, PlanningTypeOK
  <1>2. saving' \in BOOLEAN /\ loading' \in BOOLEAN
    BY <1>1 DEF EndLoad, PlanningTyped, PlanningTypeOK, Load
  <1> QED
    BY <1>2, LoadChanges DEF EndLoad

LEMMA WriteTyped ==
  ASSUME write \in Write, NEW stage \in {"sent", "done", "failed"}, WriteIs(stage)
  PROVE  write' \in Write
  BY DEF Write, WriteIs

\* The loads of the planning page.
LEMMA LoadingTyped ==
  ASSUME OfficeTyped, PlanningTyped, NEW l \in Loads,
         PressRefresh(l) \/ LoadAnswer(l) \/ LoadFails(l)
  PROVE  PlanningTyped'
  <1> USE DEF PlanningTyped, PlanningTypeOK
  <1>1. CASE PressRefresh(l)
    BY <1>1, BeginLoadTyped DEF PressRefresh
  <1>2. CASE ReadLists(l)
    <2> DEFINE once == [loads[l] EXCEPT !.routes = RouteStatuses]
               new == [once EXCEPT !.activities = Awaiting]
    <2>1. loads[l] \in Load
      BY <1>2 DEF ReadLists, Asked
    <2>2. once \in Load
      BY <2>1, ListsTyped DEF Load
    <2>3. loads' = [loads EXCEPT ![l] = new]
      BY <1>2 DEF ReadLists
    <2> HIDE DEF once
    <2>4. new \in Load /\ new.activities = Awaiting
      BY <2>2, ListsTyped DEF Load
    <2> HIDE DEF new
    <2>5. loads' \in [Loads -> Load \cup {None}] /\ LoadsRead'
      BY <2>3, <2>4, ListsTyped, LoadChanges
    <2> QED
      BY <1>2, <2>5 DEF ReadLists
  <1>3. CASE LoadArrives(l)
    <2>1. loads[l] \in Load /\ loads[l].routes # None
      BY <1>3 DEF LoadArrives, Loaded
    <2>2. routesShown' \in [Routes -> RouteStatus] /\ available' \subseteq Activities
      BY <1>3, <2>1 DEF LoadArrives, Load, LoadsRead
    <2> QED
      BY <1>3, <2>1, <2>2, EndLoadTyped DEF LoadArrives, Loaded
  <1>4. CASE LoadFails(l)
    BY <1>4, EndLoadTyped DEF LoadFails
  <1> QED
    BY <1>1, <1>2, <1>3, <1>4 DEF LoadAnswer

\* The form of the planning page.
LEMMA FormTyped ==
  ASSUME PlanningTyped,
         \/ \E a \in Activities : Toggle(a) \/ Move(a)
         \/ \E d \in Drivers : PressCreate(d)
         \/ \E r \in Routes : PressTransition(r)
  PROVE  PlanningTyped'
  <1> USE DEF PlanningTyped, PlanningTypeOK
  <1>1. CASE \E a \in Activities : Toggle(a)
    <2>1. selected' \in Seq(Activities) /\ Distinct(selected')
      BY <1>1, ToggledIs DEF Toggle
    <2> QED
      BY <1>1, <2>1 DEF Toggle, LoadsRead, Loaded
  <1>2. CASE \E a \in Activities : Move(a)
    <2>1. selected' \in Seq(Activities) /\ Distinct(selected')
      BY <1>2, SwappedIs DEF Move
    <2> QED
      BY <1>2, <2>1 DEF Move, LoadsRead, Loaded
  <1>3. CASE \E d \in Drivers : PressCreate(d)
    <2>1. PICK d \in Drivers : PressCreate(d)
      BY <1>3
    <2>2. NumbersShown \subseteq Nat \X Activities
      BY DEF NumbersShown
    <2>3. write' \in Write
      BY <2>1, <2>2 DEF PressCreate, BeginWrite, Write, Submitted
    <2> QED
      BY <2>1, <2>3 DEF PressCreate, BeginWrite, LoadsRead, Loaded
  <1>4. CASE \E r \in Routes : PressTransition(r)
    <2>1. PICK r \in Routes : PressTransition(r)
      BY <1>4
    <2>2. NextOp(routesShown[r]) \in RouteOps
      BY DEF NextOp, RouteOps
    <2>3. write' \in Write
      BY <2>1, <2>2 DEF PressTransition, BeginWrite, Write
    <2> QED
      BY <2>1, <2>3 DEF PressTransition, BeginWrite, LoadsRead, Loaded
  <1> QED
    BY <1>1, <1>2, <1>3, <1>4

\* The write of the planning page, and its end.
LEMMA WritingTyped ==
  ASSUME PlanningTyped,
         ServeWrite \/ WriteRefused \/ WriteLost \/ Reload \/ \E l \in Loads : WriteSucceeds(l)
  PROVE  PlanningTyped'
  <1> USE DEF PlanningTyped, PlanningTypeOK
  <1>1. CASE ServeWrite \/ WriteLost
    <2>1. write \in Write
      BY <1>1 DEF ServeWrite, WriteLost, Writing
    <2>2. write' \in Write
      BY <1>1, <2>1, WriteTyped DEF ServeWrite, WriteLost
    <2> QED
      BY <1>1, <2>2 DEF ServeWrite, WriteLost, LoadsRead, Loaded
  <1>2. CASE WriteRefused
    BY <1>2 DEF WriteRefused, LoadsRead, Loaded
  <1>3. CASE \E l \in Loads : WriteSucceeds(l)
    <2>1. PICK l \in Loads : WriteSucceeds(l)
      BY <1>3
    <2>2. loads' \in [Loads -> Load \cup {None}] /\ LoadsRead' /\ loading' \in BOOLEAN
      BY <2>1, BeginLoadTyped DEF WriteSucceeds
    <2>3. selected' \in Seq(Activities) /\ Distinct(selected')
      BY <2>1 DEF WriteSucceeds, Distinct
    <2> QED
      BY <2>1, <2>2, <2>3 DEF WriteSucceeds
  <1>4. CASE Reload
    <2>1. loads' \in [Loads -> Load \cup {None}] /\ LoadsRead'
      BY <1>4, NewLoadTyped DEF Reload, LoadsRead, Loaded
    <2>2. selected' \in Seq(Activities) /\ Distinct(selected')
      BY <1>4 DEF Reload, Distinct
    <2>3. routesShown' \in [Routes -> RouteStatus]
      BY <1>4 DEF Reload, RouteStatus
    <2> QED
      BY <1>4, <2>1, <2>2, <2>3 DEF Reload
  <1> QED
    BY <1>1, <1>2, <1>3, <1>4

\* What a write of the planning page asks of the API.
LEMMA ExecuteTyped ==
  ASSUME OfficeTyped, write \in Write, NEW accepted \in BOOLEAN, Execute(write, accepted)
  PROVE  OfficeTyped'
  <1>1. CASE UNCHANGED officeVars
    BY <1>1, OfficeKept
  <1>2. CASE Create(write, accepted) /\ accepted
    <2>1. /\ write.driver \in Drivers /\ write.stops \in Seq(Activities)
          /\ write.numbers \in SUBSET (Nat \X Activities)
      BY <1>2 DEF Create, Write, RouteOps
    <2> QED
      BY <1>2, <2>1, CreateRouteTyped DEF Create
  <1>3. CASE MoveRoute(write, accepted) /\ accepted
    <2>1. write.route \in Routes /\ write.op \in RouteOps
      BY <1>3 DEF MoveRoute, Write, RouteOps
    <2> QED
      BY <1>3, <2>1, TransitTyped DEF MoveRoute
  <1> QED
    BY <1>1, <1>2, <1>3 DEF Execute, Create, MoveRoute

LEMMA PlanningStepTyped ==
  ASSUME OfficeTypeOK, PlanningTyped, PlanningNext
  PROVE  OfficeTypeOK' /\ PlanningTyped'
  <1>1. OfficeTyped /\ faults \in 0..MaxFaults
    BY OfficeSplit
  <1>2. PlanningTyped'
    BY <1>1, LoadingTyped, FormTyped, WritingTyped DEF PlanningNext, Planner, PlanningAnswer
  <1>3. CASE ServeWrite
    <2>1. write \in Write
      BY <1>3 DEF ServeWrite, Writing, PlanningTyped, PlanningTypeOK
    <2>2. OfficeTyped'
      BY <1>1, <1>3, <2>1, ExecuteTyped DEF ServeWrite
    <2> QED
      BY <1>1, <1>2, <1>3, <2>2 DEF ServeWrite, OfficeTypeOK, OfficeTyped
  <1>4. CASE ~ServeWrite
    <2>1. UNCHANGED officeVars /\ faults' \in 0..MaxFaults
      <3>1. CASE Planner
        BY <1>1, <3>1 DEF Planner, PressRefresh, Toggle, Move, PressCreate, PressTransition,
                          BeginWrite
      <3>2. CASE PlanningAnswer
        BY <1>1, <1>4, <3>2 DEF PlanningAnswer, WriteRefused, WriteSucceeds
      <3>3. CASE \E l \in Loads : LoadAnswer(l) \/ LoadFails(l)
        BY <1>1, <3>3, FaultCounted DEF LoadAnswer, ReadLists, LoadArrives, LoadFails
      <3>4. CASE WriteLost \/ Reload
        BY <1>1, <3>4, FaultCounted DEF WriteLost, Reload
      <3> QED
        BY <3>1, <3>2, <3>3, <3>4 DEF PlanningNext
    <2>2. OfficeTyped'
      BY <1>1, <2>1, OfficeKept
    <2> QED
      BY <1>2, <2>1, <2>2 DEF OfficeTypeOK, OfficeTyped
  <1> QED
    BY <1>3, <1>4

-----------------------------------------------------------------------------
(* What the operations page keeps *)

LEMMA OperationsKept == OperationsTypeOK /\ UNCHANGED operationsVars => OperationsTypeOK'
  BY DEF OperationsTypeOK, operationsVars, operationsFree

LEMMA BeginReadTyped ==
  ASSUME OperationsTypeOK, NEW l \in Reads, BeginRead(l)
  PROVE  reads' \in [Reads -> Read \cup {None}] /\ refreshing' \in BOOLEAN
  BY DEF OperationsTypeOK, BeginRead, Read

\* The loads of the operations page.
LEMMA ReadingTyped ==
  ASSUME OfficeTyped, OperationsTypeOK, NEW l \in Reads,
         PressRevalidate(l) \/ ReadAnswer(l) \/ RowsFail(l)
  PROVE  OperationsTypeOK'
  <1> USE DEF OperationsTypeOK
  <1>1. CASE PressRevalidate(l)
    BY <1>1, BeginReadTyped DEF PressRevalidate
  <1>2. CASE ReadRows(l)
    BY <1>2, ListsTyped DEF ReadRows, Read
  <1>3. CASE RowsArrive(l)
    <2>1. reads[l] \in Read
      BY <1>3 DEF RowsArrive
    <2> QED
      BY <1>3, <2>1 DEF RowsArrive, Read
  <1>4. CASE RowsFail(l)
    BY <1>4 DEF RowsFail
  <1> QED
    BY <1>1, <1>2, <1>3, <1>4 DEF ReadAnswer

LEMMA DetachedRequests ==
  ASSUME OperationsTypeOK PROVE Detached \in [Requests -> Request \cup {None}]
  BY DEF OperationsTypeOK, Detached, Request

\* The dialogs.
LEMMA DialogTyped ==
  ASSUME OperationsTypeOK,
         \/ \E subject \in Activities \cup {"create"} : OpenDialog(subject)
         \/ CloseDialog
         \/ \E q \in Requests : ConfirmCreate(q) \/ \E d \in Drivers : ConfirmAssign(q, d)
  PROVE  OperationsTypeOK'
  <1> USE DEF OperationsTypeOK
  <1>1. CASE \E subject \in Activities \cup {"create"} : OpenDialog(subject)
    BY <1>1 DEF OpenDialog
  <1>2. CASE CloseDialog
    BY <1>2, DetachedRequests DEF CloseDialog
  <1>3. CASE \E q \in Requests : ConfirmCreate(q)
    BY <1>3 DEF ConfirmCreate, Ask, Request
  <1>4. CASE \E q \in Requests, d \in Drivers : ConfirmAssign(q, d)
    BY <1>4 DEF ConfirmAssign, Ask, Request
  <1> QED
    BY <1>1, <1>2, <1>3, <1>4

\* A request in the operations page's hands.
LEMMA AskedTyped ==
  ASSUME OperationsTypeOK, NEW q \in Requests,
         RequestAnswer(q) \/ RequestLost(q) \/ RequestStrays(q)
  PROVE  OperationsTypeOK'
  <1> USE DEF OperationsTypeOK
  <1>1. CASE ServeRequest(q)
    <2>1. PICK accepted \in BOOLEAN : Answered(q, accepted)
      BY <1>1 DEF ServeRequest
    <2>2. requests[q] \in Request
      BY <1>1 DEF ServeRequest
    <2>3. requests' \in [Requests -> Request \cup {None}]
      BY <2>1, <2>2 DEF Answered, Request
    <2> QED
      BY <1>1, <2>3 DEF ServeRequest
  <1>2. CASE RequestLost(q)
    <2>1. requests[q] \in Request
      BY <1>2 DEF RequestLost
    <2>2. requests' \in [Requests -> Request \cup {None}]
      BY <1>2, <2>1 DEF RequestLost, RequestIs, Request
    <2> QED
      BY <1>2, <2>2 DEF RequestLost
  <1>3. CASE RequestStrays(q)
    <2> DEFINE once == [requests[q] EXCEPT !.stage = "stray"]
               new == [once EXCEPT !.ofDialog = FALSE]
    <2>1. requests[q] \in Request
      BY <1>3 DEF RequestStrays
    <2>2. once \in Request
      BY <2>1 DEF Request
    <2>3. requests' = [requests EXCEPT ![q] = new]
      <3> DEFINE first == [requests EXCEPT ![q].stage = "stray"]
      <3>1. first = [requests EXCEPT ![q] = once]
        OBVIOUS
      <3>2. requests' = [first EXCEPT ![q].ofDialog = FALSE]
        BY <1>3 DEF RequestStrays
      <3> HIDE DEF first, once
      <3>3. first[q] = once /\ DOMAIN first = Requests
        BY <3>1
      <3>4. requests' = [first EXCEPT ![q] = new]
        BY <3>2, <3>3
      <3> HIDE DEF new
      <3> QED
        BY <3>1, <3>4
    <2> HIDE DEF once
    <2>4. new \in Request
      BY <2>2 DEF Request
    <2> HIDE DEF new
    <2>5. requests' \in [Requests -> Request \cup {None}]
      BY <2>3, <2>4
    <2>6. busy' \in BOOLEAN
      BY <1>3 DEF RequestStrays, Released
    <2> QED
      BY <1>3, <2>5, <2>6 DEF RequestStrays
  <1>4. CASE RequestRefused(q)
    BY <1>4 DEF RequestRefused, Released
  <1>5. CASE \E l \in Reads : RequestSucceeds(q, l)
    <2>1. PICK l \in Reads : RequestSucceeds(q, l)
      BY <1>5
    <2>2. requests' \in [Requests -> Request \cup {None}]
      BY <2>1, DetachedRequests DEF RequestSucceeds
    <2>3. dialog' \in Activities \cup {"create", None} /\ busy' \in BOOLEAN
      BY <2>1 DEF RequestSucceeds
    <2> QED
      BY <2>1, <2>2, <2>3, BeginReadTyped DEF RequestSucceeds
  <1> QED
    BY <1>1, <1>2, <1>3, <1>4, <1>5 DEF RequestAnswer

LEMMA OperationsStepTyped ==
  ASSUME OfficeTypeOK, OperationsTypeOK, OperationsNext
  PROVE  OfficeTypeOK' /\ OperationsTypeOK'
  <1>1. OfficeTyped /\ faults \in 0..MaxFaults
    BY OfficeSplit
  <1>2. OperationsTypeOK'
    BY <1>1, ReadingTyped, DialogTyped, AskedTyped DEF OperationsNext, Operator
  <1>3. CASE \E q \in Requests : ServeRequest(q)
    <2>1. PICK q \in Requests : ServeRequest(q)
      BY <1>3
    <2>2. requests[q].driver \in Drivers \cup {None}
      BY <2>1 DEF ServeRequest, OperationsTypeOK, Request
    <2>3. OfficeTyped'
      BY <1>1, <2>1, <2>2, CreateActivityTyped, AssignTyped, OfficeKept DEF ServeRequest
    <2> QED
      BY <1>1, <1>2, <2>1, <2>3 DEF ServeRequest, OfficeTypeOK, OfficeTyped
  <1>4. CASE ~\E q \in Requests : ServeRequest(q)
    <2>1. UNCHANGED officeVars /\ faults' \in 0..MaxFaults
      <3>1. CASE Operator
        BY <1>1, <3>1 DEF Operator, PressRevalidate, OpenDialog, CloseDialog, ConfirmCreate,
                          ConfirmAssign, Ask
      <3>2. CASE \E q \in Requests : RequestAnswer(q) \/ RequestLost(q) \/ RequestStrays(q)
        BY <1>1, <1>4, <3>2, FaultCounted
           DEF RequestAnswer, RequestRefused, RequestSucceeds, RequestLost, RequestStrays
      <3>3. CASE \E l \in Reads : ReadAnswer(l) \/ RowsFail(l)
        BY <1>1, <3>3, FaultCounted DEF ReadAnswer, ReadRows, RowsArrive, RowsFail
      <3> QED
        BY <3>1, <3>2, <3>3 DEF OperationsNext
    <2>2. OfficeTyped'
      BY <1>1, <2>1, OfficeKept
    <2> QED
      BY <1>2, <2>1, <2>2 DEF OfficeTypeOK, OfficeTyped
  <1> QED
    BY <1>3, <1>4

LEMMA ElsewhereTyped ==
  ASSUME OfficeTypeOK, OperationsTypeOK, Elsewhere
  PROVE  OfficeTypeOK' /\ OperationsTypeOK'
  <1>1. OfficeTyped /\ faults \in 0..MaxFaults
    BY OfficeSplit
  <1>2. faults' = faults
    BY DEF Elsewhere
  <1>3. OfficeTyped'
    BY <1>1, AssignTyped, TransitTyped, WorkTyped, CreateActivityTyped
       DEF Elsewhere, OthersAssign, OthersTransit
  <1>4. OperationsTypeOK'
    BY DEF Elsewhere, OperationsTypeOK, operationsVars, operationsFree
  <1> QED
    BY <1>1, <1>2, <1>3, <1>4 DEF OfficeTypeOK, OfficeTyped

-----------------------------------------------------------------------------

LEMMA InitTyped == Init => TypeInv
  <1> SUFFICES ASSUME Init PROVE TypeInv
    OBVIOUS
  <1>1. OfficeTyped /\ faults \in 0..MaxFaults
    BY OfficeAssumption DEF Init, OfficeInit, OfficeTyped, Coarse, NoRoute, RouteStatus
  <1>2. PlanningTyped
    <2>1. loads \in [Loads -> Load \cup {None}] /\ LoadsRead
      BY DEF Init, PlanningInit, LoadsRead, Loaded
    <2>2. selected \in Seq(Activities) /\ Distinct(selected)
      BY DEF Init, PlanningInit, Distinct
    <2>3. available \subseteq Activities /\ routesShown \in [Routes -> RouteStatus]
      BY <1>1, ListsTyped DEF Init, PlanningInit
    <2> QED
      BY <2>1, <2>2, <2>3 DEF Init, PlanningInit, PlanningTyped, PlanningTypeOK
  <1>3. OperationsTypeOK
    BY <1>1, ListsTyped DEF Init, OperationsInit, OperationsTypeOK
  <1> QED
    BY <1>1, <1>2, <1>3, OfficeSplit DEF Init, TypeInv, TypeOK, PlanningTyped

LEMMA NextTyped == TypeInv /\ [Next]_vars => TypeInv'
  <1> SUFFICES ASSUME TypeInv, [Next]_vars PROVE TypeInv'
    OBVIOUS
  <1>1. OfficeTypeOK /\ PlanningTyped /\ OperationsTypeOK /\ page \in {"planejamento", "operacoes"}
    BY DEF TypeInv, TypeOK, PlanningTyped
  <1>2. OfficeTypeOK' /\ PlanningTyped' /\ OperationsTypeOK'
    <2>1. CASE OnPlanning(PlanningNext)
      BY <1>1, <2>1, PlanningStepTyped, OperationsKept DEF OnPlanning
    <2>2. CASE OnOperations(OperationsNext)
      BY <1>1, <2>2, OperationsStepTyped, PlanningKept DEF OnOperations
    <2>3. CASE Elsewhere
      BY <1>1, <2>3, ElsewhereTyped, PlanningKept DEF Elsewhere
    <2>4. CASE UNCHANGED vars
      BY <1>1, <2>4, OfficeSplit, OfficeKept, PlanningKept, OperationsKept
         DEF vars, OfficeTypeOK, OfficeTyped, officeVars
    <2> QED
      BY <2>1, <2>2, <2>3, <2>4 DEF Next
  <1>3. page' = page
    BY DEF Next, OnPlanning, OnOperations, Elsewhere, vars
  <1> QED
    BY <1>1, <1>2, <1>3 DEF TypeInv, TypeOK, PlanningTyped

\* Every variable of the dashboard keeps its type; above all the selection
\* stays free of duplicates, through the checkboxes and the arrows, so that a
\* route is never refused for them (planejamento/page.tsx:43, :50;
\* routes.service.ts refuses a list with duplicates).
THEOREM TypeCorrect == Spec => []TypeOK
  <1>1. TypeInv => TypeOK
    BY DEF TypeInv
  <1> QED
    BY <1>1, InitTyped, NextTyped, PTL DEF Spec

-----------------------------------------------------------------------------
(* The dashboard gives activities away as Ownership does *)

\* An activity nobody has been given belongs to nobody.
WaitingIsFree ==
  \A a \in Activities : status[a] \in {"none", "awaiting"} => holder[a] = None

OwnInv == TypeInv /\ RequestsConfirmed /\ WaitingIsFree

contractVars == <<holder, PlanOf>>

\* A step of the office as a step of Ownership: it keeps what waits free.
Allowed == WaitingIsFree' /\ [Contract!Next]_contractVars

LEMMA QuietAllowed ==
  ASSUME WaitingIsFree, UNCHANGED officeVars PROVE Allowed
  BY DEF WaitingIsFree, Allowed, officeVars, contractVars, PlanOf

LEMMA CreateActivityAllowed ==
  ASSUME OfficeTyped, WaitingIsFree, NEW a \in Activities, CreateActivity(a) PROVE Allowed
  BY DEF OfficeTyped, WaitingIsFree, CreateActivity, Allowed, contractVars, PlanOf

LEMMA WorkAllowed ==
  ASSUME OfficeTyped, WaitingIsFree, NEW a \in Activities, NEW d \in Drivers, Work(d, a)
  PROVE  Allowed
  BY DEF OfficeTyped, WaitingIsFree, Work, Allowed, contractVars, PlanOf

\* A route that is moved was planned and stays so, with its driver and stops.
LEMMA TransitAllowed ==
  ASSUME OfficeTyped, WaitingIsFree, NEW r \in Routes, NEW op \in RouteOps,
         MayTransit(r, op), Transit(r, op)
  PROVE  Allowed
  <1>1. Target[op] # "none" /\ route[r].status # "none"
    BY MovedExists DEF RouteOps, Target
  <1>2. /\ route' = [route EXCEPT ![r].status = Target[op]]
        /\ holder' = holder /\ status' = status
    BY DEF Transit
  <1>3. \A s \in Routes :
          /\ route'[s].driver = route[s].driver /\ route'[s].stops = route[s].stops
          /\ route'[s].status = "none" <=> route[s].status = "none"
    BY <1>1, <1>2 DEF OfficeTyped
  <1>4. PlanOf' = PlanOf
    BY <1>3 DEF PlanOf
  <1> QED
    BY <1>2, <1>4 DEF WaitingIsFree, Allowed, contractVars

\* One activity is assigned.
LEMMA AssignAllowed ==
  ASSUME OfficeTyped, WaitingIsFree, NEW a \in Activities, NEW d \in Drivers,
         MayAssign(a), AssignActivity(a, d)
  PROVE  Allowed
  <1>1. holder[a] = None
    BY DEF WaitingIsFree, MayAssign
  <1>2. /\ holder' = [b \in Activities |-> IF b \in {a} THEN d ELSE holder[b]]
        /\ status' = [b \in Activities |-> IF b \in {a} THEN "given" ELSE status[b]]
        /\ route' = route
    BY DEF AssignActivity, GiveTo
  <1>3. Contract!AssignDirectly(a, d)
    BY <1>1, <1>2 DEF Contract!AssignDirectly, Contract!Give, Contract!Free, PlanOf
  <1>4. WaitingIsFree'
    BY <1>2 DEF WaitingIsFree
  <1> QED
    BY <1>3, <1>4 DEF Allowed, Contract!Next

\* A route is planned.
LEMMA CreateRouteAllowed ==
  ASSUME OfficeTyped, WaitingIsFree, NEW r \in Routes, NEW d \in Drivers,
         NEW stops \in Seq(Activities), NEW numbers,
         MayCreate(stops), CreateRoute(r, d, stops, numbers)
  PROVE  Allowed
  <1>1. Elements(stops) \subseteq Activities /\ \A a \in Elements(stops) : holder[a] = None
    BY DEF MayCreate, Awaiting, WaitingIsFree
  <1>2. /\ holder' = [b \in Activities |-> IF b \in Elements(stops) THEN d ELSE holder[b]]
        /\ status' = [b \in Activities |-> IF b \in Elements(stops) THEN "given" ELSE status[b]]
        /\ route' = [route EXCEPT ![r] = [status |-> "planned", driver |-> d, stops |-> stops]]
        /\ route[r].status = "none"
    BY DEF CreateRoute, GiveTo
  <1>3. /\ route'[r] = [status |-> "planned", driver |-> d, stops |-> stops]
        /\ \A s \in Routes \ {r} : route'[s] = route[s]
    BY <1>2 DEF OfficeTyped
  <1>4. PlanOf[r] = None
    BY <1>2 DEF PlanOf
  <1>5. PlanOf' = [PlanOf EXCEPT ![r] = [driver |-> d, stops |-> Elements(stops)]]
    <2> DEFINE new == [PlanOf EXCEPT ![r] = [driver |-> d, stops |-> Elements(stops)]]
    <2>1. PlanOf = [s \in Routes |-> PlanOf[s]] /\ PlanOf' = [s \in Routes |-> PlanOf'[s]]
      BY DEF PlanOf
    <2>2. PlanOf'[r] = [driver |-> d, stops |-> Elements(stops)]
      BY <1>3 DEF PlanOf
    <2>3. \A s \in Routes \ {r} : PlanOf'[s] = PlanOf[s]
      BY <1>3 DEF PlanOf
    <2> QED
      BY <2>1, <2>2, <2>3
  <1>6. Contract!PlanRoute(r, d, Elements(stops))
    BY <1>1, <1>2, <1>4, <1>5 DEF Contract!PlanRoute, Contract!Give, Contract!Free
  <1>7. WaitingIsFree'
    BY <1>2 DEF WaitingIsFree
  <1> QED
    BY <1>1, <1>6, <1>7 DEF Allowed, Contract!Next

LEMMA PlanningAllowed ==
  ASSUME OwnInv, PlanningNext PROVE Allowed
  <1>1. OfficeTyped /\ WaitingIsFree /\ PlanningTypeOK
    BY OfficeSplit DEF OwnInv, TypeInv, TypeOK
  <1>2. CASE UNCHANGED officeVars
    BY <1>1, <1>2, QuietAllowed
  <1>3. CASE ServeWrite
    <2>1. PICK accepted \in BOOLEAN : Execute(write, accepted)
      BY <1>3 DEF ServeWrite
    <2>2. write \in Write
      BY <1>1, <1>3 DEF ServeWrite, Writing, PlanningTypeOK
    <2>3. CASE Create(write, accepted) /\ accepted
      <3>1. write.driver \in Drivers /\ write.stops \in Seq(Activities)
        BY <2>2, <2>3 DEF Create, Write, RouteOps
      <3> QED
        BY <1>1, <2>3, <3>1, CreateRouteAllowed DEF Create
    <2>4. CASE MoveRoute(write, accepted) /\ accepted
      <3>1. write.route \in Routes /\ write.op \in RouteOps
        BY <2>2, <2>4 DEF MoveRoute, Write, RouteOps
      <3> QED
        BY <1>1, <2>4, <3>1, TransitAllowed DEF MoveRoute
    <2> QED
      BY <1>2, <2>1, <2>3, <2>4 DEF Execute, Create, MoveRoute
  <1>4. CASE ~ServeWrite
    <2>1. UNCHANGED officeVars
      BY <1>4 DEF PlanningNext, Planner, PressRefresh, Toggle, Move, PressCreate, PressTransition,
                  BeginWrite, PlanningAnswer, WriteRefused, WriteSucceeds, LoadAnswer, ReadLists,
                  LoadArrives, LoadFails, WriteLost, Reload
    <2> QED
      BY <1>2, <2>1
  <1> QED
    BY <1>3, <1>4

LEMMA OperationsAllowed ==
  ASSUME OwnInv, OperationsNext PROVE Allowed
  <1>1. OfficeTyped /\ WaitingIsFree /\ OperationsTypeOK
    BY OfficeSplit DEF OwnInv, TypeInv, TypeOK
  <1>2. CASE UNCHANGED officeVars
    BY <1>1, <1>2, QuietAllowed
  <1>3. CASE \E q \in Requests : ServeRequest(q)
    <2>1. PICK q \in Requests : ServeRequest(q)
      BY <1>3
    <2>2. CASE \E a \in Activities : CreateActivity(a)
      BY <1>1, <2>2, CreateActivityAllowed
    <2>3. CASE /\ Subject(q) # "create" /\ MayAssign(Subject(q))
               /\ AssignActivity(Subject(q), requests[q].driver)
      <3>1. <<requests[q].activity, requests[q].driver>> \in confirmed
        BY <2>1, <2>3 DEF ServeRequest, Subject, OwnInv, RequestsConfirmed
      <3>2. Subject(q) \in Activities /\ requests[q].driver \in Drivers
        BY <1>1, <3>1 DEF OperationsTypeOK, Subject
      <3> QED
        BY <1>1, <2>3, <3>2, AssignAllowed
    <2> QED
      BY <1>2, <2>1, <2>2, <2>3 DEF ServeRequest
  <1>4. CASE ~\E q \in Requests : ServeRequest(q)
    <2>1. UNCHANGED officeVars
      BY <1>4 DEF OperationsNext, Operator, PressRevalidate, OpenDialog, CloseDialog,
                  ConfirmCreate, ConfirmAssign, Ask, RequestAnswer, RequestRefused,
                  RequestSucceeds, RequestLost, RequestStrays, ReadAnswer, ReadRows, RowsArrive,
                  RowsFail
    <2> QED
      BY <1>2, <2>1
  <1> QED
    BY <1>3, <1>4

LEMMA ElsewhereAllowed ==
  ASSUME OwnInv, Elsewhere PROVE Allowed
  <1>1. OfficeTyped /\ WaitingIsFree
    BY OfficeSplit DEF OwnInv, TypeInv, TypeOK
  <1> QED
    BY <1>1, AssignAllowed, TransitAllowed, WorkAllowed, CreateActivityAllowed
       DEF Elsewhere, OthersAssign, OthersTransit, MayTransit

LEMMA NextAllowed == OwnInv /\ [Next]_vars => Allowed
  <1> SUFFICES ASSUME OwnInv, [Next]_vars PROVE Allowed
    OBVIOUS
  <1>1. CASE UNCHANGED vars
    BY <1>1, QuietAllowed DEF OwnInv, vars, officeVars
  <1> QED
    BY <1>1, PlanningAllowed, OperationsAllowed, ElsewhereAllowed
       DEF Next, OnPlanning, OnOperations

LEMMA InitAllowed == Init => WaitingIsFree /\ Contract!Init
  BY DEF Init, OfficeInit, WaitingIsFree, Contract!Init, PlanOf, NoRoute

\* Whatever the pages show and however their requests overtake each other, the
\* dashboard gives activities away as Ownership allows, for any number of
\* activities, drivers, routes, loads and requests (activities.service.ts:57,
\* routes.service.ts:52).  Dispatch, whose requests are not one step, does too
\* (DispatchProofs, Refinement).
THEOREM Refinement == Spec => ImplementsOwnership
  <1>1. Init => WaitingIsFree /\ Contract!Init
    BY InitAllowed
  <1>2. TypeInv /\ HeldInv /\ WaitingIsFree /\ [Next]_vars
          => WaitingIsFree' /\ [Contract!Next]_<<holder, PlanOf>>
    BY NextAllowed DEF OwnInv, HeldInv, Allowed, contractVars
  <1> QED
    BY <1>1, <1>2, InitTyped, NextTyped, InitHeld, NextHeld, PTL
       DEF Spec, ImplementsOwnership, Contract!Spec
=============================================================================
