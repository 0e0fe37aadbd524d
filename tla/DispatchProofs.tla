--------------------------- MODULE DispatchProofs ---------------------------
(***************************************************************************)
(* Proofs about Dispatch, for any sets of activities, drivers, routes,     *)
(* journeys and handlers, any subset of the operations and any bound on    *)
(* the proofs.                                                             *)
(*                                                                         *)
(* The invariants are not inductive by themselves: a handler acts on what  *)
(* it read earlier, so each needs a statement of what a decision still in  *)
(* hand may rely on at its commit.                                         *)
(***************************************************************************)
EXTENDS Dispatch, TLAPS

\* The operations that presuppose an activity some driver has.
FieldOps == TransitionOps \cup {"fail_activity", "finishing", "finish"}

\* Planning: the safety invariants, what a route that exists looks like, and
\* that an activity a handler acts on in the field still has its driver.
PlanningInv ==
  /\ AssignmentAgreement
  /\ OneRoutePerActivity
  /\ \A r \in Routes : IF routeStatus[r] = "none"
                         THEN stops[r] = {}
                         ELSE routeDriver[r] \in Drivers
  /\ \A h \in Handlers :
       About(h, FieldOps) => assigned[pending[h].activity] # {}

\* Journeys: the safety invariants, and that only started routes opened any.
JourneyInv ==
  /\ JourneyBacked
  /\ OneJourneyPerRoute
  /\ \A j \in Journeys : opener[j] = None <=> journey[j] = "none"
  /\ \A j \in Journeys :
       opener[j] # None => routeStatus[opener[j]] \in {"in_progress", "completed"}

\* Proofs: their numbering, and that a version computed but not yet written
\* is taken already or is the next one.
ProofInv ==
  /\ ProofsNumbered
  /\ CompletedHasProof
  /\ \A h \in Handlers :
       About(h, {"finish"}) =>
         pending[h].version \in 1..(Len(proofs[pending[h].activity]) + 1)

-----------------------------------------------------------------------------
(* What a decision looks like, by operation. *)

LEMMA PendingFields ==
  ASSUME TypeOK, NEW h \in Handlers, pending[h] # None
  PROVE  /\ pending[h].op \in {"assign"} \cup FieldOps => pending[h].activity \in Activities
         /\ pending[h].op \in {"assign", "plan"} => pending[h].driver \in Drivers
         /\ pending[h].op = "plan" => pending[h].stops \in SUBSET Activities
         /\ pending[h].op \in RouteOps => pending[h].route \in Routes
         /\ pending[h].op = "finish" => pending[h].version \in Nat
  BY DEF TypeOK, PendingWrite, FieldOps, TransitionOps, RouteOps

\* A handler that ends leaves every decision in hand as it was.
LEMMA DoneType ==
  ASSUME TypeOK, NEW h \in Handlers, Done(h)
  PROVE  pending' \in [Handlers -> PendingWrite \cup {None}]
  BY DEF TypeOK, Done

LEMMA DoneKeeps ==
  ASSUME TypeOK, NEW h \in Handlers, Done(h), NEW g \in Handlers, pending'[g] # None
  PROVE  g # h /\ pending'[g] = pending[g]
  BY DEF TypeOK, Done

\* With the proofs numbered, the latest is the last.
LEMMA LatestIsLast ==
  ASSUME TypeOK, ProofsNumbered, NEW a \in Activities
  PROVE  Latest(a) = Len(proofs[a])
<1> DEFINE V == {0} \cup {proofs[a][i] : i \in DOMAIN proofs[a]}
           IsLatest(v) == \A i \in DOMAIN proofs[a] : proofs[a][i] <= v
<1>1. /\ Len(proofs[a]) \in Nat
      /\ DOMAIN proofs[a] = 1..Len(proofs[a])
      /\ \A i \in 1..Len(proofs[a]) : proofs[a][i] = i
  BY DEF TypeOK, ProofsNumbered
<1>2. Len(proofs[a]) \in V /\ IsLatest(Len(proofs[a]))
  <2>1. CASE Len(proofs[a]) = 0
    BY <1>1, <2>1
  <2>2. CASE Len(proofs[a]) # 0
    <3>1. Len(proofs[a]) \in 1..Len(proofs[a])
      BY <1>1, <2>2
    <3>2. proofs[a][Len(proofs[a])] = Len(proofs[a])
      BY <1>1, <3>1
    <3> QED
      BY <1>1, <3>1, <3>2
  <2> QED
    BY <2>1, <2>2
<1>3. \A v \in V : IsLatest(v) => v = Len(proofs[a])
  <2> SUFFICES ASSUME NEW v \in V, IsLatest(v)
               PROVE  v = Len(proofs[a])
    OBVIOUS
  <2>1. v \in 0..Len(proofs[a])
    BY <1>1
  <2>2. CASE Len(proofs[a]) = 0
    BY <1>1, <2>1, <2>2
  <2>3. CASE Len(proofs[a]) # 0
    BY <1>1, <2>1, <2>3
  <2> QED
    BY <2>2, <2>3
<1>4. Latest(a) = CHOOSE v \in V : IsLatest(v)
  BY DEF Latest
<1> HIDE DEF V, IsLatest
<1> QED
  BY <1>2, <1>3, <1>4

-----------------------------------------------------------------------------
(* Types *)

THEOREM TypeInit == Init => TypeOK
BY DispatchAssumption DEF Init, TypeOK, ActivityStatus, RouteStatus, JourneyStatus

\* A decision is well typed when the write it records is.
LEMMA DecideType ==
  ASSUME TypeOK, NEW h \in Handlers, NEW write \in PendingWrite, Decide(h, write)
  PROVE  TypeOK'
BY DEF TypeOK, Decide, dbVars

LEMMA TypeReads ==
  ASSUME TypeOK, ProofInv, NEW h \in Handlers, Reads(h)
  PROVE  TypeOK'
<1>1. CASE \E a \in Activities, d \in Drivers : ReadAssign(h, a, d)
  <2> PICK a \in Activities, d \in Drivers : ReadAssign(h, a, d)
    BY <1>1
  <2>1. [op |-> "assign", activity |-> a, driver |-> d] \in PendingWrite
    BY DEF PendingWrite
  <2> QED
    BY <2>1, DecideType DEF ReadAssign
<1>2. CASE \E d \in Drivers, activities \in SUBSET Activities : ReadPlan(h, d, activities)
  <2> PICK d \in Drivers, activities \in SUBSET Activities : ReadPlan(h, d, activities)
    BY <1>2
  <2>1. [op |-> "plan", driver |-> d, stops |-> activities] \in PendingWrite
    BY DEF PendingWrite
  <2> QED
    BY <2>1, DecideType DEF ReadPlan
<1>3. CASE \E op \in RouteOps, r \in Routes : ReadRoute(h, op, r)
  <2> PICK op \in RouteOps, r \in Routes : ReadRoute(h, op, r)
    BY <1>3
  <2>1. [op |-> op, route |-> r] \in PendingWrite
    BY DEF PendingWrite
  <2> QED
    BY <2>1, DecideType DEF ReadRoute
<1>4. CASE \E op \in TransitionOps, a \in Activities : ReadCommand(h, op, a)
  <2> PICK op \in TransitionOps, a \in Activities : ReadCommand(h, op, a)
    BY <1>4
  <2>1. [op |-> op, activity |-> a] \in PendingWrite
    BY DEF PendingWrite
  <2> QED
    BY <2>1, DecideType DEF ReadCommand
<1>5. CASE \E a \in Activities : ReadFail(h, a)
  <2> PICK a \in Activities : ReadFail(h, a)
    BY <1>5
  <2>1. [op |-> "fail_activity", activity |-> a] \in PendingWrite
    BY DEF PendingWrite
  <2> QED
    BY <2>1, DecideType DEF ReadFail
<1>6. CASE \E a \in Activities : ReadFinish(h, a)
  <2> PICK a \in Activities : ReadFinish(h, a)
    BY <1>6
  <2>1. [op |-> "finishing", activity |-> a] \in PendingWrite
    BY DEF PendingWrite
  <2> QED
    BY <2>1 DEF ReadFinish, TypeOK, dbVars
<1>7. CASE ReadProof(h)
  <2>1. pending[h].activity \in Activities
    BY <1>7, PendingFields DEF ReadProof, About, FieldOps
  <2>2. Latest(pending[h].activity) + 1 \in Nat
    BY <2>1, LatestIsLast DEF TypeOK, ProofInv
  <2>3. [op |-> "finish", activity |-> pending[h].activity,
         version |-> Latest(pending[h].activity) + 1] \in PendingWrite
    BY <2>1, <2>2 DEF PendingWrite
  <2> QED
    BY <1>7, <2>3 DEF ReadProof, TypeOK, dbVars
<1> QED
  BY <1>1, <1>2, <1>3, <1>4, <1>5, <1>6, <1>7 DEF Reads

LEMMA TypeWrites ==
  ASSUME TypeOK, NEW h \in Handlers, Writes(h)
  PROVE  TypeOK'
<1> USE DEF TypeOK, ActivityStatus, RouteStatus, JourneyStatus
<1>0. Done(h) => pending' \in [Handlers -> PendingWrite \cup {None}]
  BY DoneType
<1> HIDE DEF TypeOK
<1>1. CASE Assign(h)
  <2>1. pending[h].driver \in Drivers /\ pending[h].activity \in Activities
    BY <1>1, PendingFields DEF Assign, About
  <2> QED
    BY <1>0, <1>1, <2>1 DEF Assign, GiveTo, TypeOK
<1>2. CASE \E r \in Routes : Plan(h, r)
  <2>1. pending[h].driver \in Drivers /\ pending[h].stops \in SUBSET Activities
    BY <1>2, PendingFields DEF Plan, About
  <2> QED
    BY <1>0, <1>2, <2>1 DEF Plan, GiveTo, TypeOK
<1>3. CASE Publish(h)
  BY <1>0, <1>3 DEF Publish, Move, TypeOK
<1>4. CASE \E j \in Journeys : Start(h, j)
  <2>1. pending[h].route \in Routes
    BY <1>4, PendingFields DEF Start, About, RouteOps
  <2> QED
    BY <1>0, <1>4, <2>1 DEF Start, Move, TypeOK
<1>5. CASE Complete(h)
  BY <1>0, <1>5 DEF Complete, Move, CloseJourneys, TypeOK
<1>6. CASE FinishRoute(h)
  BY <1>0, <1>6 DEF FinishRoute, Move, CloseJourneys, TypeOK
<1>7. CASE Command(h)
  <2>1. pending[h].activity \in Activities
    BY <1>7, PendingFields DEF Command, About, FieldOps
  <2>2. Target(pending[h].op) \in ActivityStatus
    BY <1>7 DEF Command, About, Target, Transition, TransitionOps
  <2> QED
    BY <1>0, <1>7, <2>1, <2>2 DEF Command, TypeOK
<1>8. CASE Finish(h)
  <2>1. pending[h].activity \in Activities /\ pending[h].version \in Nat
    BY <1>8, PendingFields DEF Finish, About, FieldOps
  <2> QED
    BY <1>0, <1>8, <2>1 DEF Finish, TypeOK
<1> QED
  BY <1>1, <1>2, <1>3, <1>4, <1>5, <1>6, <1>7, <1>8 DEF Writes

LEMMA TypeNext == TypeOK /\ ProofInv /\ [Next]_vars => TypeOK'
<1> SUFFICES ASSUME TypeOK, ProofInv, [Next]_vars
             PROVE  TypeOK'
  OBVIOUS
<1>1. ASSUME NEW a \in Activities, Create(a)
      PROVE  TypeOK'
  BY <1>1 DEF Create, TypeOK, ActivityStatus
<1>2. ASSUME NEW h \in Handlers, Abort(h)
      PROVE  TypeOK'
  BY <1>2, DoneType DEF Abort, dbVars, TypeOK
<1>3. CASE UNCHANGED vars
  BY <1>3 DEF vars, dbVars, TypeOK
<1> QED
  BY <1>1, <1>2, <1>3, TypeReads, TypeWrites DEF Next

-----------------------------------------------------------------------------
(* Numbering of the proofs *)

\* The steps that touch neither statuses nor proofs nor a version in hand.
LEMMA ProofFrame ==
  ASSUME TypeOK, ProofInv, UNCHANGED proofs,
         \A a \in Activities : status'[a] = "COMPLETED" => status[a] = "COMPLETED",
         \A g \in Handlers : About(g, {"finish"})' => pending'[g] = pending[g]
  PROVE  ProofInv'
<1>1. ProofsNumbered' /\ CompletedHasProof'
  BY DEF ProofInv, ProofsNumbered, CompletedHasProof
<1>2. ASSUME NEW g \in Handlers, About(g, {"finish"})'
      PROVE  pending'[g].version \in 1..(Len(proofs'[pending'[g].activity]) + 1)
  BY <1>2 DEF ProofInv, About
<1> QED
  BY <1>1, <1>2 DEF ProofInv

LEMMA ProofReads ==
  ASSUME TypeOK, ProofInv, NEW h \in Handlers, Reads(h)
  PROVE  ProofInv'
<1>1. CASE ReadProof(h)
  <2> DEFINE a == pending[h].activity
  <2>1. a \in Activities
    BY <1>1, PendingFields DEF ReadProof, About, FieldOps
  <2>2. Latest(a) = Len(proofs[a]) /\ Len(proofs[a]) \in Nat
    BY <2>1, LatestIsLast DEF TypeOK, ProofInv
  <2>3. /\ pending'[h] = [op |-> "finish", activity |-> a, version |-> Len(proofs[a]) + 1]
        /\ \A g \in Handlers : g # h => pending'[g] = pending[g]
        /\ UNCHANGED dbVars
    BY <1>1, <2>2 DEF ReadProof, TypeOK
  <2>4. ProofsNumbered' /\ CompletedHasProof'
    BY <2>3 DEF ProofInv, ProofsNumbered, CompletedHasProof, dbVars
  <2>5. ASSUME NEW g \in Handlers, About(g, {"finish"})'
        PROVE  pending'[g].version \in 1..(Len(proofs'[pending'[g].activity]) + 1)
    <3>1. CASE g = h
      BY <2>2, <2>3, <3>1 DEF dbVars
    <3>2. CASE g # h
      BY <2>3, <2>5, <3>2 DEF dbVars, ProofInv, About
    <3> QED
      BY <3>1, <3>2
  <2> QED
    BY <2>4, <2>5 DEF ProofInv
<1>2. CASE ~ReadProof(h)
  <2>1. UNCHANGED dbVars /\ \A g \in Handlers : About(g, {"finish"})' => pending'[g] = pending[g]
    BY <1>2 DEF Reads, ReadAssign, ReadPlan, ReadRoute, ReadCommand, ReadFail, ReadFinish,
               Decide, About, TypeOK, RouteOps, TransitionOps
  <2> QED
    BY <2>1, ProofFrame DEF dbVars
<1> QED
  BY <1>1, <1>2

LEMMA ProofWrites ==
  ASSUME TypeOK, ProofInv, NEW h \in Handlers, Writes(h)
  PROVE  ProofInv'
<1>1. CASE Finish(h)
  <2> DEFINE a == pending[h].activity
             v == pending[h].version
             n == Len(proofs[a])
  <2>1. /\ a \in Activities
        /\ n \in Nat
        /\ DOMAIN proofs[a] = 1..n
        /\ \A i \in 1..n : proofs[a][i] = i
    BY <1>1, PendingFields DEF Finish, About, FieldOps, TypeOK, ProofInv, ProofsNumbered
  <2>2. v = n + 1
    <3>1. v \in 1..(n + 1)
      BY <1>1 DEF Finish, ProofInv, About
    <3>2. \A i \in 1..n : v # i
      BY <1>1, <2>1 DEF Finish, VersionFree
    <3> QED
      BY <2>1, <3>1, <3>2
  <2>3. /\ \A b \in Activities : b # a => proofs'[b] = proofs[b]
        /\ proofs'[a] = Append(proofs[a], n + 1)
        /\ \A b \in Activities : b # a => status'[b] = status[b]
    BY <1>1, <2>1, <2>2 DEF Finish, TypeOK
  <2>4. /\ DOMAIN proofs'[a] = 1..(n + 1)
        /\ Len(proofs'[a]) = n + 1
        /\ \A i \in 1..(n + 1) : proofs'[a][i] = i
    <3>1. proofs[a] \in Seq(Nat)
      BY <2>1 DEF TypeOK
    <3> QED
      BY <2>1, <2>3, <3>1
  <2>5. ProofsNumbered'
    BY <2>3, <2>4 DEF ProofInv, ProofsNumbered
  <2>6. CompletedHasProof'
    BY <2>1, <2>3, <2>4 DEF ProofInv, CompletedHasProof
  <2>7. ASSUME NEW g \in Handlers, About(g, {"finish"})'
        PROVE  pending'[g].version \in 1..(Len(proofs'[pending'[g].activity]) + 1)
    <3> DEFINE b == pending[g].activity
    <3>1. g # h /\ pending'[g] = pending[g]
      BY <1>1, <2>7, DoneKeeps DEF Finish, About
    <3>2. b \in Activities /\ pending[g].version \in 1..(Len(proofs[b]) + 1)
      BY <2>7, <3>1, PendingFields DEF About, FieldOps, ProofInv
    <3>3. CASE b = a
      BY <2>1, <2>4, <3>1, <3>2, <3>3
    <3>4. CASE b # a
      BY <2>3, <3>1, <3>2, <3>4
    <3> QED
      BY <3>3, <3>4
  <2> QED
    BY <2>5, <2>6, <2>7 DEF ProofInv
<1>2. CASE ~Finish(h)
  <2>1. Done(h) /\ UNCHANGED proofs
    BY <1>2 DEF Writes, Assign, Plan, Publish, Start, Complete, FinishRoute, Command
  <2>2. \A a \in Activities : status'[a] = "COMPLETED" => status[a] = "COMPLETED"
    <3>1. CASE Assign(h) \/ \E r \in Routes : Plan(h, r)
      BY <3>1 DEF Assign, Plan, GiveTo
    <3>2. CASE \E j \in Journeys : Start(h, j)
      BY <3>2 DEF Start
    <3>3. CASE Command(h)
      <4>1. Target(pending[h].op) # "COMPLETED"
        BY <3>3 DEF Command, About, Target, Transition, TransitionOps
      <4> QED
        BY <3>3, <4>1 DEF Command, TypeOK
    <3>4. CASE Publish(h) \/ Complete(h) \/ FinishRoute(h)
      BY <3>4 DEF Publish, Complete, FinishRoute
    <3> QED
      BY <1>2, <3>1, <3>2, <3>3, <3>4 DEF Writes
  <2>3. \A g \in Handlers : About(g, {"finish"})' => pending'[g] = pending[g]
    BY <2>1, DoneKeeps DEF About
  <2> QED
    BY <2>1, <2>2, <2>3, ProofFrame
<1> QED
  BY <1>1, <1>2

LEMMA ProofNext == TypeOK /\ ProofInv /\ [Next]_vars => ProofInv'
<1> SUFFICES ASSUME TypeOK, ProofInv, [Next]_vars
             PROVE  ProofInv'
  OBVIOUS
<1>1. ASSUME NEW a \in Activities, Create(a)
      PROVE  ProofInv'
  BY <1>1, ProofFrame DEF Create, TypeOK
<1>2. ASSUME NEW h \in Handlers, Abort(h)
      PROVE  ProofInv'
  <2>1. \A g \in Handlers : About(g, {"finish"})' => pending'[g] = pending[g]
    BY <1>2, DoneKeeps DEF Abort, About
  <2> QED
    BY <1>2, <2>1, ProofFrame DEF Abort, dbVars
<1>3. CASE UNCHANGED vars
  BY <1>3, ProofFrame DEF vars, dbVars
<1> QED
  BY <1>1, <1>2, <1>3, ProofReads, ProofWrites DEF Next

-----------------------------------------------------------------------------
(* Planning *)

\* What a step does to the decisions in hand: those on activities in the
\* field are old ones, or concern an activity that left waiting.
FieldDecisions ==
  \A g \in Handlers :
    About(g, FieldOps)' =>
      \/ pending'[g] = pending[g]
      \/ /\ pending'[g].activity \in Activities
         /\ assigned[pending'[g].activity] # {}

LEMMA FieldReads ==
  ASSUME TypeOK, PlanningInv, NEW h \in Handlers, Reads(h)
  PROVE  FieldDecisions
<1> USE DEF FieldDecisions, About, FieldOps
<1>1. CASE \E a \in Activities, d \in Drivers : ReadAssign(h, a, d)
  BY <1>1 DEF ReadAssign, Decide, TypeOK, TransitionOps
<1>2. CASE \E d \in Drivers, activities \in SUBSET Activities : ReadPlan(h, d, activities)
  BY <1>2 DEF ReadPlan, Decide, TypeOK, TransitionOps
<1>3. CASE \E op \in RouteOps, r \in Routes : ReadRoute(h, op, r)
  BY <1>3 DEF ReadRoute, Decide, TypeOK, TransitionOps, RouteOps
<1>4. CASE \E op \in TransitionOps, a \in Activities : ReadCommand(h, op, a)
  <2> PICK op \in TransitionOps, a \in Activities : ReadCommand(h, op, a)
    BY <1>4
  <2>1. assigned[a] # {}
    BY DEF ReadCommand, Transition, TransitionOps, PlanningInv, AssignmentAgreement
  <2> QED
    BY <2>1 DEF ReadCommand, Decide, TypeOK
<1>5. CASE \E a \in Activities : ReadFail(h, a)
  <2> PICK a \in Activities : ReadFail(h, a)
    BY <1>5
  <2>1. assigned[a] # {}
    BY DEF ReadFail, FailureAllowed, PlanningInv, AssignmentAgreement
  <2> QED
    BY <2>1 DEF ReadFail, Decide, TypeOK
<1>6. CASE \E a \in Activities : ReadFinish(h, a)
  <2> PICK a \in Activities : ReadFinish(h, a)
    BY <1>6
  <2>1. assigned[a] # {}
    BY DEF ReadFinish, PlanningInv, AssignmentAgreement
  <2> QED
    BY <2>1 DEF ReadFinish, TypeOK
<1>7. CASE ReadProof(h)
  <2>1. pending[h].activity \in Activities /\ assigned[pending[h].activity] # {}
    BY <1>7, PendingFields DEF ReadProof, PlanningInv
  <2> QED
    BY <1>7, <2>1 DEF ReadProof, TypeOK
<1> QED
  BY <1>1, <1>2, <1>3, <1>4, <1>5, <1>6, <1>7 DEF Reads

\* So every decision in the field concerns an activity that had a driver.
LEMMA FieldAssigned ==
  ASSUME TypeOK, PlanningInv, FieldDecisions, NEW g \in Handlers, About(g, FieldOps)'
  PROVE  /\ pending'[g].activity \in Activities
         /\ assigned[pending'[g].activity] # {}
<1>1. CASE pending'[g] = pending[g]
  <2>1. About(g, FieldOps)
    BY <1>1 DEF About
  <2>2. pending[g].activity \in Activities
    BY <2>1, PendingFields DEF About
  <2> QED
    BY <1>1, <2>1, <2>2 DEF PlanningInv
<1>2. CASE pending'[g] # pending[g]
  BY <1>2 DEF FieldDecisions
<1> QED
  BY <1>1, <1>2

\* The steps that leave assignments and stops alone, move no activity back to
\* waiting and no route to or from "none".
LEMMA PlanningFrame ==
  ASSUME TypeOK, PlanningInv, FieldDecisions,
         UNCHANGED <<assigned, stops, routeDriver>>,
         \A a \in Activities :
           status'[a] \in {"none", "AWAITING_ASSIGNMENT"}
             <=> status[a] \in {"none", "AWAITING_ASSIGNMENT"},
         \A r \in Routes : routeStatus'[r] = "none" <=> routeStatus[r] = "none"
  PROVE  PlanningInv'
<1>1. AssignmentAgreement' /\ OneRoutePerActivity'
  BY DEF PlanningInv, AssignmentAgreement, OneRoutePerActivity
<1>2. \A h \in Handlers : About(h, FieldOps)' => assigned'[pending'[h].activity] # {}
  BY DEF FieldDecisions, About, PlanningInv
<1> QED
  BY <1>1, <1>2 DEF PlanningInv

\* Giving waiting activities to a driver concerns no activity of a route.
LEMMA GivenOffRoute ==
  ASSUME TypeOK, PlanningInv, NEW given \in SUBSET Activities, Unassigned(given),
         NEW r \in Routes
  PROVE  stops[r] \cap given = {}
<1> SUFFICES ASSUME NEW a \in stops[r], a \in given
             PROVE  FALSE
  OBVIOUS
<1>1. assigned[a] = {}
  BY DEF Unassigned
<1>2. assigned[a] = {routeDriver[r]}
  BY DEF PlanningInv, AssignmentAgreement
<1> QED
  BY <1>1, <1>2

\* Giving keeps the first two parts of the agreement and every driver.
LEMMA GiveKeeps ==
  ASSUME TypeOK, PlanningInv, NEW d \in Drivers, NEW given \in SUBSET Activities,
         GiveTo(d, given)
  PROVE  /\ \A a \in Activities : \A e, f \in assigned'[a] : e = f
         /\ \A a \in Activities :
              assigned'[a] = {} <=> status'[a] \in {"none", "AWAITING_ASSIGNMENT"}
         /\ \A a \in given : assigned'[a] = {d}
         /\ \A a \in Activities \ given : assigned'[a] = assigned[a]
         /\ \A a \in Activities : assigned[a] # {} => assigned'[a] # {}
<1>1. ASSUME NEW a \in given
      PROVE  assigned[a] = {} /\ assigned'[a] = {d} /\ status'[a] = "ASSIGNED"
  <2>1. a \in Activities
    OBVIOUS
  <2>2. assigned[a] = {}
    BY DEF GiveTo, Unassigned
  <2> QED
    BY <2>1, <2>2 DEF GiveTo
<1>2. ASSUME NEW a \in Activities \ given
      PROVE  assigned'[a] = assigned[a] /\ status'[a] = status[a]
  BY DEF GiveTo
<1>3. ASSUME NEW a \in Activities
      PROVE  /\ \A e, f \in assigned'[a] : e = f
             /\ assigned'[a] = {} <=> status'[a] \in {"none", "AWAITING_ASSIGNMENT"}
             /\ assigned[a] # {} => assigned'[a] # {}
  <2>1. CASE a \in given
    BY <1>1, <2>1
  <2>2. CASE a \notin given
    BY <1>2, <2>2 DEF PlanningInv, AssignmentAgreement
  <2> QED
    BY <2>1, <2>2
<1> QED
  BY <1>1, <1>2, <1>3

LEMMA PlanningWrites ==
  ASSUME TypeOK, PlanningInv, NEW h \in Handlers, Writes(h)
  PROVE  PlanningInv'
<1>0. Done(h)
  BY DEF Writes, Assign, Plan, Publish, Start, Complete, FinishRoute, Command, Finish
<1>f. FieldDecisions
  BY <1>0, DoneKeeps DEF FieldDecisions, About
<1>1. CASE Assign(h)
  <2> DEFINE given == {pending[h].activity}
             d == pending[h].driver
  <2>1. d \in Drivers /\ given \in SUBSET Activities
    BY <1>1, PendingFields DEF Assign, About
  <2>2. GiveTo(d, given) /\ Unassigned(given) /\ UNCHANGED <<routeStatus, routeDriver, stops>>
    BY <1>1 DEF Assign, GiveTo
  <2>3. \A r \in Routes : \A a \in stops[r] : assigned'[a] = {routeDriver[r]}
    <3> HIDE DEF given, d
    <3> SUFFICES ASSUME NEW r \in Routes, NEW a \in stops[r]
                 PROVE  assigned'[a] = {routeDriver[r]}
      OBVIOUS
    <3>1. a \in Activities \ given
      BY <2>1, <2>2, GivenOffRoute DEF TypeOK
    <3>2. assigned[a] = {routeDriver[r]}
      BY DEF PlanningInv, AssignmentAgreement
    <3> QED
      BY <2>1, <2>2, <3>1, <3>2, GiveKeeps
  <2>4. AssignmentAgreement' /\ OneRoutePerActivity'
    <3> HIDE DEF given, d
    <3> QED
      BY <2>1, <2>2, <2>3, GiveKeeps DEF PlanningInv, AssignmentAgreement, OneRoutePerActivity
  <2>5. \A g \in Handlers : About(g, FieldOps)' => assigned'[pending'[g].activity] # {}
    <3> HIDE DEF given, d
    <3> QED
      BY <1>f, <2>1, <2>2, GiveKeeps, FieldAssigned
  <2> QED
    BY <2>2, <2>4, <2>5 DEF PlanningInv
<1>2. ASSUME NEW r \in Routes, Plan(h, r)
      PROVE  PlanningInv'
  <2> DEFINE given == pending[h].stops
             d == pending[h].driver
  <2>1. d \in Drivers /\ given \in SUBSET Activities
    BY <1>2, PendingFields DEF Plan, About
  <2>2. /\ GiveTo(d, given) /\ Unassigned(given)
        /\ routeStatus[r] = "none" /\ routeStatus'[r] # "none"
        /\ routeDriver'[r] = d /\ stops'[r] = given
        /\ \A s \in Routes \ {r} : /\ routeStatus'[s] = routeStatus[s]
                                   /\ routeDriver'[s] = routeDriver[s]
                                   /\ stops'[s] = stops[s]
    BY <1>2 DEF Plan, GiveTo, TypeOK
  <2> HIDE DEF given, d
  <2>3. \A s \in Routes : \A a \in stops'[s] : assigned'[a] = {routeDriver'[s]}
    <3>1. ASSUME NEW s \in Routes \ {r}, NEW a \in stops[s]
          PROVE  assigned'[a] = {routeDriver[s]}
      <4>1. a \in Activities \ given
        BY <2>1, <2>2, GivenOffRoute DEF TypeOK
      <4>2. assigned[a] = {routeDriver[s]}
        BY DEF PlanningInv, AssignmentAgreement
      <4> QED
        BY <2>1, <2>2, <4>1, <4>2, GiveKeeps
    <3>2. \A a \in given : assigned'[a] = {d}
      BY <2>1, <2>2, GiveKeeps
    <3> QED
      BY <2>2, <3>1, <3>2
  <2>4. AssignmentAgreement'
    BY <2>1, <2>2, <2>3, GiveKeeps DEF AssignmentAgreement
  <2>5. OneRoutePerActivity'
    <3>1. \A s \in Routes : stops[s] \cap given = {}
      BY <2>1, <2>2, GivenOffRoute
    <3> QED
      BY <2>2, <3>1 DEF PlanningInv, OneRoutePerActivity
  <2>6. \A g \in Handlers : About(g, FieldOps)' => assigned'[pending'[g].activity] # {}
    BY <1>f, <2>1, <2>2, GiveKeeps, FieldAssigned
  <2>7. \A s \in Routes : IF routeStatus'[s] = "none" THEN stops'[s] = {}
                          ELSE routeDriver'[s] \in Drivers
    BY <2>1, <2>2 DEF PlanningInv
  <2> QED
    BY <2>4, <2>5, <2>6, <2>7 DEF PlanningInv
<1>3. CASE Publish(h)
  BY <1>f, <1>3, PlanningFrame DEF Publish, Move, TypeOK
<1>4. ASSUME NEW j \in Journeys, Start(h, j)
      PROVE  PlanningInv'
  BY <1>f, <1>4, PlanningFrame DEF Start, Move, TypeOK
<1>5. CASE Complete(h)
  BY <1>f, <1>5, PlanningFrame DEF Complete, Move, TypeOK
<1>6. CASE FinishRoute(h)
  BY <1>f, <1>6, PlanningFrame DEF FinishRoute, Move, TypeOK
<1>7. CASE Command(h)
  <2>1. /\ pending[h].activity \in Activities
        /\ status[pending[h].activity] \notin {"none", "AWAITING_ASSIGNMENT"}
    BY <1>7, PendingFields DEF Command, About, FieldOps, PlanningInv, AssignmentAgreement
  <2>2. Target(pending[h].op) \notin {"none", "AWAITING_ASSIGNMENT"}
    BY <1>7 DEF Command, About, Target, Transition, TransitionOps
  <2> QED
    BY <1>f, <1>7, <2>1, <2>2, PlanningFrame DEF Command, TypeOK
<1>8. CASE Finish(h)
  <2>1. /\ pending[h].activity \in Activities
        /\ status[pending[h].activity] \notin {"none", "AWAITING_ASSIGNMENT"}
    BY <1>8, PendingFields DEF Finish, About, FieldOps, PlanningInv, AssignmentAgreement
  <2> QED
    BY <1>f, <1>8, <2>1, PlanningFrame DEF Finish, TypeOK
<1> QED
  BY <1>1, <1>2, <1>3, <1>4, <1>5, <1>6, <1>7, <1>8 DEF Writes

LEMMA PlanningNext == TypeOK /\ PlanningInv /\ [Next]_vars => PlanningInv'
<1> SUFFICES ASSUME TypeOK, PlanningInv, [Next]_vars
             PROVE  PlanningInv'
  OBVIOUS
<1>1. ASSUME NEW a \in Activities, Create(a)
      PROVE  PlanningInv'
  BY <1>1, PlanningFrame DEF Create, TypeOK, FieldDecisions
<1>2. ASSUME NEW h \in Handlers, Reads(h)
      PROVE  PlanningInv'
  <2>1. UNCHANGED dbVars
    BY <1>2 DEF Reads, ReadAssign, ReadPlan, ReadRoute, ReadCommand, ReadFail, ReadFinish,
               ReadProof, Decide
  <2> QED
    BY <1>2, <2>1, FieldReads, PlanningFrame DEF dbVars
<1>3. ASSUME NEW h \in Handlers, Abort(h)
      PROVE  PlanningInv'
  <2>1. FieldDecisions
    BY <1>3, DoneKeeps DEF Abort, FieldDecisions, About
  <2> QED
    BY <1>3, <2>1, PlanningFrame DEF Abort, dbVars
<1>4. CASE UNCHANGED vars
  BY <1>4, PlanningFrame DEF vars, dbVars, FieldDecisions
<1> QED
  BY <1>1, <1>2, <1>3, <1>4, PlanningWrites DEF Next

-----------------------------------------------------------------------------
(* Journeys *)

\* The steps that open no journey: every route either keeps its status or
\* moves between stages that no journey depends on.
LEMMA JourneyFrame ==
  ASSUME TypeOK, JourneyInv, UNCHANGED <<opener, journey>>,
         \A r \in Routes : \/ routeStatus'[r] = routeStatus[r]
                          \/ routeStatus[r] \notin {"in_progress", "completed"}
  PROVE  JourneyInv'
BY DEF JourneyInv, JourneyBacked, OneJourneyPerRoute, TypeOK

LEMMA JourneyStart ==
  ASSUME TypeOK, JourneyInv, NEW h \in Handlers, NEW j \in Journeys, Start(h, j)
  PROVE  JourneyInv'
<1> DEFINE r == pending[h].route
<1>1. r \in Routes /\ r # None
  BY PendingFields, DispatchAssumption DEF Start, About, RouteOps
<1>2. /\ routeStatus[r] = "published" /\ routeStatus'[r] = "in_progress"
      /\ \A s \in Routes \ {r} : routeStatus'[s] = routeStatus[s]
  BY <1>1 DEF Start, Move, TypeOK
<1>3. /\ journey[j] = "none" /\ journey'[j] = "active" /\ opener'[j] = r
      /\ \A i \in Journeys \ {j} : journey'[i] = journey[i] /\ opener'[i] = opener[i]
  BY DEF Start, TypeOK
<1>4. \A i \in Journeys : opener[i] # r
  BY <1>1, <1>2 DEF JourneyInv
<1> HIDE DEF r
<1>5. ASSUME NEW i \in Journeys, journey'[i] = "active"
      PROVE  routeStatus'[opener'[i]] = "in_progress"
  <2>1. CASE i = j
    BY <1>2, <1>3, <2>1
  <2>2. CASE i # j
    <3>1. opener[i] \in Routes \ {r}
      BY <1>3, <1>4, <1>5, <2>2 DEF JourneyInv, TypeOK
    <3> QED
      BY <1>2, <1>3, <1>5, <2>2, <3>1 DEF JourneyInv, JourneyBacked
  <2> QED
    BY <2>1, <2>2
<1>6. OneJourneyPerRoute'
  BY <1>3, <1>4 DEF JourneyInv, OneJourneyPerRoute
<1>7. \A i \in Journeys : opener'[i] = None <=> journey'[i] = "none"
  BY <1>1, <1>3 DEF JourneyInv
<1>8. ASSUME NEW i \in Journeys, opener'[i] # None
      PROVE  routeStatus'[opener'[i]] \in {"in_progress", "completed"}
  <2>1. CASE i = j
    BY <1>2, <1>3, <2>1
  <2>2. CASE i # j
    <3>1. opener[i] \in Routes \ {r}
      BY <1>3, <1>4, <1>8, <2>2 DEF TypeOK
    <3> QED
      BY <1>2, <1>3, <1>8, <2>2, <3>1 DEF JourneyInv
  <2> QED
    BY <2>1, <2>2
<1> QED
  BY <1>5, <1>6, <1>7, <1>8 DEF JourneyInv, JourneyBacked

\* Ending a route: it closes at least the journey the route opened.
LEMMA JourneyEnd ==
  ASSUME TypeOK, JourneyInv, NEW r \in Routes, UNCHANGED opener,
         CloseJourneys(routeDriver[r]),
         Move(r, "in_progress", "completed") \/ UNCHANGED routeStatus
  PROVE  JourneyInv'
<1>1. /\ \A s \in Routes \ {r} : routeStatus'[s] = routeStatus[s]
      /\ \/ routeStatus'[r] = routeStatus[r]
         \/ routeStatus[r] = "in_progress" /\ routeStatus'[r] = "completed"
  BY DEF Move, TypeOK
<1>2. ASSUME NEW j \in Journeys
      PROVE  /\ journey'[j] = "active" => journey[j] = "active" /\ opener[j] # r
             /\ journey'[j] = "none" <=> journey[j] = "none"
  <2>1. journey'[j] = IF journey[j] = "active" /\ routeDriver[opener[j]] = routeDriver[r]
                        THEN "completed" ELSE journey[j]
    BY DEF CloseJourneys
  <2>2. CASE journey[j] = "active" /\ routeDriver[opener[j]] = routeDriver[r]
    BY <2>1, <2>2
  <2>3. CASE ~(journey[j] = "active" /\ routeDriver[opener[j]] = routeDriver[r])
    BY <2>1, <2>3
  <2> QED
    BY <2>2, <2>3
<1>3. JourneyBacked'
  <2> SUFFICES ASSUME NEW j \in Journeys, journey'[j] = "active"
               PROVE  routeStatus'[opener[j]] = "in_progress"
    BY DEF JourneyBacked
  <2>1. journey[j] = "active" /\ opener[j] # r
    BY <1>2
  <2>2. opener[j] \in Routes \ {r} /\ routeStatus[opener[j]] = "in_progress"
    BY <2>1 DEF JourneyInv, JourneyBacked, TypeOK
  <2> QED
    BY <1>1, <2>2
<1>4. \A j \in Journeys : opener[j] # None => routeStatus'[opener[j]] \in {"in_progress", "completed"}
  BY <1>1 DEF JourneyInv, TypeOK
<1> QED
  BY <1>2, <1>3, <1>4 DEF JourneyInv, OneJourneyPerRoute

LEMMA JourneyNext == TypeOK /\ JourneyInv /\ [Next]_vars => JourneyInv'
<1> SUFFICES ASSUME TypeOK, JourneyInv, [Next]_vars
             PROVE  JourneyInv'
  OBVIOUS
<1>1. ASSUME NEW a \in Activities, Create(a)
      PROVE  JourneyInv'
  BY <1>1, JourneyFrame DEF Create
<1>2. ASSUME NEW h \in Handlers, Reads(h) \/ Abort(h)
      PROVE  JourneyInv'
  <2>1. UNCHANGED dbVars
    BY <1>2 DEF Reads, ReadAssign, ReadPlan, ReadRoute, ReadCommand, ReadFail, ReadFinish,
               ReadProof, Decide, Abort
  <2> QED
    BY <2>1, JourneyFrame DEF dbVars
<1>3. ASSUME NEW h \in Handlers, Writes(h)
      PROVE  JourneyInv'
  <2>1. CASE Assign(h) \/ Command(h) \/ Finish(h)
    BY <2>1, JourneyFrame DEF Assign, Command, Finish
  <2>2. CASE \E r \in Routes : Plan(h, r)
    BY <2>2, JourneyFrame DEF Plan, TypeOK
  <2>3. CASE Publish(h)
    BY <2>3, JourneyFrame DEF Publish, Move, TypeOK
  <2>4. CASE \E j \in Journeys : Start(h, j)
    BY <2>4, JourneyStart
  <2>5. CASE Complete(h) \/ FinishRoute(h)
    <3>1. pending[h].route \in Routes
      BY <2>5, PendingFields DEF Complete, FinishRoute, About, RouteOps
    <3> QED
      BY <2>5, <3>1, JourneyEnd DEF Complete, FinishRoute
  <2> QED
    BY <1>3, <2>1, <2>2, <2>3, <2>4, <2>5 DEF Writes
<1>4. CASE UNCHANGED vars
  BY <1>4, JourneyFrame DEF vars, dbVars
<1> QED
  BY <1>1, <1>2, <1>3, <1>4 DEF Next

-----------------------------------------------------------------------------
(* Results *)

IInv == TypeOK /\ PlanningInv /\ JourneyInv /\ ProofInv

LEMMA InitIInv == Init => IInv
<1> SUFFICES ASSUME Init
             PROVE  IInv
  OBVIOUS
<1>1. TypeOK
  BY TypeInit
<1>2. PlanningInv
  BY DEF Init, PlanningInv, AssignmentAgreement, OneRoutePerActivity, About
<1>3. JourneyInv
  BY DEF Init, JourneyInv, JourneyBacked, OneJourneyPerRoute
<1>4. ProofInv
  BY DEF Init, ProofInv, ProofsNumbered, CompletedHasProof, About
<1> QED
  BY <1>1, <1>2, <1>3, <1>4 DEF IInv

\* The inductive invariant holds throughout.
THEOREM Invariance == Spec => []IInv
<1>1. IInv /\ [Next]_vars => IInv'
  BY TypeNext, PlanningNext, JourneyNext, ProofNext DEF IInv
<1> QED
  BY InitIInv, <1>1, PTL DEF Spec

\* Every variable keeps its type.
THEOREM TypeCorrect == Spec => []TypeOK
BY Invariance, PTL DEF IInv

\* An activity has one driver, and its route's driver is that driver, however
\* many assign and create requests overlap.
THEOREM AgreementHolds == Spec => []AssignmentAgreement
BY Invariance, PTL DEF IInv, PlanningInv

\* No activity is a stop of two routes.
THEOREM OneRouteHolds == Spec => []OneRoutePerActivity
BY Invariance, PTL DEF IInv, PlanningInv

\* An active journey belongs to a route in progress.
THEOREM BackedHolds == Spec => []JourneyBacked
BY Invariance, PTL DEF IInv, JourneyInv

\* A route opens at most one journey, from the dashboard or from the device.
THEOREM OneJourneyHolds == Spec => []OneJourneyPerRoute
BY Invariance, PTL DEF IInv, JourneyInv

\* Proof versions are 1, 2, 3, ... without gap or repetition.
THEOREM NumberingHolds == Spec => []ProofsNumbered
BY Invariance, PTL DEF IInv, ProofInv

\* A completed activity has a proof.
THEOREM CompletionHolds == Spec => []CompletedHasProof
BY Invariance, PTL DEF IInv, ProofInv

\* Only four steps write the status of a route, each by one stage.
LEMMA RouteStep ==
  ASSUME TypeOK, [Next]_vars, NEW r \in Routes, routeStatus'[r] # routeStatus[r]
  PROVE  <<routeStatus[r], routeStatus'[r]>> \in RouteOrder
<1> USE DEF RouteOrder
<1>1. ASSUME NEW h \in Handlers, Writes(h)
      PROVE  <<routeStatus[r], routeStatus'[r]>> \in RouteOrder
  <2>1. CASE Assign(h) \/ Command(h) \/ Finish(h)
    BY <2>1 DEF Assign, Command, Finish
  <2>2. CASE \E s \in Routes : Plan(h, s)
    BY <2>2 DEF Plan, TypeOK
  <2>3. CASE Publish(h)
    BY <2>3 DEF Publish, Move, TypeOK
  <2>4. CASE \E j \in Journeys : Start(h, j)
    BY <2>4 DEF Start, Move, TypeOK
  <2>5. CASE Complete(h)
    BY <2>5 DEF Complete, Move, TypeOK
  <2>6. CASE FinishRoute(h)
    BY <2>6 DEF FinishRoute, Move, TypeOK
  <2> QED
    BY <1>1, <2>1, <2>2, <2>3, <2>4, <2>5, <2>6 DEF Writes
<1>2. CASE ~\E h \in Handlers : Writes(h)
  BY <1>2 DEF Next, Create, Reads, ReadAssign, ReadPlan, ReadRoute, ReadCommand, ReadFail,
             ReadFinish, ReadProof, Decide, Abort, vars, dbVars
<1> QED
  BY <1>1, <1>2

\* A route moves one stage at a time and never back.
THEOREM RouteAdvancesHolds == Spec => RouteAdvances
<1>1. TypeOK /\ [Next]_vars =>
        [\A r \in Routes : routeStatus'[r] # routeStatus[r]
            => <<routeStatus[r], routeStatus'[r]>> \in RouteOrder]_vars
  BY RouteStep
<1> QED
  BY TypeCorrect, <1>1, PTL DEF Spec, RouteAdvances

\* A handler about to end a route read it in progress; it has not moved back.
EndingInv ==
  \A h \in Handlers :
    About(h, {"complete", "finish_route"}) =>
      routeStatus[pending[h].route] \in {"in_progress", "completed"}

LEMMA EndingNext == TypeOK /\ EndingInv /\ [Next]_vars => EndingInv'
<1> SUFFICES ASSUME TypeOK, EndingInv, [Next]_vars,
                    NEW g \in Handlers, About(g, {"complete", "finish_route"})'
             PROVE  routeStatus'[pending'[g].route] \in {"in_progress", "completed"}
  BY DEF EndingInv
<1>1. ASSUME pending'[g] = pending[g]
      PROVE  routeStatus'[pending'[g].route] \in {"in_progress", "completed"}
  <2>1. About(g, {"complete", "finish_route"})
    BY <1>1 DEF About
  <2>2. /\ pending[g].route \in Routes
        /\ routeStatus[pending[g].route] \in {"in_progress", "completed"}
    BY <2>1, PendingFields DEF About, RouteOps, EndingInv
  <2> QED
    BY <1>1, <2>2, RouteStep DEF RouteOrder
<1>2. ASSUME NEW h \in Handlers, Reads(h)
      PROVE  routeStatus'[pending'[g].route] \in {"in_progress", "completed"}
  <2>1. CASE \E op \in RouteOps, r \in Routes : ReadRoute(h, op, r)
    <3> PICK op \in RouteOps, r \in Routes : ReadRoute(h, op, r)
      BY <2>1
    <3>1. CASE g = h
      <4>1. pending'[g] = [op |-> op, route |-> r] /\ UNCHANGED routeStatus
        BY <3>1 DEF ReadRoute, Decide, dbVars, TypeOK
      <4>2. op \in {"complete", "finish_route"}
        BY <4>1 DEF About
      <4> QED
        BY <4>1, <4>2 DEF ReadRoute, Expected
    <3>2. CASE g # h
      BY <1>1, <3>2 DEF ReadRoute, Decide, TypeOK
    <3> QED
      BY <3>1, <3>2
  <2>2. CASE ~\E op \in RouteOps, r \in Routes : ReadRoute(h, op, r)
    <3>1. pending'[g] = pending[g]
      BY <1>2, <2>2 DEF Reads, ReadAssign, ReadPlan, ReadCommand, ReadFail, ReadFinish,
                       ReadProof, Decide, TypeOK, About, TransitionOps
    <3> QED
      BY <1>1, <3>1
  <2> QED
    BY <2>1, <2>2
<1>3. ASSUME NEW h \in Handlers, Writes(h) \/ Abort(h)
      PROVE  routeStatus'[pending'[g].route] \in {"in_progress", "completed"}
  <2>1. Done(h)
    BY <1>3 DEF Writes, Assign, Plan, Publish, Start, Complete, FinishRoute, Command, Finish,
               Abort
  <2> QED
    BY <1>1, <2>1, DoneKeeps DEF About
<1>4. ASSUME NEW a \in Activities, Create(a)
      PROVE  routeStatus'[pending'[g].route] \in {"in_progress", "completed"}
  BY <1>1, <1>4 DEF Create
<1>5. CASE UNCHANGED vars
  BY <1>1, <1>5 DEF vars
<1> QED
  BY <1>2, <1>3, <1>4, <1>5 DEF Next

THEOREM EndingHolds == Spec => []EndingInv
<1>1. Init => EndingInv
  BY DEF Init, EndingInv, About
<1> QED
  BY <1>1, EndingNext, TypeCorrect, PTL DEF Spec

\* A journey that ends does so with a completed route of its driver, also when
\* finish_route arrives after the dashboard completed the route.
THEOREM JourneyEndsHolds == Spec => JourneyEndsWithRoute
<1>1. ASSUME TypeOK, EndingInv, [Next]_vars,
             NEW j \in Journeys, journey[j] = "active", journey'[j] # "active"
      PROVE  \E r \in Routes : /\ routeStatus'[r] = "completed"
                              /\ routeDriver[r] = routeDriver[opener[j]]
  <2>1. PICK h \in Handlers : Complete(h) \/ FinishRoute(h)
    <3>1. ASSUME NEW h \in Handlers, NEW i \in Journeys, Start(h, i)
          PROVE  journey'[j] = "active"
      BY <1>1, <3>1 DEF Start, TypeOK
    <3> QED
      BY <1>1, <3>1 DEF Next, Create, Reads, ReadAssign, ReadPlan, ReadRoute, ReadCommand,
           ReadFail, ReadFinish, ReadProof, Decide, Abort, vars, dbVars, Writes, Assign, Plan,
           Publish, Command, Finish
  <2> DEFINE r == pending[h].route
  <2>2. r \in Routes /\ routeStatus[r] \in {"in_progress", "completed"}
    BY <1>1, <2>1, PendingFields DEF Complete, FinishRoute, About, RouteOps, EndingInv
  <2>3. CloseJourneys(routeDriver[r])
    BY <2>1 DEF Complete, FinishRoute
  <2>4. routeStatus'[r] = "completed"
    BY <1>1, <2>1, <2>2 DEF Complete, FinishRoute, Move, TypeOK
  <2>5. routeDriver[r] = routeDriver[opener[j]]
    BY <1>1, <2>3 DEF CloseJourneys
  <2> QED
    BY <2>2, <2>4, <2>5
<1>2. TypeOK /\ EndingInv /\ [Next]_vars =>
        [\A j \in Journeys : journey[j] = "active" /\ journey'[j] # "active"
            => \E r \in Routes : /\ routeStatus'[r] = "completed"
                                 /\ routeDriver[r] = routeDriver[opener[j]]]_vars
  BY <1>1
<1> QED
  BY TypeCorrect, EndingHolds, <1>2, PTL DEF Spec, JourneyEndsWithRoute

-----------------------------------------------------------------------------
(* Refinement *)

LEMMA ContractInit == Init => Contract!Init
BY DEF Init, Contract!Init, Owner, TheDriver, PlanOf

\* The steps that give nothing away.
LEMMA ContractStutter ==
  ASSUME UNCHANGED <<assigned, routeDriver, stops>>,
         \A r \in Routes : routeStatus'[r] = "none" <=> routeStatus[r] = "none"
  PROVE  UNCHANGED <<Owner, PlanOf>>
BY DEF Owner, PlanOf

\* Giving is the contract's Give.
LEMMA ContractGive ==
  ASSUME TypeOK, NEW d \in Drivers, NEW given \in SUBSET Activities, GiveTo(d, given)
  PROVE  Contract!Give(d, given)
<1>1. Contract!Free(given)
  BY DEF Contract!Free, GiveTo, Unassigned, Owner, TheDriver
<1>2. ASSUME NEW a \in Activities
      PROVE  Owner'[a] = IF a \in given THEN d ELSE Owner[a]
  <2>1. CASE a \in given
    <3>1. assigned'[a] = {d}
      BY <2>1 DEF GiveTo, Unassigned
    <3> QED
      BY <2>1, <3>1 DEF Owner, TheDriver
  <2>2. CASE a \notin given
    <3>1. assigned'[a] = assigned[a]
      BY <2>2 DEF GiveTo
    <3> QED
      BY <2>2, <3>1 DEF Owner
  <2> QED
    BY <2>1, <2>2
<1>3. Owner' = [a \in Activities |-> IF a \in given THEN d ELSE Owner[a]]
  BY <1>2 DEF Owner
<1> QED
  BY <1>1, <1>3 DEF Contract!Give

LEMMA ContractNext ==
  ASSUME TypeOK, [Next]_vars
  PROVE  [Contract!Next]_<<Owner, PlanOf>>
<1>1. ASSUME NEW h \in Handlers, Assign(h)
      PROVE  Contract!Next
  <2> DEFINE a == pending[h].activity
             d == pending[h].driver
  <2>1. a \in Activities /\ d \in Drivers
    BY <1>1, PendingFields DEF Assign, About
  <2>2. GiveTo(d, {a})
    BY <1>1 DEF Assign
  <2>3. Contract!Give(d, {a})
    <3> HIDE DEF a, d
    <3> QED
      BY <2>1, <2>2, ContractGive
  <2>4. UNCHANGED PlanOf
    BY <1>1 DEF Assign, PlanOf
  <2> QED
    BY <2>1, <2>3, <2>4 DEF Contract!Next, Contract!AssignDirectly
<1>2. ASSUME NEW h \in Handlers, NEW r \in Routes, Plan(h, r)
      PROVE  Contract!Next
  <2> DEFINE given == pending[h].stops
             d == pending[h].driver
  <2>1. d \in Drivers /\ given \in SUBSET Activities
    BY <1>2, PendingFields DEF Plan, About
  <2>2. GiveTo(d, given)
    BY <1>2 DEF Plan
  <2>3. Contract!Give(d, given)
    <3> HIDE DEF given, d
    <3> QED
      BY <2>1, <2>2, ContractGive
  <2>4. PlanOf[r] = None /\ PlanOf' = [PlanOf EXCEPT ![r] = [driver |-> d, stops |-> given]]
    BY <1>2 DEF Plan, PlanOf, TypeOK
  <2> QED
    BY <2>1, <2>3, <2>4 DEF Contract!Next, Contract!PlanRoute
<1>3. ASSUME NEW h \in Handlers, Writes(h), ~Assign(h), ~\E r \in Routes : Plan(h, r)
      PROVE  UNCHANGED <<Owner, PlanOf>>
  <2>1. UNCHANGED <<assigned, routeDriver, stops>>
    BY <1>3 DEF Writes, Publish, Start, Complete, FinishRoute, Command, Finish
  <2>2. \A r \in Routes : routeStatus'[r] = "none" <=> routeStatus[r] = "none"
    BY <1>3 DEF Writes, Publish, Start, Complete, FinishRoute, Command, Finish, Move, TypeOK
  <2> QED
    BY <2>1, <2>2, ContractStutter
<1>4. CASE ~\E h \in Handlers : Writes(h)
  <2>1. UNCHANGED <<assigned, routeDriver, stops, routeStatus>>
    BY <1>4 DEF Next, Create, Reads, ReadAssign, ReadPlan, ReadRoute, ReadCommand, ReadFail,
               ReadFinish, ReadProof, Decide, Abort, vars, dbVars
  <2> QED
    BY <2>1, ContractStutter
<1> QED
  BY <1>1, <1>2, <1>3, <1>4

\* Concurrent planning requests implement the contract of Ownership.
THEOREM Refinement == Spec => ImplementsOwnership
<1>1. TypeOK /\ [Next]_vars => [Contract!Next]_<<Owner, PlanOf>>
  BY ContractNext
<1> QED
  BY ContractInit, <1>1, TypeCorrect, PTL DEF Spec, ImplementsOwnership, Contract!Spec

-----------------------------------------------------------------------------
(* What final statuses rest on *)

\* No two requests act on the same activity in the field at once.
OneAtATime ==
  \A g, h \in Handlers :
    About(g, FieldOps) /\ About(h, FieldOps) /\ pending[g].activity = pending[h].activity
      => g = h

\* An activity some request is about to move is not final.
FieldOpen ==
  \A h \in Handlers : About(h, FieldOps) => status[pending[h].activity] \notin Final

FinalKept == \A a \in Activities : status[a] \in Final => status'[a] = status[a]

\* A handler reads an activity that is not final, and so keeps in hand.
LEMMA OpenReads ==
  ASSUME TypeOK, FieldOpen, NEW h \in Handlers, Reads(h)
  PROVE  FieldOpen'
<1> USE DEF FieldOpen, About, FieldOps
<1>1. CASE \E a \in Activities, d \in Drivers : ReadAssign(h, a, d)
  BY <1>1 DEF ReadAssign, Decide, dbVars, TypeOK, TransitionOps
<1>2. CASE \E d \in Drivers, activities \in SUBSET Activities : ReadPlan(h, d, activities)
  BY <1>2 DEF ReadPlan, Decide, dbVars, TypeOK, TransitionOps
<1>3. CASE \E op \in RouteOps, r \in Routes : ReadRoute(h, op, r)
  BY <1>3 DEF ReadRoute, Decide, dbVars, TypeOK, TransitionOps, RouteOps
<1>4. CASE \E op \in TransitionOps, a \in Activities : ReadCommand(h, op, a)
  <2> PICK op \in TransitionOps, a \in Activities : ReadCommand(h, op, a)
    BY <1>4
  <2>1. status[a] \notin Final
    BY DEF ReadCommand, Transition, TransitionOps, Final
  <2> QED
    BY <2>1 DEF ReadCommand, Decide, dbVars, TypeOK
<1>5. CASE \E a \in Activities : ReadFail(h, a)
  <2> PICK a \in Activities : ReadFail(h, a)
    BY <1>5
  <2>1. status[a] \notin Final
    BY DEF ReadFail, FailureAllowed, Final
  <2> QED
    BY <2>1 DEF ReadFail, Decide, dbVars, TypeOK
<1>6. CASE \E a \in Activities : ReadFinish(h, a)
  <2> PICK a \in Activities : ReadFinish(h, a)
    BY <1>6
  <2>1. status[a] \notin Final
    BY DEF ReadFinish, Final
  <2> QED
    BY <2>1 DEF ReadFinish, dbVars, TypeOK
<1>7. CASE ReadProof(h)
  BY <1>7 DEF ReadProof, dbVars, TypeOK
<1> QED
  BY <1>1, <1>2, <1>3, <1>4, <1>5, <1>6, <1>7 DEF Reads

\* What a step writes is to the activity in hand, or final nowhere.
LEMMA FinalMoves ==
  ASSUME TypeOK, FieldOpen, NEW h \in Handlers, Done(h),
         \A a \in Activities : status'[a] \in Final /\ status[a] \notin Final =>
            \A g \in Handlers \ {h} : About(g, FieldOps) => pending[g].activity # a
  PROVE  FieldOpen'
<1> SUFFICES ASSUME NEW g \in Handlers, About(g, FieldOps)'
             PROVE  status'[pending'[g].activity] \notin Final
  BY DEF FieldOpen
<1>1. g # h /\ pending'[g] = pending[g]
  BY DoneKeeps DEF About
<1>2. About(g, FieldOps)
  BY <1>1 DEF About
<1>3. pending[g].activity \in Activities /\ status[pending[g].activity] \notin Final
  BY <1>2, PendingFields DEF FieldOpen, About
<1> QED
  BY <1>1, <1>2, <1>3

LEMMA FinalWrites ==
  ASSUME TypeOK, PlanningInv, FieldOpen, OneAtATime, NEW h \in Handlers, Writes(h)
  PROVE  FinalKept /\ FieldOpen'
<1>0. Done(h)
  BY DEF Writes, Assign, Plan, Publish, Start, Complete, FinishRoute, Command, Finish
<1>1. CASE Assign(h) \/ \E r \in Routes : Plan(h, r)
  <2>1. PICK d, given : GiveTo(d, given)
    BY <1>1 DEF Assign, Plan
  <2>2. \A a \in Activities : status'[a] = IF a \in given THEN "ASSIGNED" ELSE status[a]
    BY <2>1 DEF GiveTo
  <2>3. ASSUME NEW a \in Activities, a \in given PROVE status[a] \notin Final
    <3>1. assigned[a] = {}
      BY <2>1, <2>3 DEF GiveTo, Unassigned
    <3> QED
      BY <3>1 DEF PlanningInv, AssignmentAgreement, Final
  <2>4. FinalKept
    BY <2>2, <2>3 DEF FinalKept
  <2>5. \A a \in Activities : status'[a] \in Final => status[a] \in Final
    BY <2>2 DEF Final
  <2> QED
    BY <1>0, <2>4, <2>5, FinalMoves
<1>2. CASE Publish(h) \/ Complete(h) \/ FinishRoute(h)
  <2>1. status' = status
    BY <1>2 DEF Publish, Complete, FinishRoute
  <2> QED
    BY <1>0, <2>1, FinalMoves DEF FinalKept
<1>3. CASE \E j \in Journeys : Start(h, j)
  <2>1. \A a \in Activities :
          \/ status'[a] = status[a]
          \/ status'[a] = "EN_ROUTE" /\ status[a] \in {"ASSIGNED", "ACCEPTED"}
    BY <1>3 DEF Start
  <2>2. FinalKept /\ \A a \in Activities : status'[a] \in Final => status[a] \in Final
    BY <2>1 DEF FinalKept, Final
  <2> QED
    BY <1>0, <2>2, FinalMoves
<1>4. CASE Command(h) \/ Finish(h)
  <2>1. About(h, FieldOps)
    BY <1>4 DEF Command, Finish, About, FieldOps
  <2>2. \A a \in Activities : a # pending[h].activity => status'[a] = status[a]
    BY <1>4 DEF Command, Finish, TypeOK
  <2>3. FinalKept
    BY <2>1, <2>2 DEF FinalKept, FieldOpen
  <2>4. \A a \in Activities : status'[a] \in Final /\ status[a] \notin Final =>
           \A g \in Handlers \ {h} : About(g, FieldOps) => pending[g].activity # a
    BY <2>1, <2>2 DEF OneAtATime
  <2> QED
    BY <1>0, <2>3, <2>4, FinalMoves
<1> QED
  BY <1>1, <1>2, <1>3, <1>4 DEF Writes

LEMMA FinalNext ==
  TypeOK /\ PlanningInv /\ FieldOpen /\ OneAtATime /\ [Next]_vars
    => [FinalKept]_vars /\ FieldOpen'
<1> SUFFICES ASSUME TypeOK, PlanningInv, FieldOpen, OneAtATime, [Next]_vars
             PROVE  [FinalKept]_vars /\ FieldOpen'
  OBVIOUS
<1>1. CASE \E a \in Activities : Create(a)
  <2>1. PICK a \in Activities : Create(a)
    BY <1>1
  <2>2. /\ status[a] = "none" /\ pending' = pending
        /\ status' = [status EXCEPT ![a] = "AWAITING_ASSIGNMENT"]
    BY <2>1 DEF Create
  <2>3. \A b \in Activities :
          \/ status'[b] = status[b]
          \/ status[b] = "none" /\ status'[b] = "AWAITING_ASSIGNMENT"
    BY <2>2 DEF TypeOK
  <2>4. FinalKept
    BY <2>3 DEF FinalKept, Final
  <2>5. FieldOpen'
    <3> SUFFICES ASSUME NEW h \in Handlers, About(h, FieldOps)'
                 PROVE  status'[pending[h].activity] \notin Final
      BY <2>2 DEF FieldOpen
    <3>1. About(h, FieldOps)
      BY <2>2 DEF About
    <3>2. pending[h].activity \in Activities /\ status[pending[h].activity] \notin Final
      BY <3>1, PendingFields DEF FieldOpen, About
    <3> QED
      BY <2>3, <3>2 DEF Final
  <2> QED
    BY <2>4, <2>5
<1>2. CASE \E h \in Handlers : Reads(h)
  <2>1. status' = status
    BY <1>2 DEF Reads, ReadAssign, ReadPlan, ReadRoute, ReadCommand, ReadFail, ReadFinish,
                ReadProof, Decide, dbVars
  <2> QED
    BY <1>2, <2>1, OpenReads DEF FinalKept
<1>3. CASE \E h \in Handlers : Writes(h)
  BY <1>3, FinalWrites
<1>4. CASE \E h \in Handlers : Abort(h)
  <2>1. PICK h \in Handlers : Abort(h)
    BY <1>4
  <2>2. status' = status /\ Done(h)
    BY <2>1 DEF Abort, dbVars
  <2> QED
    BY <2>2, FinalMoves DEF FinalKept
<1>5. CASE UNCHANGED vars
  BY <1>5 DEF FieldOpen, About, vars, dbVars
<1> QED
  BY <1>1, <1>2, <1>3, <1>4, <1>5 DEF Next

\* A final status is overwritten only where two requests on the same activity
\* overlap: were they served one at a time, it would be kept, whatever runs on
\* other activities and on routes (mobile.service.ts:279 and :323,
\* evidence.service.ts:152).
THEOREM FinalWhenSerial == Spec /\ []OneAtATime => FinalIsFinal
<1>1. Init => FieldOpen
  BY DEF Init, FieldOpen, About
<1>2. TypeOK /\ PlanningInv /\ FieldOpen /\ OneAtATime /\ [Next]_vars
        => [\A a \in Activities : status[a] \in Final => status'[a] = status[a]]_vars
           /\ FieldOpen'
  BY FinalNext DEF FinalKept
<1>3. IInv => TypeOK /\ PlanningInv
  BY DEF IInv
<1> QED
  BY <1>1, <1>2, <1>3, Invariance, PTL DEF Spec, FinalIsFinal
=============================================================================
