----------------------------- MODULE Dashboard ------------------------------
(***************************************************************************)
(* A browser with one of the two pages of the dashboard that write, over   *)
(* the activities and routes it shares with other dashboards and with the  *)
(* phones of the drivers.                                                  *)
(***************************************************************************)
EXTENDS Planning, Operations

CONSTANT Created  \* activities that exist when the page is opened

ASSUME DashboardAssumption ==
  /\ Created \subseteq Activities
  /\ None \notin Loads \cup Requests \cup Reads

VARIABLE page  \* the page that is open

vars == <<officeVars, faults, planningVars, operationsVars, page>>

TypeOK ==
  /\ OfficeTypeOK /\ PlanningTypeOK /\ OperationsTypeOK
  /\ page \in {"planejamento", "operacoes"}

Init ==
  /\ OfficeInit(Created) /\ PlanningInit /\ OperationsInit
  /\ page \in {"planejamento", "operacoes"}

\* Other dashboards create activities, take them and move routes, and so do the
\* phones of the drivers.  Bound: the ids that are left go to the page's own
\* dialogs, and the routes are all planned on the page.
Elsewhere ==
  \/ /\ \E a \in Activities, d \in Drivers :
          OthersAssign(a, d) /\ confirmed' = confirmed \cup {<<a, d>>}
     /\ UNCHANGED <<faults, planningVars, operationsFree, page>>
  \/ /\ \/ \E r \in Routes, op \in RouteOps : OthersTransit(r, op)
        \/ \E d \in Drivers, a \in Activities : Work(d, a)
        \/ page = "planejamento" /\ \E a \in Activities : CreateActivity(a)
     /\ UNCHANGED <<faults, planningVars, operationsVars, page>>

OnPlanning(A) == page = "planejamento" /\ A /\ UNCHANGED <<operationsVars, page>>
OnOperations(A) == page = "operacoes" /\ A /\ UNCHANGED <<planningVars, page>>

Next ==
  \/ OnPlanning(PlanningNext)
  \/ OnOperations(OperationsNext)
  \/ Elsewhere

\* The browser and the API do not stall.  Nobody has to press a button or open
\* a dialog, except that the planner goes on pressing Atualizar.
Fairness ==
  /\ WF_vars(OnPlanning(PlanningAnswer))
  /\ \A l \in Loads : WF_vars(OnPlanning(LoadAnswer(l)))
  /\ WF_vars(OnPlanning(\E l \in Loads : PressRefresh(l)))
  /\ \A q \in Requests : WF_vars(OnOperations(RequestAnswer(q)))
  /\ \A l \in Reads : WF_vars(OnOperations(ReadAnswer(l)))

Spec == Init /\ [][Next]_vars /\ Fairness

-----------------------------------------------------------------------------
(* Safety *)

Numbering(s) == {<<i, s[i]>> : i \in DOMAIN s}

\* "A ordem numerada sera enviada ao aplicativo do motorista" (page.tsx:252):
\* every number its author saw on a stop is its place on the list the API gives
\* the driver's phone, though the form also sends what it no longer draws, taken
\* by somebody or missing from an older answer (planejamento/page.tsx:76).
NumbersKept ==
  \A d \in Drivers : \A list \in Assigned(d) :
    \E r \in Routes : route[r].driver = d /\ numbered[r] \subseteq Numbering(list)

\* A driver holds an activity because of a dialog confirmed for it and him, or
\* of a route that has it, whichever dialog is open when the request is
\* answered (operacoes/page.tsx:194).
HeldAsConfirmed ==
  \A a \in Activities :
    holder[a] # None =>
      \/ <<a, holder[a]>> \in confirmed
      \/ \E r \in Routes : route[r].driver = holder[a] /\ a \in Elements(route[r].stops)

PlanOf == [r \in Routes |->
            IF route[r].status = "none" THEN None
            ELSE [driver |-> route[r].driver, stops |-> Elements(route[r].stops)]]

Contract == INSTANCE Ownership WITH owner <- holder, plan <- PlanOf

\* However old what a page shows is, an activity is given to one driver, once,
\* and a route takes all of its stops or none: what decides is the check of the
\* moment the request is served (activities.service.ts:57,
\* routes.service.ts:52).
ImplementsOwnership == Contract!Spec

(* Liveness *)

\* The buttons come back, whatever answer is lost (the two `finally' of
\* planejamento/page.tsx:88 and operacoes/page.tsx:203).
SavingEnds == (saving ~> ~saving) /\ (busy ~> ~busy)

\* The planner who goes on refreshing ends up seeing what the API holds,
\* however his loads overtook each other or failed: no flag left behind keeps
\* him from it (planejamento/page.tsx:38).
PageConverges == page = "planejamento" ~> (available = Awaiting /\ routesShown = RouteStatuses)
=============================================================================
