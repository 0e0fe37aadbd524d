------------------------------ MODULE Planning ------------------------------
(***************************************************************************)
(* The planning page of the dashboard (web/app/planejamento/page.tsx) in   *)
(* one browser.                                                            *)
(*                                                                         *)
(* The planner numbers activities by selecting them, submits the form,     *)
(* and moves the routes shown along their life.  What the page shows is    *)
(* what its last `load' to be answered brought, and several loads may be   *)
(* under way at once.  A write is followed by a load of its own; both      *)
(* together hold the page's `saving' flag.  The error banner is left out:  *)
(* nothing depends on it.                                                  *)
(***************************************************************************)
EXTENDS Office

Seqs == INSTANCE SequencesExt

CONSTANT Loads  \* bound: loads the page may have under way, as slots

VARIABLES
  available,    \* activities the page shows as awaiting assignment
  routesShown,  \* status of the routes the page shows
  selected,     \* the activities numbered so far, in order
  loading,
  saving,
  loads,        \* what each load under way has read so far
  write         \* the create or transition under way

planningVars == <<available, routesShown, selected, loading, saving, loads, write>>

RouteOps == {"publish", "start", "complete"}

Load == [routes : [Routes -> RouteStatus] \cup {None},
         activities : (SUBSET Activities) \cup {None},
         ofWrite : BOOLEAN]

Write == [op : {"create"}, driver : Drivers, stops : Seq(Activities),
          numbers : SUBSET (Nat \X Activities),
          stage : {"sent", "done", "failed"}]
         \cup [op : RouteOps, route : Routes,
               stage : {"sent", "done", "failed"}]

PlanningTypeOK ==
  /\ available \subseteq Activities
  /\ routesShown \in [Routes -> RouteStatus]
  /\ selected \in Seq(Activities) /\ Distinct(selected)
  /\ {loading, saving} \subseteq BOOLEAN
  /\ loads \in [Loads -> Load \cup {None}]
  /\ write \in Write \cup {None}

\* The page has been opened and its first load answered.
PlanningInit ==
  /\ available = Awaiting
  /\ routesShown = RouteStatuses
  /\ selected = <<>>
  /\ loading = FALSE /\ saving = FALSE
  /\ loads = [l \in Loads |-> None]
  /\ write = None

-----------------------------------------------------------------------------
(* load *)

NewLoad(ofWrite) == [routes |-> None, activities |-> None, ofWrite |-> ofWrite]

BeginLoad(l, ofWrite) ==
  /\ loads[l] = None /\ l = CHOOSE k \in Loads : loads[k] = None
  /\ loads' = [loads EXCEPT ![l] = NewLoad(ofWrite)]
  /\ loading' = TRUE

\* The Atualizar button is disabled while the page is loading.  Bound: it
\* leaves a slot for the load of a write.
PressRefresh(l) ==
  /\ ~loading
  /\ \E k \in Loads \ {l} : loads[k] = None
  /\ BeginLoad(l, FALSE)
  /\ UNCHANGED <<officeVars, faults, available, routesShown, selected, saving, write>>

Asked(l) == loads[l] # None /\ loads[l].routes = None
Loaded(l) == loads[l] # None /\ loads[l].routes # None

\* The three lists are read at one moment: the page relates none to another.
ReadLists(l) ==
  /\ Asked(l)
  /\ loads' = [loads EXCEPT ![l].routes = RouteStatuses, ![l].activities = Awaiting]
  /\ UNCHANGED <<officeVars, faults, available, routesShown, selected, loading, saving, write>>

\* Leaves the spinner of a load that failed (mutant of EndLoad).
EndLoadSpinning(l) ==
  /\ loads' = [loads EXCEPT ![l] = None]
  /\ loading' = Asked(l)
  /\ saving' = (saving /\ ~loads[l].ofWrite)

\* finally: the first load to end clears the flag, whoever else is loading; a
\* write ends with its load, whether that succeeded or not.
EndLoad(l) ==
  /\ loads' = [loads EXCEPT ![l] = None]
  /\ loading' = FALSE
  /\ saving' = (saving /\ ~loads[l].ofWrite)

\* All answers are there: the lists are replaced, by older ones perhaps.
LoadArrives(l) ==
  /\ Loaded(l)
  /\ available' = loads[l].activities
  /\ routesShown' = loads[l].routes
  /\ EndLoad(l)
  /\ UNCHANGED <<officeVars, faults, selected, write>>

\* One of the requests fails: Promise.all rejects and the lists stay.
LoadFails(l) ==
  /\ loads[l] # None
  /\ Fault
  /\ EndLoad(l)
  /\ UNCHANGED <<officeVars, available, routesShown, selected, write>>

-----------------------------------------------------------------------------
(* The form *)

\* The list is not drawn while the page is loading.
Drawn(a) == ~loading /\ a \in available

\* Numbers an activity whether it is selected or not (mutant of Toggled).
ToggledAgain(a) == Append(selected, a)

\* No activity is numbered twice, so that the filter drops one place.
Toggled(a) == IF a \in Elements(selected)
              THEN Seqs!RemoveAt(selected, CHOOSE i \in DOMAIN selected : selected[i] = a)
              ELSE Append(selected, a)

Toggle(a) ==
  /\ Drawn(a)
  /\ selected' = Toggled(a)
  /\ UNCHANGED <<officeVars, faults, available, routesShown, loading, saving, loads, write>>

\* The arrows change places with the neighbour, which need not be drawn.
Swapped(s, i, k) == [s EXCEPT ![i] = s[k], ![k] = s[i]]

Move(a) ==
  /\ Drawn(a)
  /\ \E i, k \in DOMAIN selected :
       /\ selected[i] = a
       /\ k = i - 1 \/ k = i + 1
       /\ selected' = Swapped(selected, i, k)
  /\ UNCHANGED <<officeVars, faults, available, routesShown, loading, saving, loads, write>>

\* The numbers on the screen: those of selected activities no longer available
\* are not there.
NumbersShown == {<<i, selected[i]>> : i \in {k \in DOMAIN selected : selected[k] \in available}}

\* Submits the stops last to first (mutant of Submitted).
SubmittedReversed == [i \in DOMAIN selected |-> selected[Len(selected) + 1 - i]]

\* What the form sends: all that is selected, drawn or not.
Submitted == selected

BeginWrite(request) ==
  /\ ~saving
  /\ saving' = TRUE
  /\ write' = request
  /\ UNCHANGED <<officeVars, faults, available, routesShown, selected, loading, loads>>

\* The Criar rota button.  Bound: an id is left for the route.
PressCreate(d) ==
  /\ selected # <<>>
  /\ \E r \in Routes : route[r].status = "none"
  /\ BeginWrite([op |-> "create", driver |-> d, stops |-> Submitted,
                 numbers |-> NumbersShown, stage |-> "sent"])

\* The one button of a route card does what the status shown calls for; the
\* last one is for whatever is neither planned nor published.
NextOp(shown) ==
  CASE shown = "planned" -> "publish"
    [] shown = "published" -> "start"
    [] OTHER -> "complete"

PressTransition(r) ==
  /\ routesShown[r] \notin {"none", "completed"}
  /\ BeginWrite([op |-> NextOp(routesShown[r]), route |-> r, stage |-> "sent"])

Writing(stage) == write # None /\ write.stage = stage
WriteIs(stage) == write' = [write EXCEPT !.stage = stage]

\* What the API does with a request: `accepted' when it answers a success.
Create(request, accepted) ==
  /\ request.op = "create"
  /\ accepted = MayCreate(request.stops)
  /\ IF accepted
       THEN \E r \in Routes : CreateRoute(r, request.driver, request.stops, request.numbers)
       ELSE UNCHANGED officeVars

MoveRoute(request, accepted) ==
  /\ request.op \in RouteOps
  /\ accepted = MayTransit(request.route, request.op)
  /\ IF accepted THEN Transit(request.route, request.op) ELSE UNCHANGED officeVars

Execute(request, accepted) == Create(request, accepted) \/ MoveRoute(request, accepted)

ServeWrite ==
  /\ Writing("sent")
  /\ \E accepted \in BOOLEAN :
       Execute(write, accepted) /\ WriteIs(IF accepted THEN "done" ELSE "failed")
  /\ UNCHANGED <<faults, available, routesShown, selected, loading, saving, loads>>

\* The request does not arrive, or its answer does not (a 502 of forwardToApi
\* is either): the page cannot tell.
WriteLost ==
  /\ Writing("sent") \/ Writing("done")
  /\ Fault
  /\ WriteIs("failed")
  /\ UNCHANGED <<officeVars, available, routesShown, selected, loading, saving, loads>>

\* A route was created: whatever is selected by now is dropped.
WriteSucceeds(l) ==
  /\ Writing("done")
  /\ selected' = IF write.op = "create" THEN <<>> ELSE selected
  /\ BeginLoad(l, TRUE)
  /\ write' = None
  /\ UNCHANGED <<officeVars, faults, available, routesShown, saving>>

\* The selection stays for another attempt.
WriteRefused ==
  /\ Writing("failed")
  /\ saving' = FALSE /\ write' = None
  /\ UNCHANGED <<officeVars, faults, available, routesShown, selected, loading, loads>>

\* The planner reloads the page: everything on it is forgotten, and no answer
\* reaches it any more.  That a write on its way may still be executed is left
\* out.
Reload ==
  /\ Fault
  /\ available' = {} /\ routesShown' = [r \in Routes |-> "none"]
  /\ selected' = <<>>
  /\ saving' = FALSE /\ write' = None
  /\ \E l \in Loads : loads' = [k \in Loads |-> IF k = l THEN NewLoad(FALSE) ELSE None]
  /\ loading' = TRUE
  /\ UNCHANGED officeVars

-----------------------------------------------------------------------------

\* What the browser and the API do about a press, by themselves.
PlanningAnswer ==
  \/ ServeWrite \/ WriteRefused
  \/ \E l \in Loads : WriteSucceeds(l)

LoadAnswer(l) == ReadLists(l) \/ LoadArrives(l)

Planner ==
  \/ \E l \in Loads : PressRefresh(l)
  \/ \E a \in Activities : Toggle(a) \/ Move(a)
  \/ \E d \in Drivers : PressCreate(d)
  \/ \E r \in Routes : PressTransition(r)

PlanningNext ==
  \/ Planner
  \/ PlanningAnswer
  \/ \E l \in Loads : LoadAnswer(l) \/ LoadFails(l)
  \/ WriteLost \/ Reload
=============================================================================
