----------------------------- MODULE DeviceSync -----------------------------
(***************************************************************************)
(* One driver's phone and the API it synchronises with.                    *)
(*                                                                         *)
(* The phone keeps commands in an outbox, the route's activity as the      *)
(* driver last saw or moved it, the id of the active journey and a buffer  *)
(* of GPS points in SQLite; the operating system delivers locations while  *)
(* the tracker is registered.  SyncCoordinator.synchronize sends the       *)
(* outbox, then the points of the active journey, then fetches the route;  *)
(* every request is retried by withBackoff.  The API answers each command  *)
(* through a receipt (mobile.service.ts, command), so that a command sent  *)
(* again is answered "duplicate".                                          *)
(*                                                                         *)
(* A request whose connection is lost may go on running on the server      *)
(* beside its own retry.  Every step between two awaits is an action; a    *)
(* transaction of the server is a read and a commit (the races inside it   *)
(* are the subject of Dispatch).  The instance is one route with one       *)
(* activity, published to the driver, and the one journey it can open.     *)
(***************************************************************************)
EXTENDS Naturals, Sequences, FiniteSets, Lifecycle

CONSTANTS
  Slots,        \* requests the server can be executing for the phone at once
  Operations,   \* the device commands the driver issues in an instance
  Dashboard,    \* what the dashboard does to the route: "start", "complete"
  Unusable,     \* points with an accuracy the API does not take (above 10 km)
  Permissions,  \* possible answers to the request for background location
  Attempts,     \* attempts of withBackoff (3 in the code)
  Limit,        \* commands in one batch (100 in the code)
  MaxCommands,  \* bound: commands the driver issues
  MaxPoints,    \* bound: points the tracker records
  MaxFaults,    \* bound: crashes, lost connections, server failures, clocks set back
  None          \* no request, no receipt

JourneyOps == {"start_route", "finish_route"}
DeviceOps == TransitionOps \cup {"fail_activity"} \cup JourneyOps

Commands == 1..MaxCommands  \* in the order they were issued
Points == 1..MaxPoints      \* in the order they were recorded

ResultStatus == {"applied", "duplicate", "conflict", "rejected"}

\* A result as the phone reads it: its status and whether it has a journeyId.
Result == [status : ResultStatus, journeyId : BOOLEAN]

\* A request in the server's hands, or answered: a batch of commands with the
\* results so far, a batch of points with those kept so far, the list.
CommandsRequest ==
  [kind : {"commands"}, todo : SUBSET Commands,
   stage : {"look", "read", "write", "receipt", "done"},
   answer : ResultStatus \cup {None}, results : [Commands -> Result \cup {None}]]
PointsRequest ==
  [kind : {"gps"}, todo : SUBSET Points, stage : {"look", "find", "insert", "done"},
   kept : SUBSET Points]
ListRequest ==
  [kind : {"list"}, stage : {"look", "done"}, activity : ActivityStatus]

Request == CommandsRequest \cup PointsRequest \cup ListRequest

ASSUME DeviceSyncAssumption ==
  /\ None \notin Slots /\ None \notin Result /\ None \notin Request
  /\ None \notin ResultStatus
  /\ Operations \subseteq DeviceOps /\ Unusable \subseteq Points
  /\ Permissions \subseteq BOOLEAN
  /\ {Attempts, Limit} \subseteq Nat \ {0}
  /\ {MaxCommands, MaxPoints, MaxFaults} \subseteq Nat

-----------------------------------------------------------------------------

VARIABLES
  (* the API's database *)
  route,          \* routes.status
  journey,        \* journeys.status
  activity,       \* activities.status
  receipts,       \* mobile_command_receipts.result
  stored,         \* gps_points
  requests,       \* what the server is executing, or has answered, per slot
  (* the phone's database and operating system *)
  issued,         \* history: the commands issued, by id
  outbox,         \* ids of the commands in the outbox
  local,          \* the status in the activities table, "none" without a row
  activeJourney,  \* whether metadata.activeJourneyId is set
  recorded,       \* history: how many points were recorded
  buffer,         \* location_buffer
  tracking,       \* whether location updates are registered
  (* the running app *)
  view,           \* the status on the screen
  shown,          \* AppContext.journeyActive
  saved,          \* command of an advance whose status is saved, not enqueued
  phase,          \* where synchronize is
  batch,          \* the ids the request in hand carries
  results,        \* the results of the commands request
  finishJourney,  \* synchronize's flag
  attempt,        \* withBackoff's attempt
  awaiting,       \* the slot whose answer the app awaits
  (* the environment *)
  setBack,        \* how many commands were issued when the clock was set back
  rejected,       \* history: the commands a transaction of which has failed
  faults

serverVars == <<route, journey, activity, receipts, stored>>
storeVars == <<issued, outbox, local, activeJourney, recorded, buffer, tracking>>
syncVars == <<phase, batch, results, finishJourney, attempt>>
appVars == <<view, shown, saved>>
envVars == <<setBack, rejected, faults>>
vars == <<serverVars, requests, storeVars, appVars, syncVars, awaiting, envVars>>

TypeOK ==
  /\ route \in RouteStatus /\ journey \in JourneyStatus
  /\ {activity, local, view} \subseteq ActivityStatus
  /\ receipts \in [Commands -> Result \cup {None}]
  /\ stored \subseteq Points /\ buffer \subseteq 1..recorded
  /\ recorded \in 0..MaxPoints
  /\ requests \in [Slots -> Request \cup {None}]
  /\ issued \in Seq(DeviceOps) /\ outbox \subseteq DOMAIN issued
  /\ {activeJourney, tracking, shown, finishJourney} \subseteq BOOLEAN
  /\ saved \in TransitionOps \cup {"fail_activity", None}
  /\ phase \in {"idle", "commands", "record", "acknowledge", "gps", "finish",
                "list", "tracker"}
  /\ batch \subseteq Commands \cup Points
  /\ results \in [Commands -> Result \cup {None}]
  /\ attempt \in 1..Attempts
  /\ awaiting \in Slots \cup {None}
  /\ setBack \in 0..MaxCommands /\ rejected \subseteq Commands
  /\ faults \in 0..MaxFaults

NoResults == [c \in Commands |-> None]

\* The route has been published and fetched once.
Init ==
  /\ route = "published" /\ journey = "none" /\ activity = "ASSIGNED"
  /\ receipts = NoResults /\ stored = {}
  /\ requests = [q \in Slots |-> None]
  /\ issued = <<>> /\ outbox = {} /\ local = "ASSIGNED"
  /\ activeJourney = FALSE /\ recorded = 0 /\ buffer = {} /\ tracking = FALSE
  /\ view = "ASSIGNED" /\ shown = FALSE /\ saved = None
  /\ phase = "idle" /\ batch = {} /\ results = NoResults
  /\ finishJourney = FALSE /\ attempt = 1
  /\ awaiting = None
  /\ setBack = 0 /\ rejected = {} /\ faults = 0

-----------------------------------------------------------------------------

Fault == faults < MaxFaults /\ faults' = faults + 1

-----------------------------------------------------------------------------
(* The driver *)

Target(op) == IF op = "fail_activity" THEN "FAILED" ELSE Transition[op][2]

Enqueue(op) ==
  /\ issued' = Append(issued, op)
  /\ outbox' = outbox \cup {Len(issued) + 1}

\* What the screen of the activity offers: the next step, or a failure.
Offered(op) ==
  IF op = "fail_activity" THEN view \in FailureAllowed ELSE view = Transition[op][1]

\* advance, up to saveActivities: the new status is shown and saved ...
Advance(op) ==
  /\ saved = None /\ Len(issued) < MaxCommands
  /\ Offered(op)
  /\ view' = Target(op) /\ local' = Target(op)
  /\ saved' = op
  /\ UNCHANGED <<serverVars, requests, issued, outbox, activeJourney, recorded,
                 buffer, tracking, shown, syncVars, awaiting, envVars>>

\* ... and then its command is put in the outbox.
AdvanceEnqueue ==
  /\ saved # None
  /\ Enqueue(saved)
  /\ saved' = None
  /\ UNCHANGED <<serverVars, requests, local, activeJourney, recorded, buffer,
                 tracking, view, shown, syncVars, awaiting, envVars>>

\* The button of the journey: the route is known from its activities on the
\* screen only.
RouteShown == view # "none"

\* toggleJourney.
ToggleJourney ==
  LET op == IF shown THEN "finish_route" ELSE "start_route"
  IN /\ op \in Operations
     /\ RouteShown /\ saved = None /\ Len(issued) < MaxCommands
     /\ Enqueue(op)
     /\ UNCHANGED <<serverVars, requests, local, activeJourney, recorded, buffer,
                    tracking, appVars, syncVars, awaiting, envVars>>

\* The background task: a location is kept only for an active journey.
RecordPoint ==
  /\ tracking /\ activeJourney /\ recorded < MaxPoints
  /\ recorded' = recorded + 1
  /\ buffer' = buffer \cup {recorded'}
  /\ UNCHANGED <<serverVars, requests, issued, outbox, local, activeJourney,
                 tracking, appVars, syncVars, awaiting, envVars>>

\* The phone's clock is set back: what is issued from now on sorts before what
\* the outbox holds.  Bound: once, and only where it changes an order.
SetClockBack ==
  /\ Fault
  /\ setBack = 0 /\ outbox # {}
  /\ setBack' = Len(issued)
  /\ UNCHANGED <<serverVars, requests, storeVars, appVars, syncVars, awaiting, rejected>>

-----------------------------------------------------------------------------
(* synchronize, on the phone *)

\* Issued both before the clock was set back, or both after.
SameClock(c, k) == (c > setBack) = (k > setBack)

\* The order of the outbox: sequence, the phone's time when it was issued.
Precedes(c, k) == IF SameClock(c, k) THEN c < k ELSE c > setBack

\* Takes the end of the outbox when it does not fit (mutant of Earliest).
EarliestLast(commands) ==
  {c \in commands : Cardinality({k \in commands : Precedes(c, k)}) < Limit}

\* The commands of one batch.
Earliest(commands) ==
  {c \in commands : Cardinality({k \in commands : Precedes(k, c)}) < Limit}

\* Counts a rejected result as acknowledged (mutant of Acknowledged).
AcknowledgedRejected(status) == status # "conflict"

\* Does not count a duplicate as acknowledged (mutant of Acknowledged).
AcknowledgedApplied(status) == status = "applied"

\* The results that let a command or a point leave the phone.
Acknowledged(status) == status \in {"applied", "duplicate"}

AcknowledgedIn(c) == results[c] # None /\ Acknowledged(results[c].status)

\* Does not look for points unless commands were sent (mutant of ToGps).
ToGpsAfterCommands ==
  IF phase = "acknowledge" /\ activeJourney /\ buffer # {}
    THEN phase' = "gps" /\ batch' = buffer
    ELSE phase' = "finish" /\ batch' = {}

\* The points of the active journey are read; without any, no request is made.
ToGps ==
  IF activeJourney /\ buffer # {}
    THEN phase' = "gps" /\ batch' = buffer
    ELSE phase' = "finish" /\ batch' = {}

\* The Sincronizar button: the outbox is read; an empty one sends nothing.
StartSync ==
  /\ phase = "idle"
  /\ IF outbox # {} THEN phase' = "commands" /\ batch' = Earliest(outbox) ELSE ToGps
  /\ UNCHANGED <<serverVars, requests, storeVars, appVars, results,
                 finishJourney, attempt, awaiting, envVars>>

NewRequest ==
  CASE phase = "commands" -> [kind |-> phase, todo |-> batch, stage |-> "look",
                              answer |-> None, results |-> NoResults]
    [] phase = "gps" -> [kind |-> phase, todo |-> batch, stage |-> "look", kept |-> {}]
    [] phase = "list" -> [kind |-> phase, stage |-> "look", activity |-> "none"]

\* Slots are alike, so any free one stands for all.
Send ==
  LET free == {q \in Slots : requests[q] = None}
      slot == CHOOSE q \in free : TRUE
  IN /\ phase \in {"commands", "gps", "list"}
     /\ awaiting = None /\ free # {}
     /\ requests' = [requests EXCEPT ![slot] = NewRequest]
     /\ awaiting' = slot
     /\ UNCHANGED <<serverVars, storeVars, appVars, syncVars, envVars>>

\* The answer of the given kind has arrived.
Receive(kind) ==
  /\ awaiting # None
  /\ requests[awaiting].kind = kind /\ requests[awaiting].stage = "done"
  /\ requests' = [requests EXCEPT ![awaiting] = None]
  /\ awaiting' = None
  /\ attempt' = 1

ReceiveResults ==
  /\ Receive("commands")
  /\ results' = requests[awaiting].results
  /\ phase' = "record"
  /\ UNCHANGED <<serverVars, storeVars, appVars, batch, finishJourney, envVars>>

\* A start that was acknowledged and names its journey.
JourneyStarted(c) ==
  issued[c] = "start_route" /\ AcknowledgedIn(c) /\ results[c].journeyId

\* The loop over the results: metadata and the flag, in that order ...
RecordResults ==
  /\ phase = "record"
  /\ activeJourney' = (activeJourney \/ \E c \in batch : JourneyStarted(c))
  /\ finishJourney' = \E c \in batch : issued[c] = "finish_route" /\ AcknowledgedIn(c)
  /\ phase' = "acknowledge"
  /\ UNCHANGED <<serverVars, requests, issued, outbox, local, recorded, buffer,
                 tracking, appVars, batch, results, attempt, awaiting, envVars>>

\* ... then the commands are deleted, and the points of the journey read.
AcknowledgeCommands ==
  /\ phase = "acknowledge"
  /\ outbox' = outbox \ {c \in batch : AcknowledgedIn(c)}
  /\ results' = NoResults
  /\ ToGps
  /\ UNCHANGED <<serverVars, requests, issued, local, activeJourney, recorded,
                 buffer, tracking, appVars, finishJourney, attempt, awaiting, envVars>>

\* Deletes the points of the batch whatever the answer (mutant of KeptBy).
KeptByAll(request) == batch

\* The points of a gps answer with an acknowledged result.
KeptBy(request) == request.kept

ReceiveGps ==
  /\ Receive("gps")
  /\ buffer' = buffer \ KeptBy(requests[awaiting])
  /\ phase' = "finish" /\ batch' = {}
  /\ UNCHANGED <<serverVars, issued, outbox, local, activeJourney, recorded,
                 tracking, appVars, results, finishJourney, envVars>>

\* Only now is the journey forgotten that the server ended at the beginning.
FinishJourney ==
  /\ phase = "finish"
  /\ activeJourney' = (activeJourney /\ ~finishJourney)
  /\ finishJourney' = FALSE
  /\ phase' = "list"
  /\ UNCHANGED <<serverVars, requests, issued, outbox, local, recorded, buffer,
                 tracking, appVars, batch, results, attempt, awaiting, envVars>>

\* Keeps the rows the phone already has (mutant of Fetched).
FetchedMerged(remote) == IF local = "none" THEN remote ELSE local

\* replaceActivities: what the phone holds is replaced, unsent changes too.
Fetched(remote) == remote

ReceiveList ==
  /\ Receive("list")
  /\ local' = Fetched(requests[awaiting].activity)
  /\ phase' = "tracker"
  /\ UNCHANGED <<serverVars, issued, outbox, activeJourney, recorded, buffer,
                 tracking, appVars, batch, results, finishJourney, envVars>>

\* startJourney asks for the permissions first, and may be refused them.
StartTracker ==
  \E granted \in Permissions :
    shown' = granted /\ tracking' = (granted \/ tracking)

StopTracker == shown' = FALSE /\ tracking' = FALSE

\* AppContext.synchronize after the report: the tracker follows the metadata
\* when that differs from what is shown, and the screen is refreshed.
FollowJourney ==
  /\ phase = "tracker"
  /\ \/ activeJourney /\ ~shown /\ StartTracker
     \/ ~activeJourney /\ shown /\ StopTracker
     \/ activeJourney = shown /\ UNCHANGED <<shown, tracking>>
  /\ view' = local
  /\ phase' = "idle"
  /\ UNCHANGED <<serverVars, requests, issued, outbox, local, activeJourney,
                 recorded, buffer, saved, batch, results, finishJourney,
                 attempt, awaiting, envVars>>

-----------------------------------------------------------------------------
(* The server *)

\* A request that ends without anyone awaiting it leaves nothing behind.
Progress(q, request) ==
  requests' = [requests EXCEPT ![q] =
                 IF request.stage = "done" /\ awaiting # q THEN None ELSE request]

Serving(q, kind, stage) ==
  requests[q] # None /\ requests[q].kind = kind /\ requests[q].stage = stage

\* The batch is executed in the order of the outbox.
Command(q) ==
  LET todo == requests[q].todo
  IN CHOOSE c \in todo : \A k \in todo \ {c} : Precedes(c, k)

Answer(q, result) ==
  LET left == requests[q].todo \ {Command(q)}
  IN Progress(q, [requests[q] EXCEPT
                    !.results[Command(q)] = result, !.todo = left, !.answer = None,
                    !.stage = IF left = {} THEN "done" ELSE "look"])

\* A receipt answers the command; a duplicate of whatever it was answered first.
LookUpReceipt(q) ==
  /\ Serving(q, "commands", "look")
  /\ IF receipts[Command(q)] # None
       THEN Answer(q, [receipts[Command(q)] EXCEPT !.status = "duplicate"])
       ELSE requests' = [requests EXCEPT ![q].stage = "read"]
  /\ UNCHANGED <<serverVars, storeVars, appVars, syncVars, awaiting, envVars>>

AlreadyDone(op) ==
  CASE op = "start_route" -> route = "in_progress" /\ journey = "active"
    [] op = "finish_route" -> route = "completed"
    [] OTHER -> activity = Target(op)

Allowed(op) ==
  CASE op = "start_route" -> route = "published"
    [] op = "finish_route" -> route = "in_progress" /\ activity \in Final
    [] op = "fail_activity" -> activity \in FailureAllowed
    [] OTHER -> activity = Transition[op][1]

\* The transaction is over: its receipt is next.
Conclude(q, status) ==
  requests' = [requests EXCEPT ![q] = [@ EXCEPT !.stage = "receipt", !.answer = status]]

\* The reads of the transaction; one that decides not to write ends here.  An
\* arrival may also be refused for its location.
ReadRows(q) ==
  /\ Serving(q, "commands", "read")
  /\ LET op == issued[Command(q)]
     IN \/ AlreadyDone(op) /\ Conclude(q, "applied")
        \/ /\ ~AlreadyDone(op) /\ Allowed(op)
           /\ requests' = [requests EXCEPT ![q].stage = "write"]
        \/ ~AlreadyDone(op) /\ ~Allowed(op) /\ Conclude(q, "conflict")
        \/ op = "arrive" /\ ~AlreadyDone(op) /\ Conclude(q, "conflict")
  /\ UNCHANGED <<serverVars, storeVars, appVars, syncVars, awaiting, envVars>>

StartRoute ==
  /\ route' = "in_progress" /\ journey' = "active"
  /\ activity' = IF activity \in {"ASSIGNED", "ACCEPTED"} THEN "EN_ROUTE" ELSE activity

EndRoute ==
  /\ route' = IF route = "in_progress" THEN "completed" ELSE route
  /\ journey' = IF journey = "active" THEN "completed" ELSE journey
  /\ UNCHANGED activity

\* The writes of the transaction and its commit: conditional on the status
\* read for a route, by primary key for an activity.
WriteRows(q) ==
  /\ Serving(q, "commands", "write")
  /\ LET op == issued[Command(q)]
         taken == op = "start_route" /\ route # "published"
     IN /\ CASE taken -> UNCHANGED <<route, journey, activity>>
             [] op = "start_route" /\ ~taken -> StartRoute
             [] op = "finish_route" -> EndRoute
             [] OTHER -> activity' = Target(op) /\ UNCHANGED <<route, journey>>
        /\ Conclude(q, IF taken THEN "conflict" ELSE "applied")
  /\ UNCHANGED <<receipts, stored, storeVars, appVars, syncVars, awaiting, envVars>>

\* The transaction throws: "rejected", without a receipt, and on to the next.
TransactionFails(q) ==
  /\ Serving(q, "commands", "read") \/ Serving(q, "commands", "write")
  /\ Fault
  /\ rejected' = rejected \cup {Command(q)}
  /\ Answer(q, [status |-> "rejected", journeyId |-> FALSE])
  /\ UNCHANGED <<serverVars, storeVars, appVars, syncVars, awaiting, setBack>>

\* The receipt, after the commit and outside it.
WriteReceipt(q) ==
  /\ Serving(q, "commands", "receipt")
  /\ receipts[Command(q)] = None
  /\ LET status == requests[q].answer
         result == [status |-> status,
                    journeyId |-> status = "applied"
                                  /\ issued[Command(q)] = "start_route"]
     IN /\ receipts' = [receipts EXCEPT ![Command(q)] = result]
        /\ Answer(q, result)
  /\ UNCHANGED <<route, journey, activity, stored, storeVars, appVars, syncVars,
                 awaiting, envVars>>

\* gps: a batch with one reading that the API does not take is refused whole
\* (GpsPointDto, see RefusePoints); of any other the journey is read once ...
ReadJourney(q) ==
  /\ Serving(q, "gps", "look") /\ requests[q].todo \cap Unusable = {}
  /\ Progress(q, [requests[q] EXCEPT
                    !.stage = IF journey = "active" THEN "find" ELSE "done"])
  /\ UNCHANGED <<serverVars, storeVars, appVars, syncVars, awaiting, envVars>>

\* ... and its points are taken one by one.
Point(q) ==
  CHOOSE p \in requests[q].todo : \A k \in requests[q].todo : p <= k

Keep(q) ==
  LET left == requests[q].todo \ {Point(q)}
  IN Progress(q, [requests[q] EXCEPT !.todo = left, !.kept = @ \cup {Point(q)},
                    !.stage = IF left = {} THEN "done" ELSE "find"])

\* A known one is answered "duplicate".
FindPoint(q) ==
  /\ Serving(q, "gps", "find")
  /\ IF Point(q) \in stored
       THEN Keep(q)
       ELSE requests' = [requests EXCEPT ![q].stage = "insert"]
  /\ UNCHANGED <<serverVars, storeVars, appVars, syncVars, awaiting, envVars>>

\* The insertion, of one that no other request has inserted meanwhile (see
\* PointClash).
InsertPoint(q) ==
  /\ Serving(q, "gps", "insert") /\ Point(q) \notin stored
  /\ stored' = stored \cup {Point(q)}
  /\ Keep(q)
  /\ UNCHANGED <<route, journey, activity, receipts, storeVars, appVars, syncVars,
                 awaiting, envVars>>

\* assignedActivities: the stops of a route published or in progress.
Remote == IF route \in {"published", "in_progress"} THEN activity ELSE "none"

ListActivities(q) ==
  /\ Serving(q, "list", "look")
  /\ Progress(q, [requests[q] EXCEPT !.stage = "done", !.activity = Remote])
  /\ UNCHANGED <<serverVars, storeVars, appVars, syncVars, awaiting, envVars>>

\* The dashboard's requests on the route (RoutesService.transition).
DashboardStart ==
  /\ "start" \in Dashboard /\ route = "published"
  /\ StartRoute
  /\ UNCHANGED <<receipts, stored, requests, storeVars, appVars, syncVars,
                 awaiting, envVars>>

DashboardComplete ==
  /\ "complete" \in Dashboard /\ route = "in_progress" /\ activity \in Final
  /\ EndRoute
  /\ UNCHANGED <<receipts, stored, requests, storeVars, appVars, syncVars,
                 awaiting, envVars>>

-----------------------------------------------------------------------------
(* Failures *)

Abandon ==
  phase' = "idle" /\ batch' = {} /\ results' = NoResults
  /\ finishJourney' = FALSE /\ attempt' = 1

\* One attempt too many (mutant of MayRetry).
MayRetryOnceMore == attempt <= Attempts

MayRetry == attempt < Attempts

\* withBackoff: the request is made again, and the last error ends synchronize.
RequestFails ==
  /\ awaiting' = None
  /\ \/ MayRetry /\ attempt' = attempt + 1
        /\ UNCHANGED <<phase, batch, results, finishJourney>>
     \/ ~MayRetry /\ Abandon

\* The connection is lost; what the server is doing it goes on doing.
LoseConnection ==
  /\ awaiting # None
  /\ Fault
  /\ requests' = [requests EXCEPT ![awaiting] = IF @.stage = "done" THEN None ELSE @]
  /\ RequestFails
  /\ UNCHANGED <<serverVars, storeVars, appVars, setBack, rejected>>

\* The request ends where it stands, with an error for who still awaits it.
RequestDies(q) ==
  /\ requests' = [requests EXCEPT ![q] = None]
  /\ IF awaiting = q THEN RequestFails ELSE UNCHANGED <<syncVars, awaiting>>
  /\ UNCHANGED <<serverVars, storeVars, appVars>>

ServerFails(q) ==
  /\ requests[q] # None
  /\ Fault
  /\ RequestDies(q)
  /\ UNCHANGED <<setBack, rejected>>

\* The unique index refuses a second receipt: the whole request fails.
ReceiptClash(q) ==
  /\ Serving(q, "commands", "receipt")
  /\ receipts[Command(q)] # None
  /\ RequestDies(q)
  /\ UNCHANGED envVars

\* The API refuses the batch, and the app takes that for a failure like others.
RefusePoints(q) ==
  /\ Serving(q, "gps", "look") /\ requests[q].todo \cap Unusable # {}
  /\ RequestDies(q)
  /\ UNCHANGED envVars

\* The unique index refuses a point that another request has inserted since it
\* was looked for: the whole request fails.
PointClash(q) ==
  /\ Serving(q, "gps", "insert") /\ Point(q) \in stored
  /\ RequestDies(q)
  /\ UNCHANGED envVars

\* The app is killed and opened again, later: the screen is read from SQLite.
Crash ==
  /\ Fault
  /\ view' = local /\ shown' = activeJourney /\ saved' = None
  /\ Abandon
  /\ awaiting' = None
  /\ requests' = [q \in Slots |->
                    IF requests[q] # None /\ requests[q].stage = "done"
                      THEN None ELSE requests[q]]
  /\ UNCHANGED <<serverVars, storeVars, setBack, rejected>>

-----------------------------------------------------------------------------

\* What the app does by itself, or the driver by pressing Sincronizar again.
App ==
  \/ StartSync \/ Send
  \/ ReceiveResults \/ RecordResults \/ AcknowledgeCommands \/ ReceiveGps
  \/ FinishJourney \/ ReceiveList \/ FollowJourney

Serve(q) ==
  \/ LookUpReceipt(q) \/ ReadRows(q) \/ WriteRows(q) \/ WriteReceipt(q)
  \/ ReceiptClash(q)
  \/ ReadJourney(q) \/ RefusePoints(q) \/ FindPoint(q) \/ InsertPoint(q) \/ PointClash(q)
  \/ ListActivities(q)

Driver ==
  \/ \E op \in Operations \ JourneyOps : Advance(op)
  \/ ToggleJourney

Failure ==
  \/ LoseConnection \/ Crash \/ SetClockBack
  \/ \E q \in Slots : TransactionFails(q) \/ ServerFails(q)

Next ==
  \/ App \/ AdvanceEnqueue \/ Driver \/ RecordPoint
  \/ \E q \in Slots : Serve(q)
  \/ DashboardStart \/ DashboardComplete
  \/ Failure

\* The driver keeps synchronising, the app and the server do not stall.
Fairness ==
  /\ WF_vars(App) /\ WF_vars(AdvanceEnqueue)
  /\ \A q \in Slots : WF_vars(Serve(q))

Spec == Init /\ [][Next]_vars /\ Fairness

-----------------------------------------------------------------------------
(* Safety *)

\* What the phone hands over to the API, commands and points, leaves the phone
\* only once the API has settled it, and is settled once: whichever answers are
\* lost, whatever is sent again or fails in between (coordinator.ts:50 and :112
\* with mobile.service.ts:335, whose "rejected" settles nothing, and :366).
OfCommands ==
  INSTANCE Handover WITH Items <- Commands, Outcomes <- Result,
    made <- DOMAIN issued, held <- outbox, outcome <- receipts

OfPoints ==
  INSTANCE Handover WITH Items <- Points, Outcomes <- ResultStatus,
    made <- 1..recorded, held <- buffer,
    outcome <- [p \in Points |-> IF p \in stored THEN "applied" ELSE None]

ImplementsHandover == OfCommands!Safe /\ OfPoints!Safe

\* The API settles no command before one issued earlier on the same clock,
\* unless a transaction of the earlier one failed: neither the cut of the batch
\* (coordinator.ts:31) nor a request that runs on beside its retry changes the
\* order, but a "rejected" does not hold back what follows it
\* (mobile.service.ts:63).
OrderKept ==
  \A c, k \in DOMAIN issued :
    c < k /\ SameClock(c, k) /\ receipts[k] # None => receipts[c] # None \/ c \in rejected

(* Liveness *)

\* Every command leaves the outbox: none is stuck behind the others.
OutboxDrains == \A c \in Commands : c \in outbox ~> c \notin outbox

\* The synchronisation of an active journey cannot get past its points.
Blocked == activeJourney /\ buffer \cap Unusable # {}

\* While phone and server both hold the journey for active, its points reach
\* the server (coordinator.ts:112), unless one of them is a reading the API does
\* not take, with which it refuses all that are sent beside it, for ever
\* (mobile.dto.ts:50).
PointsArrive ==
  \A p \in Points :
    p \in buffer ~> p \in stored \/ ~activeJourney \/ journey # "active" \/ Blocked

\* Whatever the driver had on the screen in advance of the server, and however
\* a crash parted it from its command, the phone ends up showing the server's,
\* unless a reading that the API does not take stands before the fetch for good.
ViewConverges == <>[](view = Remote /\ local = Remote) \/ <>[]Blocked

-----------------------------------------------------------------------------
(* What the repository says and the code does not keep *)

\* A command answered "conflict" or "rejected" stays in the outbox
\* (coordinator.test.ts:13): but it is sent again, and answered "duplicate".
ConflictRetained ==
  \A c \in DOMAIN issued :
    receipts[c] # None /\ receipts[c].status \in {"conflict", "rejected"} => c \in outbox

\* The tracker does not outlive the journey (architecture.md:213).
TrackingEnds == journey = "completed" ~> ~tracking
=============================================================================
