# TLA+ models of NAP Log

NAP Log plans deliveries and field services, sends them to drivers' phones and
proves what was done. An API (NestJS, PostgreSQL) serves a dashboard (Next.js)
and a mobile app (Expo, SQLite) that works without a connection; a worker
(BullMQ) turns completed activities into signed documents. What is hard about it
is not any one handler: it is that handlers read and then write, that phones
repeat what may already have been done, and that each of the four processes may
stop between two steps. These modules model that, TLC checks them on small
instances, and TLAPS proves the safety of each of them for instances of any
size.

To run a model: `tlc -workers 2 -config Dispatch.cfg MCDispatch`; to check the
proofs: `tlapm DispatchProofs.tla`, and so for `PipelineProofs`, `ArrivalProofs`,
`DeviceSyncProofs`, `HandoverProofs`, `EvidenceProofs`, `SessionProofs` and
`DashboardProofs`. `PROJECT.json` maps every definition to the lines it models, and
lists the runs, hazards, findings, mutants and theorems.

## Inventory

| Component | State | Operations | Interacts with |
|---|---|---|---|
| Activities (`apps/api/.../activities`) | `activities.status`, `assignments`, `activity_events` | create, assign, list, find | routes and mobile commands write the same rows |
| Routes and journeys (`.../routes`) | `routes.status`, `route_stops`, `journeys` | create, publish, start, complete | the device's start_route and finish_route do the same |
| Mobile commands (`.../mobile`) | `mobile_command_receipts`, `gps_points` | commands, gps, list of activities | phones, repeatedly |
| Evidence and completion (`.../evidence`) | `evidence`, `receivers`, `proofs`, `outbox_events` | initiate, complete, completeActivity, markProofReady | phone, object store, worker |
| Synchronisation (`apps/mobile/src/sync`) | position in `synchronize` | commands, evidence, GPS, list | every mobile API |
| Offline store (`.../offline`) | outbox, activities, metadata, points, manifests | saved at once, survive a crash | coordinator, screens, background task |
| Location tracker (`.../location`) | registration with the operating system | start, stop, background task | metadata and point buffer |
| Evidence queue (`.../evidence` on the phone) | manifest, its files' progress | submit, synchronise | evidence API, object store |
| Outbox dispatcher and worker (`apps/worker`) | event status, BullMQ jobs | poll, publish, generate, store, call back | database, object store, API |
| Geofence (`mobile-geofence.ts`, `location/geofence.ts`) | none | judging an arrival on the phone, and again on the server | mobile commands, journey screen |
| Mobile session (`.../auth`, `session/AppContext.tsx`) | token set, `signedIn`, `syncing` | login, refresh, logout, restart | identity provider, every request |
| Dashboard (`apps/web/app/planejamento`, `.../operacoes`) | lists shown, selection, dialogs, flags | load, create, assign, number and submit stops, move routes | activities and routes of the API |
| Fleet, tracking query, identity, tenancy, contracts, infrastructure | rows or nothing | inserts, reads, checks of one request | - |

What makes each of them correct, and hard:

- **Activities and routes.** One driver per activity, one route per activity, an
  active journey only for a route in progress. Every handler reads before it
  writes and PostgreSQL runs it at READ COMMITTED, so correctness rests on the
  few things the database re-evaluates at the write: the conditional
  `updateMany` of a route and the partial unique index on assignments.
- **Completion.** Each completion issues a numbered proof; a repeated one must
  find the first. Two unique indexes stand in for a lock.
- **Mobile commands.** At-least-once delivery from an outbox, receipts for
  idempotence, retries running beside the request they repeat.
- **GPS.** No point may be lost or deleted early; tracking must end with the
  journey.
- **Evidence.** A multi-step upload (initiate, upload, confirm, complete) whose
  every answer can be lost, and a driver who submits again meanwhile.
- **Arrivals.** One reading is judged twice, by two programs with different clocks
  and different ideas of a valid accuracy; the same readings go to the server as
  points, where a third check applies.
- **Session.** One rotating refresh token, and a refresh, a login and a logout that
  may overlap, each of several awaits, over one store.
- **Dashboard.** Loads that overtake each other, dialogs closed while their request
  is under way, answers that never come, and other people taking what is shown.
- **Proofs.** Transactional outbox: crash between publishing and committing,
  two dispatchers, a bounded number of attempts, late callbacks.

`PROJECT.json` lists the hazards one by one, at the lines where they bite, with
the properties that would catch them.

## Modules

| Module | Models | Kind |
|---|---|---|
| `Lifecycle` | the statuses of activities, routes and journeys, the table of device transitions | shared definitions |
| `Dispatch` | the API's handlers on the operational database | core state machine |
| `Ownership` | what planning promises: activities given away once, in one step | abstract specification |
| `MCDispatch` | instance of Dispatch: symmetry | model checking |
| `DispatchProofs` | type correctness, invariants, action properties and refinement of Dispatch, and when final statuses are final | proofs |
| `DeviceSync` | a phone synchronising with the API over a bad network | state machine |
| `MCDeviceSync` | instance of DeviceSync: the commands the driver issues | model checking |
| `Handover` | what the phone promises of whatever it records for the API: settled once, let go of only then | abstract specification |
| `DeviceSyncProofs` | the inductive invariant of DeviceSync and its type correctness | proofs |
| `HandoverProofs` | the order of the commands and the refinement of Handover | proofs |
| `EvidenceUpload` | the evidence of one activity from the phone to the completion | state machine |
| `EvidenceProofs` | type correctness, invariants and action properties of EvidenceUpload | proofs |
| `Session` | the driver's session: tokens, refresh, login, logout, restart | state machine |
| `SessionProofs` | type correctness and safety invariants of Session | proofs |
| `Office` | the activities and routes as the pages and other people see and change them, a request a step | state shared by the pages |
| `Planning` | the planning page: lists, numbering of stops, form, route buttons | state machine, extends Office |
| `Operations` | the operations page: rows, dialogs and their requests | state machine, extends Office |
| `Dashboard` | either page in a browser, beside other dashboards and the phones | composition |
| `MCDashboard` | instance of Dashboard: planned days | model checking |
| `DashboardProofs` | type correctness, both safety invariants and refinement of Dashboard | proofs |
| `ProofPipeline` | outbox, dispatchers, queue, worker, callback | state machine |
| `ProofDelivery` | what the pipeline promises: a proof requested is archived, only then announced as ready, and gets there | abstract specification |
| `PipelineProofs` | invariants of ProofPipeline and the safety part of its refinement | proofs |
| `Arrival` | what becomes of the readings of the location receiver: points, and arrivals judged twice | state machine |
| `MCArrival` | instance of Arrival: places, accuracies, clocks | model checking |
| `ArrivalProofs` | type correctness and both safety invariants of Arrival | proofs |

### Dispatch

State: one variable per column that matters (`status`, `assigned`,
`routeStatus`, `routeDriver`, `stops`, `journey`, `proofs`), one history
variable (`opener`, the route whose start inserted a journey: the table has no
such column) and `pending[h]`, what request `h` has decided to write.

Each handler is a *read* step with its early returns (`ReadAssign`, `ReadPlan`,
`ReadRoute`, `ReadCommand`, `ReadFail`, and the two of completeActivity,
`ReadFinish` and `ReadProof`) and a *commit* step with its writes (`Assign`,
`Plan`, `Publish`, `Start`, `Complete`, `FinishRoute`, `Command`, `Finish`);
`Create` is a single insert. A handler that returns early writes nothing and does
not appear. The operations are those of the office (`OfficeOps`: create, assign,
plan, publish, start, complete), those a device's commands ask for (`DeviceOps`)
and the completion of the evidence. The writes of a transaction are one step because no other
transaction sees them before the commit and the rows stay locked until then;
what PostgreSQL re-evaluates when it writes (a WHERE, a unique index) is a guard
of the commit step, what it does not (an update by primary key) is written
whatever the row has become. `Abort` is every way of ending without writing: a
dead process, a timeout, a refused row, a conditional update that matches
nothing.

`start` (dashboard) and `start_route` (device) share `Start`, as the code of both
differs only in the events it writes. `finish_route` and `complete` differ in one
more thing: the device's does not look at the count of its update.

`Ownership` is the contract: an activity is free, or given to a driver alone, or
given with others as the stops of a new route, each in one step and once.
`ImplementsOwnership` maps `owner` to the one active assignment and `plan` to the
driver and stops of a route.

### DeviceSync

One driver's phone, one route with one activity, the one journey it can open.
Server variables (`route`, `journey`, `activity`, `receipts`, `stored`), the
requests it is executing (`requests`), the phone's SQLite (`outbox`, `local`,
`activeJourney`, `buffer`) and operating system (`tracking`), the running app
(`view`, `shown`, `saved`, and the position in `synchronize`: `phase`, `batch`,
`results`, `finishJourney`, `attempt`). An action is what happens between two
awaits. A request whose connection is lost goes on executing on the server in
its slot while `withBackoff` sends it again into another one: this is how a retry
meets its original. `Crash` kills the app: what is in SQLite stays and the rest is
what `AppProvider` reads on the next start. The dashboard may start or complete
the same route at any time.

The outbox is ordered by `Date.now()` and a batch takes its first `Limit` commands
(`Precedes`, `Earliest`); `SetClockBack` sets the phone's clock back once, behind
every command waiting, so that what the driver does next goes out first. How the
token of a synchronisation is obtained, and two synchronisations at once, are
Session's subject; here there is one at a time.

`Handover` is the contract, for commands and for points alike: an item is made and held,
is settled at most once, while it is held, and is let go of only when it is settled.
`ImplementsHandover` instantiates it twice. A command is settled by its receipt, a point
by its row in `gps_points`. What may go wrong is on the way in between: an answer
that is no settlement (mobile.service.ts:335 answers "rejected" without a receipt), an
answer lost, an answer to a request that ran beside another. `OrderKept` says in which
order commands are settled: as issued, on one clock, but for those a failed transaction
gave up, which `rejected` remembers for the property.

A command's handling on the server is look-up of the receipt, reads, writes and
commit, and only then the receipt: four steps with a failure possible between
any two. The races between transactions of different clients are Dispatch's
subject; here a command's read and write are separate so that a duplicate can
overtake. A batch of points is validated (`RefusePoints`: one reading in `Unusable` and
the whole batch is refused), the journey read (`ReadJourney`), and then each point is
looked for (`FindPoint`) and, unknown, inserted (`InsertPoint`); when a copy of the batch
has inserted it in between, the unique index fails the whole request (`PointClash`).
While an unusable reading waits on the phone and its journey is active (`Blocked`),
nothing after the points of a synchronisation happens: `PointsArrive` and
`ViewConverges` say what holds otherwise.

### EvidenceUpload

One activity, the manifest of its evidence with one file of each required kind,
`enqueue` with its three awaits, and `synchronize`'s evidence phase: initiate,
upload, confirm, complete, each saved after its answer and each answer losable.
The server's `rows` are evidence records with their object and confirmation; a
presigned URL may expire. The driver may submit again at any time, and the error
path rereads the manifest and saves a copy of it. The activity's own commands reach the
server beside it: `Proceed` brings it into service, `FailActivity` ends it as FAILED,
which the driver may do also after he has submitted evidence (activity/[id].tsx:71); its
completion is then refused for ever, the command stays in the outbox, and every
synchronisation tries it again. Requests are single server steps
(their races are Dispatch's). The activity as shown on the phone, which
coordinator.ts:73 also saves as completed, is DeviceSync's subject and not here.

### Session

The token set in the secure store (`vault`), the refresh tokens the provider accepts
(`valid`), the app (`running`, `screen`, `signedIn`, `syncing`), the synchronisations
under way with the stage each is at, a login and a logout under way. The provider is
external: it may replace a refresh token when it is used and then refuses the old one
(mobile/README.md:17 says it may), always, never or as it likes (`rotation`), it may
refuse for no reason, and the session may end on its side.

A synchronisation is `Press`, `LoadTokens`, `Discover`, `Grant` or `Refuse`,
`SaveTokens` or `ClearTokens`, and an end; between any two of them anything else may
happen. Two overlap because the button is never disabled and `synchronize` tests the
`syncing` of the closure it was created in (`drawn`, which `Redraw` brings up to
date). `LoginSaves`/`LoginShows` and `LogoutClears`/`LogoutShows` are the two sides of
the await in `completeOidcLogin` and `logout`. `Kill` and `Start` are a restart.
Time is whether the stored access token still has its 60 seconds (`Age`). What the
synchronisation does with its token is DeviceSync's.

`lost` remembers what no step of the phone could have prevented: the tokens the provider
ended, and those it replaced in an answer that was cut off or came to an app that was
killed. No other step of the phone adds to it; what an overlap does to the store counts
against `StoredAccepted` and `ThrownOutForAReason`. That both hold rests on the provider: if it
always replaces a token, the second of two refreshes that read the same one is refused,
and if it never does, both are granted the same. A provider that replaces a token at one
use and not at another (`rotation = "sometimes"`) can grant the first refresh without
replacing and the second with a new token, and then the slower first one saves the
superseded token over the newer; the next synchronisation is thrown out. Both properties
leave this provider out; `LeftStaysOut` and `ComesToSynchronise` hold with it too.

Two things are simplified. `Exchange` (the driver in the browser of the provider) does
not begin between a press and the first read of the store, for it takes longer than
such a read. And a press beside another synchronisation, or a logout nobody told the
driver to make, counts as a fault: this bounds how often they happen, not where.

### Office, Planning, Operations, Dashboard

`Office` is what the two pages and everybody else share: an activity awaits, is given
to a driver or is final; a route has its status, driver and stops in order. A request
to the API is one step (its races are Dispatch's, which also shows that assigning and
planning are atomic, so that one step is what the pages see of it). `Assigned(d)` is
the list the API gives a driver's phone: the stops, in order, of his earliest route
published or in progress. What the phone makes of that order is not in it (see the
observations below).

`Planning` is the page planejamento/page.tsx: any number of loads under way, each
replacing the lists when it is answered, however old (`ReadLists`, `LoadArrives`),
and clearing the loading flag for all (`EndLoad`); the numbering of stops (`Toggle`,
`Move`); the form, which sends what is selected even if it is no longer drawn
(`Submitted`); the one button of each route (`NextOp`); a write with its own load
afterwards, which together hold the saving flag. `Operations` is operacoes/page.tsx:
its rows, the dialogs, and requests that outlive their dialog (`Detached`), whose
success closes whatever dialog of the kind is open by then (`RequestSucceeds`).
The proxy (`forwardToApi`) turns a lost request and a lost answer into the same 502,
and so do `WriteLost` and `RequestLost`.

`Dashboard` puts one of the pages in a browser and lets others act on the same
activities (`Elsewhere`): assign, create, move routes, and drivers finish their
activities. What all of them do together implements `Ownership`, the contract of
Dispatch: the pages add nothing by which an activity could have two drivers. Two histories serve the properties: `numbered`, the numbers the author of
a route saw on its stops, and `confirmed`, the pairs of activity and driver that
somebody confirmed. Abstracted: the three lists of a load are read at one moment
(the page relates none to another); a write under way when the page is reloaded is
forgotten, though the API might still execute it; one of the two pages is open at a
time, the other one being `Elsewhere`.

### ProofPipeline

Outbox rows with status and due time, dispatchers that select unlocked rows in a
transaction (`FOR UPDATE SKIP LOCKED`), add jobs by event id, mark them and
commit; BullMQ jobs with attempts, backoff, stalled detection and removal; the
worker's steps (upload the object, call back, finish); the API's markProofReady.
A dispatcher or the worker can die at each step; a job that loses its worker once more
than `MaxStalled` has failed, like one whose attempts are used up (`exhausted`). BullMQ
is external: its rules are modelled from how `config.ts` and `processors.ts` use it, with
its default of one stall. `handed` remembers what a transaction put in the queue, unless
it was rolled back, for `PublishedOnce`. `ProofDelivery`, the contract, gives each proof a
stage, "none", "requested", "archived" (its object is stored) or "ready", which it goes
through in this order, and lets it be abandoned, though not at the first trouble; every
proof requested that is not abandoned becomes ready. `Stage`, `Troubled` and `exhausted`
map the rows, the jobs and the object store to it.

### Arrival

The readings of a journey on their two ways to the server. The background task
puts each into the point buffer and then makes it the latest location (`Record`,
`Remember`: two writes). When the driver reports an arrival, the latest reading is
judged and the screen changed (`Decide`, `validateArrival`), and after that the
command is stamped and put in the outbox (`Stamp`); between the two the clock may
be set or the app killed, and then SQLite and the screen say `ON_SITE` with no
command to say it to the server. `synchronize` is four steps (`StartSync`, one
`Arrive` per command, `SendPoints`, `Fetch`): commands, then points, then the list
of activities. `Arrive` judges the reading of the command against its stamp
(`validateServerArrival`) and leaves a receipt either way. `SendPoints` is refused
as a whole when one accuracy is outside 0..10,000 (`GpsPointDto`), and then
`synchronize` does not come to `Fetch`.

What differs between the two judgements is translated as it is: the phone takes an
unknown or negative accuracy for no accuracy and never finds a reading too new; the
server takes an unknown one for 0 (`Number(null)`), refuses a negative one, and
compares the time both ways with the stamp, not with its own clock. Abstracted: a
place is its distance to the destination (the haversine formula is the same in both
programs); a request is one step, for lost answers and overlapping repetitions are
DeviceSync's. Real time and the real time of a reading are history variables that no
row has; `ArrivalWasReal` is stated with them.

## Runs

| Run | Shows | Instance |
|---|---|---|
| `dispatch` | assignments, routes, journeys and proofs agree however two requests overlap; implements Ownership | 2 activities, drivers, routes; 3 journeys; 2 concurrent requests; 2 proofs each; 718,897 states |
| `dispatch_final` | **violated:** a final status is overwritten | 2 activities, 1 driver, route and journey; 2 requests, 1 proof each |
| `device_sync` | commands and points are handed over as Handover says, commands in order | 3 commands of a whole journey, batches of 2, 1 point, 2 faults, dashboard, permissions granted or not; 4,201,154 states |
| `device_sync_live` | the outbox drains, the points of a journey under way arrive and the screen converges to the server unless an unusable reading blocks them | 3 commands out of 3 that conflict, batches of 2, 2 points of which the second is unusable, 1 fault; 299,187 states |
| `device_sync_conflict` | **violated:** a conflict is dropped | no fault |
| `device_sync_tracking` | **violated:** tracking goes on after the journey | 1 fault |
| `proof_pipeline` | proofs are not lost, nothing is published again but what failed or was undone; implements ProofDelivery with liveness | 2 dispatchers, 2 proofs, 2 attempts, 1 stall, 3 faults; 272,329 states |
| `evidence_upload` | the phone never claims more than the server has; uploads finish unless a URL expires or the activity is failed | 2 submissions, 2 faults, 2 attempts; 389,215 states |
| `evidence_upload_expiry` | **violated:** after an expired URL the evidence never arrives | 1 submission, 2 faults |
| `arrival` | an arrival is refused only for stated reasons and accepted only if real; the screen and the readings follow unless a reading blocks them | 1 arrival, 2 readings, 1 fault (clock set back or crash); 1,268,825 states |
| `dashboard` | nobody gets a stop or an activity that nobody gave him; implements Ownership; the buttons come back and the page ends up right | 2 activities, 1 driver, 1 route; 2 requests, 2 loads of each page, 1 fault; 340,035 states |
| `session` | the stored token is accepted unless something was lost on the way; who is thrown out was so for a reason; who left stays out; the driver comes to synchronise again | 2 synchronisations, 5 tokens, 3 kinds of provider, 3 faults; 338,128 states |

Bounds. Two concurrent requests are enough for every read-write race of a pair of
handlers, the only kind the code has: a request holds no lock between its read
and its write, so a third can only change what the second already may. Two
routes and drivers give one driver two routes and two drivers one activity; three
journeys make a wrong second journey possible. MaxProofs = 2 allows two completions
of one activity beside each other and one after the other. On the phone, three
commands are a whole journey (start, a final status, end); a batch of the code
takes 100 commands, in the runs `Limit` = 2, so that a third waits for the next
synchronisation and may have been overtaken (points go a hundred at a time, which
an instance never fills). `Attempts` is 3
in the code and 2 in the runs of the phone: enough for a retry and for the last
error. Two faults allow a lost answer and a crash during its repetition. `MaxRows`
of EvidenceUpload is only there to make the type finite; the runs never reach it.
In ProofPipeline there are more faults (3) than attempts (2; 5 in the code) and than
stalls (1), so that a job can fail for good either way, at its last attempt or with its
worker; it is then not taken up again, and the promise is about the others.
In `device_sync_live` the second of two points is unusable: the first may be sent before
it, or be blocked with it.
In Arrival the metres and minutes are scaled down and keep their order: a place is
inside the radius (3) or only inside radius and tolerance (4); an accuracy is
unknown, negative, or coarse (3, more than the 2 that a point may have, and
more than the tolerance); `MaxAge` is 1 and time runs to 2, so that a reading can
be just young enough and too old; the clock is right or 2 behind, so that a reading
can seem to come from further in the future than `MaxAge`.
In Session five tokens are as many as can be in use at once (the stored one, the two
of the synchronisations, that of a login) and one to issue; a token nobody has any more
is issued again. Three faults allow a press beside another, a lost answer and a kill.
In the run of Dashboard two loads are one that an other overtakes, two requests one
whose dialog was closed and the one opened after it. It has one route, so that the
choice between the routes of a driver is only reached by the proof of `NumbersKept`,
which is for any number of them; with two routes and without the liveness properties the
same instance has 2,973,826 states, in which the invariants hold too.

Deadlock is checked in the runs of DeviceSync, Arrival, Dashboard and Session. It is
not in `dispatch` (an instance uses up its activities, routes and journeys),
`evidence_upload` and `proof_pipeline` (both stop when all bounded work is done).

Every property has a mutant in `PROJECT.json`: a definition changed as a plausible
bug would change it, under which TLC finds the property violated.

### Fairness

Dispatch has none: its properties are safety. In DeviceSync and EvidenceUpload
the app's steps and the server's handling of a request are weakly fair. For the
start of a synchronisation this says that the driver goes on pressing
*Sincronizar*: the code has no timer for it. In EvidenceUpload it also says that
the driver goes on with the activity (`Proceed`) unless he fails it: before he has
arrived the server refuses to complete it for good reason. In Arrival the background task's second
write, the stamping of a decided arrival and the synchronisation are weakly fair:
the first two follow an await in the same function, the third is again the driver.
In ProofPipeline the dispatcher's timer,
the queue and the worker are weakly fair, which their loops justify; dying is not,
and is bounded by `MaxFaults`.

In Session the steps of the app, the store and the provider are weakly fair: an await
ends, with an answer or an error. `DriverFairness` is an assumption about the driver,
not about the code: he opens the app, logs in where he is asked to, goes on pressing
*Sincronizar* and presses *Sair* when he is told that he has no session. The last two
are strongly fair, as what he presses is not offered all the time. `ComesToSynchronise`
says that the code then leaves no token and no flag behind that keeps him out. In
Dashboard the answers of the API and of the browser are weakly fair (`fetch` ends, with
a success or a 502), and the planner goes on pressing *Atualizar*; no other button need
ever be pressed.

## What the runs found

1. **Final statuses are not final** (`dispatch_final`). mobile.service.ts:315 and
   evidence.service.ts:240 update by primary key after a check of an older read.
   completeActivity beside fail_activity leaves FAILED with a proof, or COMPLETED
   after a recorded failure.
2. **A conflict becomes a duplicate** (`device_sync_conflict`). The receipt of a
   refused command answers its repetition with "duplicate", which the phone takes
   for done: the test's "retains conflicts" holds for one call only. A refused
   finish_route also makes the phone forget a journey that is still active.
3. **Tracking outlives its journey** (`device_sync_tracking`). That the journey
   has ended is only in a local variable when the command is deleted.
4. **An expired upload URL is final** (`evidence_upload_expiry`).

More observations are no runs of their own: they are visible in one action, and the
properties that hold are stated around them.

- A reading whose accuracy the API does not take (below 0 or beyond 10,000 metres,
  mobile.dto.ts:50) is refused with its whole batch, as often as it is sent, while the
  journey is active, and `synchronize` does not come to its fetch (`Blocked` in
  DeviceSync and in Arrival). It is freed by the end of the journey only.
- An activity the driver fails after he has submitted its evidence is never completed
  (evidence.service.ts:153 answers 409), and the request for upload never leaves the
  outbox; each synchronisation reports it as a conflict again. `UploadsFinish` excludes it.
- The phone shows its list by `updated_at, id` (sqliteLocalStore.ts:25), and as all rows
  of a fetch are written with one time, by id: the order of stops that planejamento's
  page.tsx:252 says is sent to the app is sent, and not shown. `NumbersKept` is about
  the list of the API.
- A point recorded in a journey and not sent before its end is never sent: the
  commands go out first, the server then answers the points with "rejected", and the
  phone keeps them (coordinator.ts:36 and :112; architecture.md:204 asks to send them
  when the connection returns). `PointsArrive` is about journeys both sides hold active.
- start_route and the completion of an activity change its status without an activity
  event (mobile.service.ts:139, evidence.service.ts:240; architecture.md:498 wants
  every relevant action recorded).
- After a restart the driver is on the login screen though his tokens are stored:
  index.tsx:3 redirects before they are read and the login never looks again
  (`Start` of Session). Without a connection he cannot get past it, while
  architecture.md:284 promises the app works without one.
- The form of the planning page sends stops that are no longer drawn (page.tsx:76).
  The API refuses those that were taken; one that is only missing from an older list
  that arrived late becomes a stop the planner did not see. `NumbersKept` is about the
  numbers he did see.
- A creation whose answer was lost is repeated without an idempotency key
  (operacoes/page.tsx:175; architecture.md:380), and makes a second activity.
- A driver with a route in progress who is given an earlier one that is published has
  the list of that one, as the order is the planned date (mobile.service.ts:26).
- The proof's document looks its arrival up among `activity.arrive_activity` and
  `activity.arrived`, while the command is named `arrive` (evidence.service.ts:200).
  Names of events are not in any module.

One more is a condition of a property that holds: an arrival accepted on the phone is
refused by the server if the clock was set back by more than five minutes meanwhile, or
the accuracy is negative (`RefusedForAReason` lists the reasons).

## Proofs

`DispatchProofs` proves, from the assumption on the constants alone
(`DispatchAssumption`: `None` is none of the ids, `MaxProofs` is a number) and so
for any numbers of activities, drivers, routes, journeys and requests:

| Theorem | Statement |
|---|---|
| `TypeCorrect` | `Spec => []TypeOK` |
| `AgreementHolds`, `OneRouteHolds` | `[]AssignmentAgreement`, `[]OneRoutePerActivity` |
| `BackedHolds`, `OneJourneyHolds` | `[]JourneyBacked`, `[]OneJourneyPerRoute` |
| `NumberingHolds`, `CompletionHolds` | `[]ProofsNumbered`, `[]CompletedHasProof` |
| `RouteAdvancesHolds`, `JourneyEndsHolds` | the two action properties |
| `Refinement` | `Spec => ImplementsOwnership` |
| `FinalWhenSerial` | `Spec /\ []OneAtATime => FinalIsFinal` |

None of these invariants is inductive by itself. What is missing is what a
request knows between its read and its write, and this is what `IInv` (TypeOK and
the first three of the following) adds:

- `ProofInv`: a completion about to write has computed a version that is at least
  1 and at most one more than the number of proofs, which are numbered from 1, so
  the unique index leaves it exactly the next number. (`LatestIsLast`: the
  greatest of consecutive numbers is the last.)
- `PlanningInv`: what the index on assignments sees and what the status says agree
  (`AssignmentAgreement`), so that a request that read an activity as awaiting
  assignment and finds it given away is refused by the index; and an activity that
  a request is about to move on in the field is assigned and stays so.
- `JourneyInv`: journeys that were opened have an opener that was started, and an
  active one an opener in progress. Completing a route closes all journeys of
  its driver, hence those it opened.

`EndingInv` has an induction of its own, over TypeOK: a route about to be ended has
been in progress and has not moved back. `JourneyEndsHolds` rests on it.

The module is laid out in this order: what each action leaves alone, the type,
then one section per conjunct with a step for every action, then the theorems.
The refinement is by steps: `Assign` and `Plan` map to the two steps of Ownership,
all others stutter.

`FinalIsFinal` is violated (`dispatch_final`), and `FinalWhenSerial` says by what alone:
as long as no two requests act on one activity in the field at the same time
(`OneAtATime`; routes and other activities may be acted on meanwhile), a final status
stays. A request about to move an activity has then read it as open (`FieldOpen`), and
nobody else closes it. Serialising the requests on one activity is what the code lacks.

`PipelineProofs` proves, from `PipelineAssumption` (bounds are numbers, at least two
attempts and one stall, `None` is no transaction) and so for any number of dispatchers, proofs, attempts and faults:

| Theorem | Statement |
|---|---|
| `TypeCorrect` | `Spec => []TypeOK` |
| `NothingForgottenHolds` | `[]NothingForgotten` |
| `ReadyHolds` | `[]ReadyHasObject` |
| `PublishedOnceHolds` | `[]PublishedOnce` |
| `SafeDelivery` | `Spec => Delivery!Safe`: the safety part of `ImplementsDelivery` |

Its `IInv` adds four things. `PublishedCovered`: an event that is published, *or
that a dispatcher has marked and not yet committed*, belongs to a proof that someone
already sees to (`Covered`: a job, a callback under way, a failure on record, or the
proof is ready), which is what makes the crash between publishing and committing
harmless in either direction. `JobStage`: what the place of a job in its course says
of the object and the proof, and `ReadyHasObject`: what is announced, also by the
callback of an attempt given up, can be downloaded. `NothingEarly`: nothing exists of a proof before its
completion was committed. `HandedInv`: the rows of two transactions are disjoint and
still pending, and what is in the queue is marked in an open transaction or published,
so that no transaction can come to select it. A dispatcher takes the least event of its batch; that
there is one is the well-foundedness of < on the natural numbers (`CurrentInBatch`).
That every proof gets there (fairness) is only model-checked.

`ArrivalProofs` proves, from `ArrivalAssumption` (bounds, distances and ages are
numbers, accuracies and offsets integers, `None` is no result) and so for any
places, accuracies, clocks and numbers of readings and arrivals:

| Theorem | Statement |
|---|---|
| `TypeCorrect` | `Spec => []TypeOK` |
| `RefusalHolds` | `[]RefusedForAReason` |
| `RealityHolds` | `[]ArrivalWasReal` |

Its `IInv` adds that every decided or stamped arrival carries a reading the phone
accepted (`EveryArrivalJudged`), that a receipt is of a command that exists
(`ReceiptOfCommand`), that what was decided finds room (`RoomForDecided`), and that
there is something to send while commands are sent (`SyncStage`). The heart of it is
arithmetic: `JudgedAlike` compares the two judgements on one reading, `ValidWasReal`
says what the server's one implies.

`DeviceSyncProofs` proves, from `DeviceSyncAssumption` (bounds are numbers, at least
one attempt and one command to a batch, `None` is no slot, result or request) and so
for any numbers of commands, points, slots and faults, whatever the driver issues:

| Theorem | Statement |
|---|---|
| `TypeCorrect` | `Spec => []TypeOK` |
| `ReceiptHolds` | `[]DroppedHasReceipt` |
| `PointsHold` | `[]PointsKept` |

What leaves the phone leaves it because of an answer, and the answer travels from the
server's step through a request into the app. `SlotInv` follows it in the requests, also
in those whose connection was lost and whose repetition runs beside them: what they
answer as acknowledged has a receipt, what they answer as kept is stored. `ResultsInv`
says the same of what the app has in hand when it deletes. `AwaitInv` and `BatchInv`
say that the answer awaited exists and that there was something to ask. `RoomInv` keeps
room for a command whose status is already saved. Receipts and stored points are never
taken back, which makes all of this stable. A batch is the least of the waiting
commands; that there is a least one is the well-foundedness of < (`LeastOf`).

`HandoverProofs` goes on from there, with the same assumption:

| Theorem | Statement |
|---|---|
| `OrderInvariance` | `[]OrderInv` |
| `OrderHolds` | `[]OrderKept` |
| `Refinement` | `Spec => ImplementsHandover` |

`OrderInv` is a second inductive invariant, relative to the first. A set of commands is
`Closed` when every command issued before a member, on the same clock, is in it or
settled, by a receipt or by a failed transaction. The batch is closed, because the order
of the outbox is a strict total order (`OutboxOrder`) and a batch is an initial piece of
it (`BatchClosed`), and because what is not in the outbox has a receipt
(`DroppedHasReceipt`). A request starts as a batch and loses its first command at a time,
once that is settled, so it stays closed (`RequestsStay`), however many others are
served beside it; new commands come after all there are, and a clock that is set back
only takes pairs out of the comparison (`ClosedStep`). Hence when a receipt is written,
whatever was issued earlier has been settled (`InHandIsNext`). A point in a request was
recorded, which the invariant also keeps, because only then can the refinement say that
the phone still has it.

The refinement is by steps. Enqueueing a command and recording a point make an item;
`WriteReceipt` and `InsertPoint` settle one, which the phone still has, for otherwise it
would be settled already; `AcknowledgeCommands` and `ReceiveGps` let
go of settled ones; everything else stutters.

`EvidenceProofs` proves, from `EvidenceAssumption` (bounds are numbers, at least one
attempt, `None` is no manifest and no set of rows) and so for any numbers of
submissions, attempts and faults:

| Theorem | Statement |
|---|---|
| `TypeCorrect` | `Spec => []TypeOK` |
| `ProofHolds`, `ProgressHolds` | `[]ProofBacked`, `[]ProgressIsTrue` |
| `DroppedHolds`, `NotRepeatedHolds` | the two action properties |

Its `IInv` adds `StageInv` (who is at which await has the rows it goes on with),
`TruthInv` (the progress recorded in the manifest *and in the copy the synchroniser
works on* happened, for it is the copy that overwrites), `RowsInv` (only an object that
exists is confirmed), `AcknowledgedInv` (a manifest or a step that says completed is
right), `ProofInv` (a proof covers rows that exist), and `AheadInv`: a file confirmed in
the manifest is confirmed in the copy in work, if both are of one submission. Without the
last one a synchronisation might create a second row for a file already there.

`SessionProofs` proves, from `SessionAssumption` (`None` is no token and no
synchronisation, the bound is a number) and so for any numbers of synchronisations,
tokens and faults:

| Theorem | Statement |
|---|---|
| `TypeCorrect` | `Spec => []TypeOK` |
| `StoredHolds` | `[]StoredAccepted` |
| `ReasonHolds` | `[]ThrownOutForAReason` |
| `LeftHolds` | `[]LeftStaysOut` |

`StoredAccepted` is not inductive: what an answer or a login brings must still be accepted
when it is saved, whatever was refreshed meanwhile (`ComingAccepted`). The provider stops
accepting a token only when somebody asks with it, and nobody does before it has been in
the store, where it is saved once (`ComingFresh`; a provider that never replaces anything
stops accepting nothing). `OutInv` says that nothing which could save a token survives a
quiet logout, `ScreenInv` where a login and a logout may be under way, and `AloneInv` that
a synchronisation which nothing overlapped asks with the token of the store, which by
`StoredAccepted` is accepted or lost, so that a refusal has its reason. `TokensHeld` types
what a refresh asks with or brings.

`DashboardProofs` proves, from `OfficeAssumption` (`None` is no id, days and the bound
are numbers) and `DashboardAssumption` (`None` is no load and no request), for any
numbers of activities, drivers, routes, loads, requests and dialogs:

| Theorem | Statement |
|---|---|
| `TypeCorrect` | `Spec => []TypeOK` |
| `HeldTheorem` | `[]HeldAsConfirmed` |
| `NumbersTheorem` | `[]NumbersKept` |
| `Refinement` | `Spec => ImplementsOwnership` |

`HeldInv` adds that every request under way is for a pair that was confirmed, whatever
dialog is open by now (`RequestsConfirmed`), and that a route not yet planned has no
stops. `NumbersInv` adds that the numbers of a write are those of its stops
(`WriteNumbered`) from the press to the route it becomes (`RoutesNumbered`). Neither
invariant needs `TypeOK`, which has a layer of its own: what a load brings is typed, and a selection has no activity twice, so that deselecting one drops
exactly one place (`RemovedAt`, `ToggledIs`). `OwnInv`, for the refinement, adds to it
that what awaits assignment is held by nobody (`WaitingIsFree`); a step of either page, or
of anybody else, that gives an activity away is then one of the two steps of Ownership.

Only model-checked: the liveness of every module (fairness and ENABLED are out of reach
of the prover), with it the liveness part of `ImplementsDelivery`, and the violated runs.
Every other property a run checks is proved.

## Not modelled

- Trigonometry (a place is its distance), layout of the PDF, parsing and validation of
  DTOs, HTTP and error formats, health, configuration, deployment.
- Tenants and permissions: the model has one tenant; the guards keep no state.
- Fleet and tracking query: inserts and reads without interaction. The map of the
  dashboard is a read every 30 seconds, the fleet pages are forms with one insert.
- Of the dashboard also its login, the filters of the table and the dialog with the
  proof. Of the session the device id, the token store of the web build and the
  development bypass.
- Two coordinators over one store: Session has the overlap of two synchronisations as
  far as tokens and flags go, DeviceSync has one at a time.
- The queues webhooks, notifications and imports: their processors do nothing yet.
- Clocks outside Arrival: the phone's clock orders the outbox and is set back once in
  DeviceSync; presigned URLs expire at any moment or never.

## Plan

Done: the API's handlers, the phone's synchronisation, evidence, arrivals and session,
the proof pipeline, both writing pages of the dashboard; the safety of all of them is
proved. What is left, most important first:

1. Two coordinators over one store, as a second position in `synchronize` of
   DeviceSync: the instance has to shrink (one attempt, two commands) to stay checkable.
2. The driver's list in Dispatch: an activity assigned without a route is on nobody's
   list (activities.service.ts:57); and the over-closing of journeys of routes still in
   progress, which `JourneyBacked` and `JourneyEndsWithRoute` do not see.
3. Abstract specifications of Session (one owner of the refresh token at a time) and of
   EvidenceUpload (a file is asked for, stored, confirmed, covered by a proof, in this
   order), with the refinements proved; the points of Arrival as a third Handover.
4. The liveness of Dashboard with two routes, which takes an instance smaller elsewhere.
