------------------------------- MODULE Arrival -------------------------------
(***************************************************************************)
(* What becomes of the readings of a phone's location receiver.  During a  *)
(* journey each is buffered as a point for the next synchronisation, and   *)
(* the latest is what the phone judges an arrival by (validateArrival);    *)
(* the arrival's command carries that reading, and the server judges it    *)
(* again (validateServerArrival) against the time stamped on the command.  *)
(* The two judgements differ in their clocks and in the accuracies they    *)
(* accept; the server's check of the points differs from both (GpsPointDto) *)
(* and refuses a batch as a whole.                                         *)
(*                                                                         *)
(* The trigonometry is abstracted: a place is its distance to the          *)
(* destination.  Lost answers and overlapping requests are the subject of  *)
(* DeviceSync; here a request is one step.                                 *)
(***************************************************************************)
EXTENDS Integers, Sequences

CONSTANTS
  Radius,       \* metres within which an arrival is accepted (150)
  Tolerance,    \* what the accuracy of a reading may add to them (50)
  MaxAge,       \* age up to which a reading is accepted (5 minutes)
  MaxAccuracy,  \* accuracy up to which a point is accepted (10,000 metres)
  Distances,    \* where the driver may be
  Accuracies,   \* what the receiver may report, None included
  Offsets,      \* by how much the phone's clock may be off
  Horizon,      \* bound: real time
  MaxReadings,  \* bound: readings of the receiver
  MaxArrivals,  \* bound: arrivals the driver reports
  MaxFaults,    \* bound: settings of the clock and crashes
  None          \* no reading, no accuracy, no result

ASSUME ArrivalAssumption ==
  /\ {Radius, Tolerance, MaxAge, MaxAccuracy, Horizon, MaxReadings,
      MaxArrivals, MaxFaults} \subseteq Nat
  /\ Distances \subseteq Nat
  /\ Accuracies \subseteq Int \cup {None}
  /\ 0 \in Offsets /\ Offsets \subseteq Int
  /\ None \notin {"applied", "refused"}

Arrivals == 1..MaxArrivals

\* `at' is the real time of the reading: history, no row has it.
Reading == [distance : Distances, accuracy : Accuracies, recordedAt : Int, at : 0..Horizon]

-----------------------------------------------------------------------------

VARIABLES
  (* the world *)
  time,         \* real time
  offset,       \* the phone's clock minus real time
  destination,  \* whether the activity has coordinates
  readings,     \* how many readings there were
  faults,
  (* the phone *)
  buffer,       \* location_buffer
  saving,       \* the reading the background task is about to remember
  latest,       \* metadata.latestLocation
  local,        \* status of the activity, on the screen and in SQLite
  decided,      \* an arrival that was accepted and is not in the outbox yet
  command,      \* history: the arrivals that were put in the outbox
  outbox,       \* their ids, as far as not acknowledged
  phase,        \* where synchronize is
  todo,         \* the commands of the request being served
  (* the server *)
  activity,     \* activities.status
  receipt       \* mobile_command_receipts.result

worldVars == <<time, offset, destination, readings, faults>>
taskVars == <<buffer, saving, latest>>
driverVars == <<local, decided, command, outbox>>
serverVars == <<activity, receipt>>
vars == <<worldVars, taskVars, driverVars, phase, todo, serverVars>>

\* `decidedAt' and `stampedAt' are history: the phone's clock when it accepted
\* the arrival, and the real time of the stamp.
Decision == [reading : Reading \cup {None}, decidedAt : Int]

Command == [reading : Reading \cup {None}, decidedAt : Int, occurredAt : Int,
            stampedAt : 0..Horizon]

TypeOK ==
  /\ time \in 0..Horizon /\ offset \in Offsets
  /\ destination \in BOOLEAN
  /\ readings \in 0..MaxReadings
  /\ faults \in 0..MaxFaults
  /\ buffer \subseteq Reading
  /\ {saving, latest} \subseteq Reading \cup {None}
  /\ {local, activity} \subseteq {"EN_ROUTE", "ON_SITE"}
  /\ decided \in Decision \cup {None}
  /\ command \in Seq(Command) /\ Len(command) <= MaxArrivals
  /\ outbox \subseteq DOMAIN command /\ todo \subseteq outbox
  /\ phase \in {"idle", "commands", "points", "list"}
  /\ receipt \in [Arrivals -> {"applied", "refused", None}]

\* The driver is under way with an active journey.
Init ==
  /\ time = 0 /\ offset = 0 /\ destination \in BOOLEAN
  /\ readings = 0 /\ faults = 0
  /\ buffer = {} /\ saving = None /\ latest = None
  /\ local = "EN_ROUTE" /\ decided = None /\ command = <<>> /\ outbox = {}
  /\ phase = "idle" /\ todo = {}
  /\ activity = "EN_ROUTE" /\ receipt = [c \in Arrivals |-> None]

Clock == time + offset

-----------------------------------------------------------------------------
(* The world *)

Tick ==
  /\ time < Horizon /\ time' = time + 1
  /\ UNCHANGED <<offset, destination, readings, faults, taskVars,
                 driverVars, phase, todo, serverVars>>

Fault == faults < MaxFaults /\ faults' = faults + 1

\* The driver or the network sets the clock.
SetClock ==
  /\ Fault
  /\ offset' \in Offsets \ {offset}
  /\ UNCHANGED <<time, destination, readings, taskVars,
                 driverVars, phase, todo, serverVars>>

-----------------------------------------------------------------------------
(* The background task *)

\* The system delivers a reading, wherever the driver is by then; it is put in
\* the buffer ...
Record ==
  /\ readings < MaxReadings /\ readings' = readings + 1
  /\ saving = None
  /\ \E distance \in Distances, accuracy \in Accuracies :
       saving' = [distance |-> distance, accuracy |-> accuracy,
                  recordedAt |-> Clock, at |-> time]
  /\ buffer' = buffer \cup {saving'}
  /\ UNCHANGED <<time, offset, destination, faults, latest, driverVars, phase,
                 todo, serverVars>>

\* ... and then becomes the latest location.
Remember ==
  /\ saving # None
  /\ latest' = saving /\ saving' = None
  /\ UNCHANGED <<worldVars, buffer, driverVars, phase, todo, serverVars>>

-----------------------------------------------------------------------------
(* The driver reports an arrival *)

Least(i, j) == IF i <= j THEN i ELSE j

\* The phone's judgement: an unknown or negative accuracy adds nothing, and a
\* reading from the future has not grown old.
Near(reading) ==
  reading.distance <=
    Radius + (IF reading.accuracy = None \/ reading.accuracy < 0
                THEN 0 ELSE Least(Tolerance, reading.accuracy))

ValidArrival(reading, now) ==
  \/ ~destination
  \/ /\ reading # None
     /\ now - reading.recordedAt <= MaxAge
     /\ Near(reading)

\* advance to on_site: the latest location is read and judged, the new status
\* shown and saved ...
Decide ==
  /\ local = "EN_ROUTE" /\ decided = None /\ Len(command) < MaxArrivals
  /\ ValidArrival(latest, Clock)
  /\ decided' = [reading |-> latest, decidedAt |-> Clock]
  /\ local' = "ON_SITE"
  /\ UNCHANGED <<worldVars, taskVars, command, outbox, phase, todo, serverVars>>

\* ... and then the command is stamped and put in the outbox.
Stamp ==
  /\ decided # None
  /\ command' = Append(command,
       [reading |-> decided.reading, decidedAt |-> decided.decidedAt,
        occurredAt |-> Clock, stampedAt |-> time])
  /\ outbox' = outbox \cup {Len(command) + 1}
  /\ decided' = None
  /\ UNCHANGED <<worldVars, taskVars, local, phase, todo, serverVars>>

\* The app is killed; what SQLite holds is all that is left.
Crash ==
  /\ Fault
  /\ saving' = None /\ decided' = None
  /\ phase' = "idle" /\ todo' = {}
  /\ UNCHANGED <<time, offset, destination, readings, buffer,
                 latest, local, command, outbox, serverVars>>

-----------------------------------------------------------------------------
(* Synchronisation *)

\* The commands are sent first, when there are any.
StartSync ==
  /\ phase = "idle"
  /\ todo' = outbox
  /\ phase' = IF outbox = {} THEN "points" ELSE "commands"
  /\ UNCHANGED <<worldVars, taskVars, driverVars, serverVars>>

\* JSON sends an unknown accuracy as null, and Number(null) is 0.
AsNumber(accuracy) == IF accuracy = None THEN 0 ELSE accuracy

\* The server does not add the accuracy (mutant of ServerNear).
ServerNearExactly(reading) == reading.distance <= Radius

ServerNear(reading) ==
  reading.distance <= Radius + Least(Tolerance, AsNumber(reading.accuracy))

\* The server does not look at the age (mutant of ServerFresh).
ServerFreshAlways(reading, occurredAt) == TRUE

\* As old or as new as MaxAge, compared with the stamp of the command.
ServerFresh(reading, occurredAt) ==
  /\ occurredAt - reading.recordedAt <= MaxAge
  /\ reading.recordedAt - occurredAt <= MaxAge

ServerValid(reading, occurredAt) ==
  /\ AsNumber(reading.accuracy) >= 0
  /\ ServerFresh(reading, occurredAt)
  /\ ServerNear(reading)

\* arrive: already on site, or en route and near the destination if it has one.
Accepts(c) ==
  \/ activity = "ON_SITE"
  \/ ~destination
  \/ c.reading # None /\ ServerValid(c.reading, c.occurredAt)

\* The wrong status of the schema (mutant of Reached).
ReachedNear == "NEAR_DESTINATION"

\* The status an accepted arrival writes.
Reached == "ON_SITE"

First(ids) == CHOOSE i \in ids : \A k \in ids : i <= k

ToPoints(left) == phase' = IF left = {} THEN "points" ELSE "commands"

\* A command never seen is judged and leaves a receipt; only an accepted one
\* leaves the phone.  Seen before it is a duplicate, and leaves.
Arrive ==
  /\ phase = "commands"
  /\ LET c == First(todo)
         accepted == Accepts(command[c])
     IN /\ IF receipt[c] # None
             THEN outbox' = outbox \ {c} /\ UNCHANGED <<activity, receipt>>
             ELSE /\ receipt' = [receipt EXCEPT ![c] =
                                   IF accepted THEN "applied" ELSE "refused"]
                  /\ activity' = IF accepted THEN Reached ELSE activity
                  /\ outbox' = IF accepted THEN outbox \ {c} ELSE outbox
        /\ todo' = todo \ {c}
        /\ ToPoints(todo \ {c})
  /\ UNCHANGED <<worldVars, taskVars, local, decided, command>>

\* An unknown accuracy is sent as it is (mutant of Sendable).
SendableKnown(reading) == reading.accuracy # None /\ reading.accuracy \in 0..MaxAccuracy

\* What GpsPointDto lets through of what sendGps makes of a reading.
Sendable(reading) == AsNumber(reading.accuracy) \in 0..MaxAccuracy

\* What is stored leaves the buffer.  One point that is refused refuses the
\* batch: sendGps throws, as often as it is repeated, and with it synchronize.
SendPoints ==
  /\ phase = "points"
  /\ IF \A p \in buffer : Sendable(p)
       THEN buffer' = {} /\ phase' = "list"
       ELSE UNCHANGED buffer /\ phase' = "idle"
  /\ UNCHANGED <<worldVars, saving, latest, driverVars, todo, serverVars>>

\* replaceActivities.
Fetch ==
  /\ phase = "list"
  /\ local' = activity
  /\ phase' = "idle"
  /\ UNCHANGED <<worldVars, taskVars, decided, command, outbox, todo, serverVars>>

-----------------------------------------------------------------------------

Sync == StartSync \/ Arrive \/ SendPoints \/ Fetch

Next ==
  \/ Tick \/ SetClock
  \/ Record \/ Remember
  \/ Decide \/ Stamp \/ Crash
  \/ Sync

\* The app's own steps are taken, and the driver goes on synchronising.
Fairness ==
  WF_vars(Remember) /\ WF_vars(Stamp) /\ WF_vars(Sync)

Spec == Init /\ [][Next]_vars /\ Fairness

-----------------------------------------------------------------------------
(* Properties *)

Refused(c) == receipt[c] = "refused"

\* The phone and the server judge alike.  The server refuses an arrival the
\* phone accepted only when the clock moved between the judgement and the
\* stamp, the reading lies more than MaxAge in the future of the stamp (the
\* clock was set back), or the receiver reported a negative accuracy
\* (mobile-geofence.ts:30-43 against geofence.ts:42-52).
RefusedForAReason ==
  \A c \in DOMAIN command : Refused(c) =>
    \/ command[c].occurredAt # command[c].decidedAt
    \/ command[c].reading.recordedAt > command[c].occurredAt + MaxAge
    \/ command[c].reading.accuracy # None /\ command[c].reading.accuracy < 0

\* How far the clock was set back between the reading and the stamp.
SetBack(c) == (c.reading.recordedAt - c.reading.at) - (c.occurredAt - c.stampedAt)

\* Nobody is on site who was not there: the arrival at a known destination
\* rests on a place the driver really was at, no longer before the report than
\* MaxAge and what the clock was set back meanwhile (mobile.service.ts:211-246),
\* however late the command reaches the server.
ArrivalWasReal ==
  activity = "ON_SITE" /\ destination =>
    \E c \in DOMAIN command :
      /\ receipt[c] = "applied" /\ command[c].reading # None
      /\ command[c].reading.distance <= Radius + Tolerance
      /\ command[c].stampedAt - command[c].reading.at <= MaxAge + SetBack(command[c])

\* A reading whose accuracy is negative or beyond MaxAccuracy.
Unusable(p) == p.accuracy # None /\ p.accuracy \notin 0..MaxAccuracy

Blocked == \E p \in buffer : Unusable(p)

\* The screen does not go on showing an arrival the server does not have, nor
\* the server have one that is not shown, unless an unusable reading blocks
\* the synchronisation (coordinator.ts:116-137: the list comes after the points).
ScreenCorrected == [](local # activity => <>(local = activity \/ Blocked))

\* Every reading that was buffered reaches the server, unless blocked.
ReadingsArrive == <>[](buffer = {} \/ Blocked)
=============================================================================
