---------------------------- MODULE ArrivalProofs ----------------------------
(***************************************************************************)
(* Proofs about Arrival, for any distances, accuracies, settings of the    *)
(* clock and numbers of readings and arrivals.  RefusedForAReason and      *)
(* ArrivalWasReal speak of what the server decided; they need to be known  *)
(* of the commands before: each carries a reading the phone accepted, and  *)
(* a receipt is of a command that exists.                                  *)
(***************************************************************************)
EXTENDS Arrival, WellFoundedInduction, TLAPS

\* The phone accepted the reading by its clock, when the destination is known.
Judged(d) ==
  destination =>
    /\ d.reading # None
    /\ d.decidedAt - d.reading.recordedAt <= MaxAge
    /\ Near(d.reading)

EveryArrivalJudged ==
  /\ decided # None => Judged(decided)
  /\ \A c \in DOMAIN command : Judged(command[c])

ReceiptOfCommand == \A c \in Arrivals \ DOMAIN command : receipt[c] = None

RoomForDecided == decided # None => Len(command) < MaxArrivals

SyncStage == phase = "commands" => todo # {}

IInv ==
  /\ TypeOK /\ EveryArrivalJudged /\ ReceiptOfCommand /\ RoomForDecided /\ SyncStage
  /\ RefusedForAReason /\ ArrivalWasReal

-----------------------------------------------------------------------------
(* Helpers *)

LEMMA BoundsType ==
  /\ Radius \in Nat /\ Tolerance \in Nat /\ MaxAge \in Nat /\ MaxAccuracy \in Nat
  /\ Horizon \in Nat /\ MaxReadings \in Nat /\ MaxArrivals \in Nat /\ MaxFaults \in Nat
  /\ Arrivals \subseteq Nat
  /\ Distances \subseteq Nat /\ Accuracies \subseteq Int \cup {None}
  /\ 0 \in Offsets /\ Offsets \subseteq Int
  /\ None # "applied" /\ None # "refused"
BY ArrivalAssumption DEF Arrivals

LEMMA ClockType ==
  ASSUME TypeOK
  PROVE  Clock \in Int /\ time \in Int
BY BoundsType DEF TypeOK, Clock

Less == {ss \in Nat \X Nat : ss[1] < ss[2]}

LEMMA FirstIsMember ==
  ASSUME NEW ids, ids \subseteq Nat, ids # {}
  PROVE  First(ids) \in ids
<1>1. IsWellFoundedOn(Less, Nat)
  BY NatLessThanWellFounded DEF OpToRel, Less
<1>2. PICK i \in ids : \A k \in ids : ~(<<k, i>> \in Less)
  BY <1>1, WFMin
<1>3. \A k \in ids : i <= k
  <2> SUFFICES ASSUME NEW k \in ids
               PROVE  i <= k
    OBVIOUS
  <2>1. i \in Nat /\ k \in Nat /\ <<k, i>> \notin Less
    BY <1>2
  <2> QED
    BY <2>1 DEF Less
<1> QED
  BY <1>3 DEF First

LEMMA CommandType ==
  ASSUME TypeOK
  PROVE  /\ DOMAIN command = 1..Len(command) /\ Len(command) \in Nat
         /\ DOMAIN command \subseteq Arrivals
         /\ \A c \in DOMAIN command :
              /\ command[c] \in Command
              /\ command[c].reading \in Reading \cup {None}
              /\ command[c].decidedAt \in Int /\ command[c].occurredAt \in Int
              /\ command[c].stampedAt \in Int
<1>1. command \in Seq(Command) /\ Len(command) <= MaxArrivals
  BY DEF TypeOK
<1>2. DOMAIN command = 1..Len(command) /\ Len(command) \in Nat
  BY <1>1
<1>3. \A c \in DOMAIN command : command[c] \in Command
  BY <1>1, <1>2
<1> QED
  BY <1>1, <1>2, <1>3, BoundsType DEF Command, Arrivals

LEMMA ReadingType ==
  ASSUME NEW reading \in Reading
  PROVE  /\ reading.distance \in Nat /\ reading.recordedAt \in Int /\ reading.at \in Int
         /\ reading.accuracy \in Int \cup {None}
<1>1. /\ reading.distance \in Distances /\ reading.recordedAt \in Int
      /\ reading.at \in 0..Horizon /\ reading.accuracy \in Accuracies
  BY DEF Reading
<1>2. reading.distance \in Nat
  BY <1>1, BoundsType
<1>3. reading.at \in Int
  BY <1>1
<1>4. reading.accuracy \in Int \cup {None}
  BY <1>1, BoundsType
<1> QED
  BY <1>1, <1>2, <1>3, <1>4

\* The heart of the comparison: of a reading the phone found near, the server
\* dislikes the sign of the accuracy or the time, never the place.
LEMMA JudgedAlike ==
  ASSUME NEW reading \in Reading, NEW decidedAt \in Int, NEW occurredAt \in Int,
         decidedAt - reading.recordedAt <= MaxAge, Near(reading),
         ~ServerValid(reading, occurredAt)
  PROVE  \/ occurredAt # decidedAt
         \/ reading.recordedAt > occurredAt + MaxAge
         \/ reading.accuracy # None /\ reading.accuracy < 0
<1>1. /\ reading.distance \in Nat /\ reading.recordedAt \in Int
      /\ reading.accuracy \in Int \cup {None}
  BY ReadingType
<1>2. CASE ~(AsNumber(reading.accuracy) >= 0)
  BY <1>1, <1>2 DEF AsNumber
<1>3. CASE ~ServerFresh(reading, occurredAt)
  BY <1>1, <1>3, BoundsType DEF ServerFresh
<1>4. CASE AsNumber(reading.accuracy) >= 0 /\ ~ServerNear(reading)
  <2>1. CASE reading.accuracy = None
    BY <1>1, <1>4, <2>1, BoundsType DEF ServerNear, Near, AsNumber, Least
  <2>2. CASE reading.accuracy # None
    BY <1>1, <1>4, <2>2, BoundsType DEF ServerNear, Near, AsNumber, Least
  <2> QED
    BY <2>1, <2>2
<1> QED
  BY <1>2, <1>3, <1>4 DEF ServerValid

\* What the server's judgement says of the place and the time.
LEMMA ValidWasReal ==
  ASSUME NEW c \in Command, c.reading \in Reading, ServerValid(c.reading, c.occurredAt)
  PROVE  /\ c.reading.distance <= Radius + Tolerance
         /\ c.stampedAt - c.reading.at <= MaxAge + SetBack(c)
<1>1. /\ c.reading.distance \in Nat /\ c.reading.recordedAt \in Int /\ c.reading.at \in Int
      /\ c.reading.accuracy \in Int \cup {None}
  BY ReadingType
<1>2. c.occurredAt \in Int /\ c.stampedAt \in Int
  BY BoundsType DEF Command
<1>3. AsNumber(c.reading.accuracy) \in Int
  BY <1>1 DEF AsNumber
<1>4. c.reading.distance <= Radius + Tolerance
  BY <1>1, <1>3, BoundsType DEF ServerValid, ServerNear, Least
<1>5. c.stampedAt - c.reading.at <= MaxAge + SetBack(c)
  BY <1>1, <1>2, BoundsType DEF ServerValid, ServerFresh, SetBack
<1> QED
  BY <1>4, <1>5

-----------------------------------------------------------------------------
(* Types *)

LEMMA InitIInv == Init => IInv
<1> SUFFICES ASSUME Init
             PROVE  IInv
  OBVIOUS
<1>1. command \in Seq(Command) /\ Len(command) = 0 /\ DOMAIN command = {}
  BY DEF Init
<1>2. TypeOK
  BY <1>1, BoundsType DEF Init, TypeOK
<1>3. EveryArrivalJudged /\ ReceiptOfCommand /\ RoomForDecided /\ SyncStage
  BY <1>1 DEF Init, EveryArrivalJudged, ReceiptOfCommand, RoomForDecided, SyncStage
<1>4. RefusedForAReason /\ ArrivalWasReal
  BY <1>1 DEF Init, RefusedForAReason, ArrivalWasReal
<1> QED
  BY <1>2, <1>3, <1>4 DEF IInv

LEMMA StampType ==
  ASSUME TypeOK, Stamp
  PROVE  /\ command' \in Seq(Command) /\ Len(command') = Len(command) + 1
         /\ DOMAIN command' = DOMAIN command \cup {Len(command) + 1}
         /\ \A c \in DOMAIN command : command'[c] = command[c]
         /\ command'[Len(command) + 1].reading = decided.reading
         /\ command'[Len(command) + 1].decidedAt = decided.decidedAt
<1> DEFINE new == [reading |-> decided.reading, decidedAt |-> decided.decidedAt,
                   occurredAt |-> Clock, stampedAt |-> time]
<1>1. decided \in Decision /\ command \in Seq(Command) /\ time \in 0..Horizon
  BY DEF TypeOK, Stamp
<1>2. new \in Command
  BY <1>1, ClockType DEF Command, Decision
<1>3. new.reading = decided.reading /\ new.decidedAt = decided.decidedAt
  OBVIOUS
<1>4. command' = Append(command, new)
  BY DEF Stamp
<1> HIDE DEF new
<1>5. command' \in Seq(Command) /\ Len(command') = Len(command) + 1
  BY <1>1, <1>2, <1>4
<1>6. DOMAIN command = 1..Len(command) /\ DOMAIN command' = 1..(Len(command) + 1)
      /\ Len(command) \in Nat
  BY <1>1, <1>5
<1>7. /\ \A c \in DOMAIN command : command'[c] = command[c]
      /\ command'[Len(command) + 1] = new
  BY <1>1, <1>2, <1>4, <1>6
<1> QED
  BY <1>3, <1>5, <1>6, <1>7

\* No step disturbs a type; an arrival is stamped only when there was room for
\* it when it was decided.
LEMMA TypeStep ==
  ASSUME TypeOK, RoomForDecided, [Next]_vars
  PROVE  TypeOK'
<1> USE DEF worldVars, taskVars, driverVars, serverVars
<1>1. CASE Tick
  BY <1>1, BoundsType DEF Tick, TypeOK
<1>2. CASE SetClock
  BY <1>2, BoundsType DEF SetClock, Fault, TypeOK
<1>3. CASE Record
  <2>1. PICK distance \in Distances, accuracy \in Accuracies :
          saving' = [distance |-> distance, accuracy |-> accuracy,
                     recordedAt |-> Clock, at |-> time]
    BY <1>3 DEF Record
  <2>2. saving' \in Reading
    BY <2>1, ClockType DEF Reading, TypeOK
  <2>3. buffer' \subseteq Reading /\ readings' \in 0..MaxReadings
    BY <1>3, <2>2, BoundsType DEF Record, TypeOK
  <2> QED
    BY <1>3, <2>2, <2>3 DEF Record, TypeOK
<1>4. CASE Remember
  BY <1>4 DEF Remember, TypeOK
<1>5. CASE Decide
  <2>1. decided' \in Decision
    BY <1>5, ClockType DEF Decide, Decision, TypeOK
  <2> QED
    BY <1>5, <2>1 DEF Decide, TypeOK
<1>6. CASE Stamp
  <2>1. /\ command' \in Seq(Command) /\ Len(command') = Len(command) + 1
        /\ DOMAIN command' = DOMAIN command \cup {Len(command) + 1}
    BY <1>6, StampType
  <2>2. Len(command') <= MaxArrivals
    BY <1>6, <2>1, CommandType, BoundsType DEF Stamp, RoomForDecided
  <2>3. outbox' \subseteq DOMAIN command' /\ todo' \subseteq outbox'
    BY <1>6, <2>1 DEF Stamp, TypeOK
  <2> QED
    BY <1>6, <2>1, <2>2, <2>3 DEF Stamp, TypeOK
<1>7. CASE Crash
  BY <1>7, BoundsType DEF Crash, Fault, TypeOK
<1>8. CASE StartSync
  BY <1>8 DEF StartSync, TypeOK
<1>9. CASE Arrive
  <2>1. outbox' \subseteq outbox /\ todo' \subseteq outbox'
    BY <1>9 DEF Arrive, TypeOK
  <2>2. receipt' \in [Arrivals -> {"applied", "refused", None}]
    BY <1>9 DEF Arrive, TypeOK
  <2>3. activity' \in {"EN_ROUTE", "ON_SITE"} /\ phase' \in {"points", "commands"}
    BY <1>9 DEF Arrive, TypeOK, Reached, ToPoints
  <2> QED
    BY <1>9, <2>1, <2>2, <2>3 DEF Arrive, TypeOK
<1>10. CASE SendPoints
  BY <1>10 DEF SendPoints, TypeOK
<1>11. CASE Fetch
  BY <1>11 DEF Fetch, TypeOK
<1>12. CASE UNCHANGED vars
  BY <1>12 DEF vars, TypeOK
<1> QED
  BY <1>1, <1>2, <1>3, <1>4, <1>5, <1>6, <1>7, <1>8, <1>9, <1>10, <1>11, <1>12 DEF Next, Sync

-----------------------------------------------------------------------------
(* The steps *)

\* A step that neither decides, stamps nor judges leaves the invariant alone.
LEMMA QuietStep ==
  ASSUME IInv,
         UNCHANGED <<destination, command, receipt, activity>>,
         decided' \in {decided, None}
  PROVE  /\ EveryArrivalJudged' /\ ReceiptOfCommand' /\ RoomForDecided'
         /\ RefusedForAReason' /\ ArrivalWasReal'
<1>1. EveryArrivalJudged'
  BY DEF IInv, EveryArrivalJudged, Judged, Near
<1>2. ReceiptOfCommand' /\ RoomForDecided'
  BY DEF IInv, ReceiptOfCommand, RoomForDecided
<1>3. RefusedForAReason' /\ ArrivalWasReal'
  BY DEF IInv, RefusedForAReason, Refused, ArrivalWasReal, SetBack
<1> QED
  BY <1>1, <1>2, <1>3

LEMMA DecideStep ==
  ASSUME IInv, Decide
  PROVE  /\ EveryArrivalJudged' /\ ReceiptOfCommand' /\ RoomForDecided'
         /\ RefusedForAReason' /\ ArrivalWasReal'
<1>1. /\ UNCHANGED <<destination, command, receipt, activity>>
      /\ Len(command) < MaxArrivals /\ ValidArrival(latest, Clock)
      /\ decided' = [reading |-> latest, decidedAt |-> Clock]
  BY DEF Decide, worldVars, serverVars
<1>2. decided'.reading = latest /\ decided'.decidedAt = Clock
  BY <1>1
<1>3. destination =>
        /\ latest # None /\ Clock - latest.recordedAt <= MaxAge /\ Near(latest)
  BY <1>1 DEF ValidArrival
<1>4. Judged(decided)'
  BY <1>1, <1>2, <1>3 DEF Judged, Near
<1>5. EveryArrivalJudged'
  BY <1>1, <1>4 DEF IInv, EveryArrivalJudged, Judged, Near
<1>6. ReceiptOfCommand' /\ RoomForDecided'
  BY <1>1 DEF IInv, ReceiptOfCommand, RoomForDecided
<1>7. RefusedForAReason' /\ ArrivalWasReal'
  BY <1>1 DEF IInv, RefusedForAReason, Refused, ArrivalWasReal, SetBack
<1> QED
  BY <1>5, <1>6, <1>7

\* The new command has no receipt, so nothing is said of it yet but that its
\* reading was accepted.
LEMMA StampStep ==
  ASSUME IInv, Stamp
  PROVE  /\ EveryArrivalJudged' /\ ReceiptOfCommand' /\ RoomForDecided'
         /\ RefusedForAReason' /\ ArrivalWasReal'
<1>0. PICK n : n = Len(command) + 1
  OBVIOUS
<1>1. /\ DOMAIN command' = DOMAIN command \cup {n}
      /\ \A c \in DOMAIN command : command'[c] = command[c]
      /\ command'[n].reading = decided.reading
      /\ command'[n].decidedAt = decided.decidedAt
  BY <1>0, StampType DEF IInv
<1>2. /\ UNCHANGED <<destination, receipt, activity>>
      /\ decided # None /\ decided' = None
  BY DEF Stamp, worldVars, serverVars
<1>3. n \in Arrivals \ DOMAIN command
  BY <1>0, <1>2, CommandType, BoundsType DEF IInv, RoomForDecided, Arrivals
<1>4. receipt[n] = None
  BY <1>3 DEF IInv, ReceiptOfCommand
<1>5. EveryArrivalJudged'
  <2>1. Judged(command[n])'
    BY <1>1, <1>2 DEF IInv, EveryArrivalJudged, Judged, Near
  <2>2. \A c \in DOMAIN command : Judged(command[c])'
    BY <1>1, <1>2 DEF IInv, EveryArrivalJudged, Judged, Near
  <2> QED
    BY <1>1, <1>2, <2>1, <2>2 DEF EveryArrivalJudged
<1>6. ReceiptOfCommand' /\ RoomForDecided'
  BY <1>1, <1>2 DEF IInv, ReceiptOfCommand, RoomForDecided
<1>7. RefusedForAReason'
  BY <1>1, <1>2, <1>4, BoundsType DEF IInv, RefusedForAReason, Refused
<1>8. ArrivalWasReal'
  BY <1>1, <1>2 DEF IInv, ArrivalWasReal, SetBack
<1> QED
  BY <1>5, <1>6, <1>7, <1>8

\* The command judged has a receipt afterwards; every other keeps its own.
LEMMA ArriveStep ==
  ASSUME IInv, Arrive
  PROVE  /\ EveryArrivalJudged' /\ ReceiptOfCommand' /\ RoomForDecided'
         /\ RefusedForAReason' /\ ArrivalWasReal'
<1> DEFINE c == First(todo)
<1>1. c \in DOMAIN command /\ c \in Arrivals
  <2>1. todo \subseteq DOMAIN command /\ DOMAIN command \subseteq Arrivals /\ todo # {}
    BY CommandType DEF IInv, TypeOK, Arrive, SyncStage
  <2> QED
    BY <2>1, FirstIsMember, BoundsType
<1>2. UNCHANGED <<destination, decided, command>>
  BY DEF Arrive, worldVars
<1>3. \/ UNCHANGED <<activity, receipt>>
      \/ /\ receipt[c] = None /\ Accepts(command[c])
         /\ receipt' = [receipt EXCEPT ![c] = "applied"]
         /\ activity' = "ON_SITE"
      \/ /\ receipt[c] = None /\ ~Accepts(command[c])
         /\ receipt' = [receipt EXCEPT ![c] = "refused"]
         /\ activity' = activity
  BY DEF Arrive, Reached
<1> HIDE DEF c
<1>4. CASE UNCHANGED <<activity, receipt>>
  BY <1>2, <1>4, QuietStep
<1>5. EveryArrivalJudged' /\ RoomForDecided'
  BY <1>2 DEF IInv, EveryArrivalJudged, Judged, Near, RoomForDecided
<1>6. ReceiptOfCommand'
  BY <1>1, <1>2, <1>3 DEF IInv, TypeOK, ReceiptOfCommand
<1>7. CASE /\ receipt[c] = None /\ Accepts(command[c])
           /\ receipt' = [receipt EXCEPT ![c] = "applied"]
           /\ activity' = "ON_SITE"
  <2>1. /\ receipt'[c] = "applied"
        /\ \A d \in Arrivals \ {c} : receipt'[d] = receipt[d]
    BY <1>1, <1>7 DEF IInv, TypeOK
  <2>2. RefusedForAReason'
    BY <1>2, <2>1, CommandType DEF IInv, RefusedForAReason, Refused
  <2>3. ASSUME destination
        PROVE  \E d \in DOMAIN command :
                 /\ receipt'[d] = "applied" /\ command[d].reading # None
                 /\ command[d].reading.distance <= Radius + Tolerance
                 /\ command[d].stampedAt - command[d].reading.at
                      <= MaxAge + SetBack(command[d])
    <3>1. CASE activity = "ON_SITE"
      BY <2>1, <2>3, <3>1, CommandType DEF IInv, ArrivalWasReal
    <3>2. CASE activity # "ON_SITE"
      <4>1. command[c].reading # None /\ ServerValid(command[c].reading, command[c].occurredAt)
        BY <1>7, <2>3, <3>2 DEF Accepts
      <4>2. command[c] \in Command /\ command[c].reading \in Reading
        BY <1>1, <4>1, CommandType DEF IInv
      <4> QED
        BY <1>1, <2>1, <4>1, <4>2, ValidWasReal
    <3> QED
      BY <3>1, <3>2
  <2>4. ArrivalWasReal'
    BY <1>2, <2>3 DEF ArrivalWasReal, SetBack
  <2> QED
    BY <1>5, <1>6, <2>2, <2>4
<1>8. CASE /\ receipt[c] = None /\ ~Accepts(command[c])
           /\ receipt' = [receipt EXCEPT ![c] = "refused"]
           /\ activity' = activity
  <2>1. /\ receipt'[c] = "refused"
        /\ \A d \in Arrivals \ {c} : receipt'[d] = receipt[d]
    BY <1>1, <1>8 DEF IInv, TypeOK
  <2>2. activity' # "ON_SITE"
    BY <1>8 DEF Accepts
  <2>3. \/ command[c].occurredAt # command[c].decidedAt
        \/ command[c].reading.recordedAt > command[c].occurredAt + MaxAge
        \/ command[c].reading.accuracy # None /\ command[c].reading.accuracy < 0
    <3>1. /\ command[c].reading # None
          /\ command[c].decidedAt - command[c].reading.recordedAt <= MaxAge
          /\ Near(command[c].reading)
      BY <1>1, <1>8 DEF IInv, EveryArrivalJudged, Judged, Accepts
    <3>2. /\ command[c].reading \in Reading
          /\ command[c].decidedAt \in Int /\ command[c].occurredAt \in Int
      BY <1>1, <3>1, CommandType DEF IInv
    <3>3. ~ServerValid(command[c].reading, command[c].occurredAt)
      BY <1>8, <3>1 DEF Accepts
    <3> QED
      BY <3>1, <3>2, <3>3, JudgedAlike
  <2>4. RefusedForAReason'
    BY <1>2, <2>1, <2>3, CommandType DEF IInv, RefusedForAReason, Refused
  <2>5. ArrivalWasReal'
    BY <2>2 DEF ArrivalWasReal
  <2> QED
    BY <1>5, <1>6, <2>4, <2>5
<1> QED
  BY <1>3, <1>4, <1>7, <1>8

LEMMA StageStep ==
  ASSUME IInv, [Next]_vars
  PROVE  SyncStage'
<1>1. CASE StartSync \/ Arrive \/ SendPoints \/ Fetch \/ Crash
  BY <1>1 DEF StartSync, Arrive, ToPoints, SendPoints, Fetch, Crash, SyncStage
<1>2. CASE Tick \/ SetClock \/ Record \/ Remember \/ Decide \/ Stamp
  BY <1>2 DEF Tick, SetClock, Record, Remember, Decide, Stamp, SyncStage, IInv
<1>3. CASE UNCHANGED vars
  BY <1>3 DEF vars, SyncStage, IInv
<1> QED
  BY <1>1, <1>2, <1>3 DEF Next, Sync

LEMMA NextIInv == IInv /\ [Next]_vars => IInv'
<1> SUFFICES ASSUME IInv, [Next]_vars
             PROVE  IInv'
  OBVIOUS
<1>1. TypeOK' /\ SyncStage'
  BY TypeStep, StageStep DEF IInv
<1> DEFINE Rest == /\ EveryArrivalJudged /\ ReceiptOfCommand /\ RoomForDecided
                   /\ RefusedForAReason /\ ArrivalWasReal
<1>2. ASSUME Decide PROVE Rest'
  BY <1>2, DecideStep
<1>3. ASSUME Stamp PROVE Rest'
  BY <1>3, StampStep
<1>4. ASSUME Arrive PROVE Rest'
  BY <1>4, ArriveStep
<1>5. ASSUME \/ Tick \/ SetClock \/ Record \/ Remember \/ Crash
             \/ StartSync \/ SendPoints \/ Fetch \/ UNCHANGED vars
      PROVE  Rest'
  <2>1. /\ UNCHANGED <<destination, command, receipt, activity>>
        /\ decided' \in {decided, None}
    BY <1>5 DEF Tick, SetClock, Record, Remember, Crash, StartSync, SendPoints, Fetch,
                vars, worldVars, taskVars, driverVars, serverVars
  <2> QED
    BY <2>1, QuietStep
<1>6. Rest'
  BY <1>2, <1>3, <1>4, <1>5 DEF Next, Sync
<1> QED
  BY <1>1, <1>6 DEF IInv

-----------------------------------------------------------------------------
(* The theorems *)

\* The strengthened invariant holds in every reachable state.
THEOREM Invariance == Spec => []IInv
BY InitIInv, NextIInv, PTL DEF Spec

\* Every variable keeps its type: what a synchronisation still has to send is
\* in the outbox, and the outbox holds only arrivals that were stamped.
THEOREM TypeCorrect == Spec => []TypeOK
<1>1. IInv => TypeOK
  BY DEF IInv
<1> QED
  BY Invariance, <1>1, PTL

\* Whatever the distances, accuracies and clocks: an arrival the phone accepted
\* is refused only for a moved clock or a negative accuracy.
THEOREM RefusalHolds == Spec => []RefusedForAReason
<1>1. IInv => RefusedForAReason
  BY DEF IInv
<1> QED
  BY Invariance, <1>1, PTL

\* Whoever is on site at a known destination was near it, no longer before the
\* report than MaxAge and what the clock was set back.
THEOREM RealityHolds == Spec => []ArrivalWasReal
<1>1. IInv => ArrivalWasReal
  BY DEF IInv
<1> QED
  BY Invariance, <1>1, PTL
=============================================================================
