-------------------------- MODULE DeviceSyncProofs --------------------------
(***************************************************************************)
(* The safety of DeviceSync, for any number of commands, points, slots and *)
(* faults, whatever the driver issues and the dashboard does.              *)
(*                                                                         *)
(* What leaves the phone leaves it because of an answer, and an answer     *)
(* travels: from the server's step into a request (SlotInv), from the      *)
(* request into the app (ResultsInv), and only then is the row deleted.    *)
(* On all its way an acknowledged command has a receipt, and a point       *)
(* answered as kept is stored.                                             *)
(***************************************************************************)
EXTENDS DeviceSync, FiniteSetTheorems, WellFoundedInduction, TLAPS

\* The commands that have a receipt.
Known == {c \in Commands : receipts[c] # None}

\* Every acknowledged result is of a command with a receipt.
Backed(answers, known) ==
  \A c \in Commands :
    answers[c] # None /\ Acknowledged(answers[c].status) => c \in known

\* A request asks for something, and answers nothing it has not recorded.
Sound(r, ids, known, kept) ==
  /\ r.kind = "commands" =>
       /\ r.todo \subseteq ids
       /\ r.stage # "done" => r.todo # {}
       /\ r.stage = "receipt" => r.answer \in ResultStatus
       /\ Backed(r.results, known)
  /\ r.kind = "gps" =>
       /\ r.kept \subseteq kept
       /\ r.stage # "done" => r.todo # {}

SlotInv ==
  \A q \in Slots :
    requests[q] # None => Sound(requests[q], DOMAIN issued, Known, stored)

AwaitInv == awaiting # None => requests[awaiting] # None

\* What synchronize is about to send.
BatchInv ==
  /\ phase = "commands" => batch # {} /\ batch \subseteq DOMAIN issued
  /\ phase = "gps" => batch # {} /\ batch \subseteq Points

ResultsInv == Backed(results, Known)

\* A command leaves the outbox only with a receipt ...
DroppedHasReceipt ==
  \A c \in DOMAIN issued : c \in outbox \/ receipts[c] # None

\* ... and a recorded point is on the phone until it is on the server.
PointsKept == \A p \in 1..recorded : p \in buffer \/ p \in stored

\* There is room for the command of an advance that is saved already.
RoomInv ==
  /\ Len(issued) <= MaxCommands
  /\ saved # None => Len(issued) < MaxCommands

IInv == TypeOK /\ SlotInv /\ AwaitInv /\ BatchInv /\ ResultsInv /\ RoomInv
        /\ DroppedHasReceipt /\ PointsKept

-----------------------------------------------------------------------------
(* The least of a set *)

Less == {x \in Nat \X Nat : x[1] < x[2]}

LEMMA LeastOf ==
  ASSUME NEW S, S \subseteq Nat, S # {}
  PROVE  \E c \in S : \A k \in S : c <= k
  <1>1. IsWellFoundedOn(Less, Nat)
    BY NatLessThanWellFounded DEF OpToRel, Less
  <1>2. PICK c \in S : \A k \in S : ~(<<k, c>> \in Less)
    BY <1>1, WFMin
  <1>3. ASSUME NEW k \in S PROVE c <= k
    <2>1. c \in Nat /\ k \in Nat /\ <<k, c>> \notin Less
      BY <1>2
    <2>2. ~(k < c)
      BY <2>1 DEF Less
    <2> QED
      BY <2>1, <2>2
  <1> QED
    BY <1>3

LEMMA Bounds ==
  /\ MaxCommands \in Nat /\ MaxPoints \in Nat /\ MaxFaults \in Nat
  /\ Attempts \in Nat \ {0} /\ Limit \in Nat \ {0}
  /\ Commands \subseteq Nat /\ Points \subseteq Nat
  BY DeviceSyncAssumption DEF Commands, Points

\* Among the commands of a batch there is one that precedes the others.
LEMMA SomeFirst ==
  ASSUME TypeOK, NEW S, S \subseteq Commands, S # {}
  PROVE  \E c \in S : \A k \in S \ {c} : Precedes(c, k)
  <1> DEFINE late == {c \in S : c > setBack}
  <1>1. S \subseteq Nat /\ setBack \in Nat
    BY Bounds DEF TypeOK
  <1>2. CASE late # {}
    <2>1. PICK c \in late : \A k \in late : c <= k
      BY <1>1, <1>2, LeastOf
    <2> SUFFICES ASSUME NEW k \in S \ {c} PROVE Precedes(c, k)
      BY <2>1
    <2>2. c \in Nat /\ k \in Nat /\ c > setBack /\ k # c
      BY <1>1, <2>1
    <2>3. CASE k > setBack
      <3>1. c < k
        BY <2>1, <2>2, <2>3
      <3> QED
        BY <2>2, <2>3, <3>1 DEF Precedes, SameClock
    <2>4. CASE ~(k > setBack)
      BY <2>2, <2>4 DEF Precedes, SameClock
    <2> QED
      BY <2>3, <2>4
  <1>3. CASE late = {}
    <2>1. PICK c \in S : \A k \in S : c <= k
      BY <1>1, LeastOf
    <2> SUFFICES ASSUME NEW k \in S \ {c} PROVE Precedes(c, k)
      BY <2>1
    <2>2. ~(c > setBack) /\ ~(k > setBack)
      BY <1>3, <2>1
    <2>3. c < k
      BY <1>1, <2>1
    <2> QED
      BY <2>2, <2>3 DEF Precedes, SameClock
  <1> QED
    BY <1>2, <1>3

\* A batch of an outbox that is not empty is not empty.
LEMMA BatchNotEmpty ==
  ASSUME TypeOK, NEW S, S \subseteq Commands, S # {}
  PROVE  Earliest(S) # {}
  <1>1. PICK c \in S : \A k \in S \ {c} : Precedes(c, k)
    BY SomeFirst
  <1>2. {k \in S : Precedes(k, c)} = {}
    <2> SUFFICES ASSUME NEW k \in S, Precedes(k, c) PROVE FALSE
      OBVIOUS
    <2>1. c \in Nat /\ k \in Nat /\ setBack \in Nat
      BY Bounds DEF TypeOK
    <2>2. CASE k = c
      BY <2>1, <2>2 DEF Precedes, SameClock
    <2>3. CASE k # c
      <3>1. Precedes(c, k)
        BY <1>1, <2>3
      <3> QED
        BY <2>1, <2>3, <3>1 DEF Precedes, SameClock
    <2> QED
      BY <2>2, <2>3
  <1>3. Cardinality({k \in S : Precedes(k, c)}) < Limit
    BY <1>2, FS_EmptySet, Bounds
  <1> QED
    BY <1>1, <1>3 DEF Earliest

-----------------------------------------------------------------------------
(* Requests *)

LEMMA KindOf ==
  ASSUME NEW r \in Request
  PROVE  /\ r.kind = "commands" => r \in CommandsRequest
         /\ r.kind = "gps" => r \in PointsRequest
         /\ r.kind = "list" => r \in ListRequest
         /\ r.kind \in {"commands", "gps", "list"}
         /\ r # None
  BY DeviceSyncAssumption DEF Request, CommandsRequest, PointsRequest, ListRequest

LEMMA SoundGrows ==
  ASSUME NEW r, NEW ids, NEW known, NEW kept, Sound(r, ids, known, kept),
         NEW ids2, NEW known2, NEW kept2,
         ids \subseteq ids2, known \subseteq known2, kept \subseteq kept2
  PROVE  Sound(r, ids2, known2, kept2)
  BY DEF Sound, Backed

\* What requests depend on is not taken back.
Monotone ==
  /\ DOMAIN issued \subseteq DOMAIN issued'
  /\ Known \subseteq Known'
  /\ stored \subseteq stored'

LEMMA SameMonotone == ASSUME UNCHANGED <<issued, receipts, stored>> PROVE Monotone
  BY DEF Monotone, Known

LEMMA SlotsKept ==
  ASSUME SlotInv, Monotone, UNCHANGED requests
  PROVE  SlotInv'
  <1> SUFFICES ASSUME NEW q \in Slots, requests[q] # None
               PROVE  Sound(requests[q], DOMAIN issued', Known', stored')
    BY DEF SlotInv
  <1>1. Sound(requests[q], DOMAIN issued, Known, stored)
    BY DEF SlotInv
  <1> QED
    BY <1>1, SoundGrows DEF Monotone

LEMMA SlotMoves ==
  ASSUME TypeOK, SlotInv, Monotone, NEW q \in Slots, NEW new,
         new = None \/ new \in Request,
         new # None => Sound(new, DOMAIN issued', Known', stored'),
         requests' = [requests EXCEPT ![q] = new]
  PROVE  /\ requests' \in [Slots -> Request \cup {None}] /\ SlotInv'
         /\ requests'[q] = new
         /\ \A k \in Slots \ {q} : requests'[k] = requests[k]
  <1>1. requests \in [Slots -> Request \cup {None}]
    BY DEF TypeOK
  <1>2. /\ requests' \in [Slots -> Request \cup {None}] /\ requests'[q] = new
        /\ \A k \in Slots \ {q} : requests'[k] = requests[k]
    BY <1>1
  <1>3. SlotInv'
    <2> SUFFICES ASSUME NEW k \in Slots, requests'[k] # None
                 PROVE  Sound(requests'[k], DOMAIN issued', Known', stored')
      BY DEF SlotInv
    <2>1. CASE k = q
      BY <1>2, <2>1
    <2>2. CASE k # q
      <3>1. requests'[k] = requests[k]
        BY <1>2, <2>2
      <3>2. Sound(requests[k], DOMAIN issued, Known, stored)
        BY <3>1 DEF SlotInv
      <3> QED
        BY <3>1, <3>2, SoundGrows DEF Monotone
    <2> QED
      BY <2>1, <2>2
  <1> QED
    BY <1>2, <1>3

\* A request moves on, or ends without anyone awaiting it.
LEMMA ProgressMoves ==
  ASSUME TypeOK, SlotInv, AwaitInv, Monotone, UNCHANGED awaiting,
         NEW q \in Slots, NEW new \in Request,
         Sound(new, DOMAIN issued', Known', stored'), Progress(q, new)
  PROVE  /\ requests' \in [Slots -> Request \cup {None}] /\ SlotInv' /\ AwaitInv'
         /\ requests'[q] \in {new, None}
         /\ \A k \in Slots \ {q} : requests'[k] = requests[k]
  <1> DEFINE next == IF new.stage = "done" /\ awaiting # q THEN None ELSE new
  <1>1. requests' = [requests EXCEPT ![q] = next]
    BY DEF Progress
  <1>2. next = None \/ next = new
    OBVIOUS
  <1>3. awaiting = q => next # None
    BY KindOf
  <1> HIDE DEF next
  <1>4. /\ requests' \in [Slots -> Request \cup {None}] /\ SlotInv'
        /\ requests'[q] = next
        /\ \A k \in Slots \ {q} : requests'[k] = requests[k]
    BY <1>1, <1>2, SlotMoves
  <1>5. AwaitInv'
    BY <1>3, <1>4 DEF TypeOK, AwaitInv
  <1> QED
    BY <1>2, <1>4, <1>5

LEMMA CommandInHand ==
  ASSUME TypeOK, SlotInv, NEW q \in Slots, requests[q] # None,
         requests[q].kind = "commands", requests[q].stage # "done"
  PROVE  /\ requests[q] \in CommandsRequest
         /\ Command(q) \in requests[q].todo /\ Command(q) \in Commands
         /\ issued[Command(q)] \in DeviceOps
  <1>1. requests[q] \in CommandsRequest
    BY KindOf DEF TypeOK
  <1>2. requests[q].todo # {} /\ requests[q].todo \subseteq DOMAIN issued
    BY DEF SlotInv, Sound
  <1>3. requests[q].todo \subseteq Commands
    BY <1>1 DEF CommandsRequest
  <1>4. \E c \in requests[q].todo : \A k \in requests[q].todo \ {c} : Precedes(c, k)
    BY <1>2, <1>3, SomeFirst
  <1>5. Command(q) \in requests[q].todo
    BY <1>4 DEF Command
  <1>6. issued[Command(q)] \in DeviceOps
    BY <1>2, <1>5 DEF TypeOK
  <1> QED
    BY <1>1, <1>3, <1>5, <1>6

LEMMA AnswerMoves ==
  ASSUME TypeOK, SlotInv, AwaitInv, Monotone, UNCHANGED awaiting,
         NEW q \in Slots, requests[q] # None,
         requests[q].kind = "commands", requests[q].stage # "done",
         NEW result \in Result, Answer(q, result),
         Acknowledged(result.status) => Command(q) \in Known'
  PROVE  /\ requests' \in [Slots -> Request \cup {None}] /\ SlotInv' /\ AwaitInv'
         /\ requests'[q] # None => /\ requests'[q].kind = "commands"
                                  /\ requests'[q].todo = requests[q].todo \ {Command(q)}
         /\ \A k \in Slots \ {q} : requests'[k] = requests[k]
  <1> DEFINE left == requests[q].todo \ {Command(q)}
             stage == IF left = {} THEN "done" ELSE "look"
             answers == [requests[q].results EXCEPT ![Command(q)] = result]
             new == [kind |-> "commands", todo |-> left, stage |-> stage,
                     answer |-> None, results |-> answers]
  <1>1. requests[q] \in CommandsRequest /\ Command(q) \in Commands
    BY CommandInHand
  <1>2. /\ requests[q].results \in [Commands -> Result \cup {None}]
        /\ requests[q].todo \subseteq Commands /\ requests[q].todo \subseteq DOMAIN issued
        /\ Backed(requests[q].results, Known)
    BY <1>1 DEF CommandsRequest, SlotInv, Sound
  <1>3. /\ answers \in [Commands -> Result \cup {None}] /\ answers[Command(q)] = result
        /\ \A c \in Commands \ {Command(q)} : answers[c] = requests[q].results[c]
    BY <1>1, <1>2
  <1>4. Backed(answers, Known')
    BY <1>2, <1>3 DEF Backed, Monotone
  <1>5. stage \in {"look", "done"} /\ (stage # "done" => left # {})
    OBVIOUS
  <1>6. Progress(q, new)
    <2>1. [requests[q] EXCEPT !.results[Command(q)] = result, !.todo = left,
                              !.answer = None, !.stage = stage] = new
      <3> DEFINE r1 == [requests[q] EXCEPT !.results[Command(q)] = result]
                 r2 == [r1 EXCEPT !.todo = left]
                 r3 == [r2 EXCEPT !.answer = None]
      <3> HIDE DEF left, stage
      <3>1. r1 = [kind |-> "commands", todo |-> requests[q].todo, stage |-> requests[q].stage,
                  answer |-> requests[q].answer, results |-> answers]
        <4>1. r1 = [requests[q] EXCEPT !.results = answers]
          OBVIOUS
        <4> HIDE DEF answers
        <4> QED
          BY <1>1, <4>1 DEF CommandsRequest
      <3> HIDE DEF answers, r1
      <3>2. r2 = [kind |-> "commands", todo |-> left, stage |-> requests[q].stage,
                  answer |-> requests[q].answer, results |-> answers]
        BY <3>1
      <3> HIDE DEF r2
      <3>3. r3 = [kind |-> "commands", todo |-> left, stage |-> requests[q].stage,
                  answer |-> None, results |-> answers]
        BY <3>2
      <3> HIDE DEF r3
      <3>4. [r3 EXCEPT !.stage = stage] = new
        BY <3>3
      <3> QED
        BY <3>4 DEF r1, r2, r3
    <2> QED
      BY <2>1 DEF Answer
  <1>7. new \in Request /\ new.kind = "commands" /\ new.todo = left
        /\ new.stage = stage /\ new.results = answers
    <2> HIDE DEF left, stage, answers
    <2>1. left \subseteq Commands
      BY <1>2 DEF left
    <2> QED
      BY <1>3, <1>5, <2>1 DEF Request, CommandsRequest
  <1>8. left \subseteq DOMAIN issued'
    BY <1>2 DEF Monotone
  <1> HIDE DEF left, stage, answers, new
  <1>9. Sound(new, DOMAIN issued', Known', stored')
    BY <1>4, <1>5, <1>7, <1>8 DEF Sound
  <1>10. /\ requests' \in [Slots -> Request \cup {None}] /\ SlotInv' /\ AwaitInv'
         /\ requests'[q] \in {new, None}
         /\ \A k \in Slots \ {q} : requests'[k] = requests[k]
    BY <1>6, <1>7, <1>9, ProgressMoves
  <1> QED
    BY <1>7, <1>10 DEF left

-----------------------------------------------------------------------------
(* The driver and the phone *)

\* A step that touches neither requests nor what they rest on.
LEMMA RequestsKept ==
  ASSUME IInv, UNCHANGED <<requests, awaiting, issued, receipts, stored>>
  PROVE  SlotInv' /\ AwaitInv' /\ Monotone
  <1>1. Monotone
    BY SameMonotone
  <1>2. SlotInv'
    BY <1>1, SlotsKept DEF IInv
  <1>3. AwaitInv'
    BY DEF IInv, AwaitInv
  <1> QED
    BY <1>1, <1>2, <1>3

LEMMA KnownKept ==
  ASSUME IInv, UNCHANGED <<receipts, results>> PROVE ResultsInv' /\ Known' = Known
  BY DEF IInv, ResultsInv, Known, Backed

LEMMA TargetStatus ==
  ASSUME NEW op \in DeviceOps \ JourneyOps PROVE Target(op) \in ActivityStatus
  BY DEF DeviceOps, JourneyOps, TransitionOps, Target, Transition, ActivityStatus

LEMMA AdvanceStep ==
  ASSUME IInv, NEW op \in Operations \ JourneyOps, Advance(op) PROVE IInv'
  <1>1. op \in DeviceOps \ JourneyOps /\ Target(op) \in ActivityStatus
    BY DeviceSyncAssumption, TargetStatus
  <1>2. TypeOK'
    BY <1>1 DEF IInv, TypeOK, Advance, DeviceOps, JourneyOps, serverVars, syncVars, envVars
  <1>3. SlotInv' /\ AwaitInv' /\ ResultsInv'
    BY RequestsKept, KnownKept DEF Advance, serverVars, syncVars
  <1>4. BatchInv' /\ RoomInv'
    BY DEF IInv, BatchInv, RoomInv, Advance, syncVars
  <1>5. DroppedHasReceipt' /\ PointsKept'
    BY DEF IInv, DroppedHasReceipt, PointsKept, Advance, serverVars
  <1> QED
    BY <1>2, <1>3, <1>4, <1>5 DEF IInv

\* A new command is put in the outbox.
LEMMA Enqueued ==
  ASSUME IInv, NEW op \in DeviceOps, Len(issued) < MaxCommands, Enqueue(op),
         UNCHANGED <<requests, awaiting, receipts, stored, phase, batch>>
  PROVE  /\ issued' \in Seq(DeviceOps) /\ Len(issued') <= MaxCommands
         /\ outbox' \subseteq DOMAIN issued'
         /\ SlotInv' /\ AwaitInv' /\ BatchInv' /\ DroppedHasReceipt'
  <1>1. issued \in Seq(DeviceOps) /\ outbox \subseteq DOMAIN issued
    BY DEF IInv, TypeOK
  <1>2. /\ issued' \in Seq(DeviceOps) /\ Len(issued') = Len(issued) + 1
        /\ DOMAIN issued = 1..Len(issued) /\ DOMAIN issued' = 1..(Len(issued) + 1)
        /\ Len(issued) \in Nat
    BY <1>1 DEF Enqueue
  <1>3. DOMAIN issued' = DOMAIN issued \cup {Len(issued) + 1}
    BY <1>2
  <1>4. Len(issued') <= MaxCommands
    BY <1>2, Bounds
  <1>5. outbox' = outbox \cup {Len(issued) + 1}
    BY DEF Enqueue
  <1>6. Monotone
    BY <1>3 DEF Monotone, Known
  <1>7. SlotInv' /\ AwaitInv'
    BY <1>6, SlotsKept DEF IInv, AwaitInv
  <1>8. BatchInv'
    BY <1>3 DEF IInv, BatchInv
  <1>9. DroppedHasReceipt'
    BY <1>3, <1>5 DEF IInv, DroppedHasReceipt
  <1> QED
    BY <1>1, <1>2, <1>3, <1>4, <1>5, <1>7, <1>8, <1>9

LEMMA AdvanceEnqueueStep == ASSUME IInv, AdvanceEnqueue PROVE IInv'
  <1>1. saved \in DeviceOps /\ Len(issued) < MaxCommands
    BY DEF IInv, TypeOK, RoomInv, AdvanceEnqueue, DeviceOps
  <1>2. /\ issued' \in Seq(DeviceOps) /\ Len(issued') <= MaxCommands
        /\ outbox' \subseteq DOMAIN issued'
        /\ SlotInv' /\ AwaitInv' /\ BatchInv' /\ DroppedHasReceipt'
    BY <1>1, Enqueued DEF AdvanceEnqueue, serverVars, syncVars
  <1>3. TypeOK'
    BY <1>2 DEF IInv, TypeOK, AdvanceEnqueue, serverVars, syncVars, envVars
  <1>4. ResultsInv' /\ RoomInv' /\ PointsKept'
    BY <1>2, KnownKept DEF IInv, RoomInv, PointsKept, AdvanceEnqueue, serverVars, syncVars
  <1> QED
    BY <1>2, <1>3, <1>4 DEF IInv

LEMMA ToggleJourneyStep == ASSUME IInv, ToggleJourney PROVE IInv'
  <1> DEFINE op == IF shown THEN "finish_route" ELSE "start_route"
  <1>1. op \in DeviceOps /\ Len(issued) < MaxCommands /\ Enqueue(op) /\ saved = None
    BY DEF ToggleJourney, DeviceOps, JourneyOps
  <1> HIDE DEF op
  <1>2. /\ issued' \in Seq(DeviceOps) /\ Len(issued') <= MaxCommands
        /\ outbox' \subseteq DOMAIN issued'
        /\ SlotInv' /\ AwaitInv' /\ BatchInv' /\ DroppedHasReceipt'
    BY <1>1, Enqueued DEF ToggleJourney, serverVars, syncVars
  <1>3. TypeOK'
    BY <1>2 DEF IInv, TypeOK, ToggleJourney, serverVars, appVars, syncVars, envVars
  <1>4. ResultsInv' /\ RoomInv' /\ PointsKept'
    BY <1>1, <1>2, KnownKept DEF IInv, RoomInv, PointsKept, ToggleJourney, serverVars, appVars,
                                syncVars
  <1> QED
    BY <1>2, <1>3, <1>4 DEF IInv

LEMMA RecordPointStep == ASSUME IInv, RecordPoint PROVE IInv'
  <1>1. /\ recorded \in Nat /\ recorded < MaxPoints
        /\ recorded' = recorded + 1 /\ buffer' = buffer \cup {recorded + 1}
    BY DEF IInv, TypeOK, RecordPoint
  <1>2. /\ recorded' \in 0..MaxPoints /\ buffer' \subseteq 1..recorded'
        /\ 1..recorded' = 1..recorded \cup {recorded + 1}
    <2>1. 1..recorded' = 1..recorded \cup {recorded + 1}
      BY <1>1
    <2>2. buffer \subseteq 1..recorded
      BY DEF IInv, TypeOK
    <2> QED
      BY <1>1, <2>1, <2>2, Bounds
  <1>3. TypeOK'
    BY <1>2 DEF IInv, TypeOK, RecordPoint, serverVars, appVars, syncVars, envVars
  <1>4. SlotInv' /\ AwaitInv' /\ ResultsInv'
    BY RequestsKept, KnownKept DEF RecordPoint, serverVars, syncVars
  <1>5. BatchInv' /\ RoomInv' /\ DroppedHasReceipt'
    BY DEF IInv, BatchInv, RoomInv, DroppedHasReceipt, RecordPoint, serverVars, appVars, syncVars
  <1>6. PointsKept'
    BY <1>1, <1>2 DEF IInv, PointsKept, RecordPoint, serverVars
  <1> QED
    BY <1>3, <1>4, <1>5, <1>6 DEF IInv

\* What the environment counts and remembers keeps its type.
EnvTyped == rejected' \subseteq Commands /\ faults' \in 0..MaxFaults

LEMMA FaultTyped == ASSUME IInv, Fault PROVE faults' \in 0..MaxFaults
  BY Bounds DEF IInv, TypeOK, Fault

LEMMA FailureTyped == ASSUME IInv, Fault, rejected' = rejected PROVE EnvTyped
  BY FaultTyped DEF IInv, TypeOK, EnvTyped

LEMMA SetClockBackStep == ASSUME IInv, SetClockBack PROVE IInv'
  <1>1. Len(issued) \in 0..MaxCommands
    BY Bounds DEF IInv, TypeOK, RoomInv
  <1>2. TypeOK'
    BY <1>1, FaultTyped DEF IInv, TypeOK, SetClockBack, serverVars, storeVars, appVars, syncVars
  <1>3. SlotInv' /\ AwaitInv' /\ ResultsInv'
    BY RequestsKept, KnownKept DEF SetClockBack, serverVars, storeVars, syncVars
  <1>4. BatchInv' /\ RoomInv' /\ DroppedHasReceipt' /\ PointsKept'
    BY DEF IInv, BatchInv, RoomInv, DroppedHasReceipt, PointsKept, SetClockBack, serverVars,
           storeVars, appVars, syncVars
  <1> QED
    BY <1>2, <1>3, <1>4 DEF IInv

-----------------------------------------------------------------------------
(* synchronize *)

LEMMA ToGpsTyped ==
  ASSUME IInv, ToGps
  PROVE  /\ phase' \in {"gps", "finish"} /\ batch' \subseteq Points
         /\ phase' = "gps" => batch' # {}
  <1>1. buffer \subseteq Points
    BY Bounds DEF IInv, TypeOK, Points
  <1> QED
    BY <1>1 DEF ToGps

LEMMA StartSyncStep == ASSUME IInv, StartSync PROVE IInv'
  <1>1. outbox \subseteq DOMAIN issued /\ outbox \subseteq Commands
    <2>1. DOMAIN issued = 1..Len(issued) /\ Len(issued) \in Nat /\ Len(issued) <= MaxCommands
      BY DEF IInv, TypeOK, RoomInv
    <2>2. DOMAIN issued \subseteq Commands
      BY <2>1, Bounds DEF Commands
    <2> QED
      BY <2>2 DEF IInv, TypeOK
  <1>2. /\ phase' \in {"commands", "gps", "finish"} /\ batch' \subseteq Commands \cup Points
        /\ BatchInv'
    <2>1. CASE outbox # {} /\ phase' = "commands" /\ batch' = Earliest(outbox)
      <3>1. batch' \subseteq outbox
        BY <2>1 DEF Earliest
      <3>2. batch' # {}
        BY <1>1, <2>1, BatchNotEmpty DEF IInv
      <3> QED
        BY <1>1, <2>1, <3>1, <3>2 DEF BatchInv, StartSync, storeVars
    <2>2. CASE outbox = {} /\ ToGps
      BY <2>2, ToGpsTyped DEF BatchInv
    <2> QED
      BY <2>1, <2>2 DEF StartSync
  <1>3. TypeOK'
    BY <1>2 DEF IInv, TypeOK, StartSync, serverVars, storeVars, appVars, envVars
  <1>4. SlotInv' /\ AwaitInv' /\ ResultsInv'
    BY RequestsKept, KnownKept DEF StartSync, serverVars, storeVars
  <1>5. RoomInv' /\ DroppedHasReceipt' /\ PointsKept'
    BY DEF IInv, RoomInv, DroppedHasReceipt, PointsKept, StartSync, serverVars, storeVars, appVars
  <1> QED
    BY <1>2, <1>3, <1>4, <1>5 DEF IInv

LEMMA NewRequestSound ==
  ASSUME IInv, phase \in {"commands", "gps", "list"}
  PROVE  NewRequest \in Request /\ Sound(NewRequest, DOMAIN issued, Known, stored)
  <1>1. NoResults \in [Commands -> Result \cup {None}] /\ Backed(NoResults, Known)
    BY DEF NoResults, Backed
  <1>2. CASE phase = "commands"
    <2> DEFINE new == [kind |-> "commands", todo |-> batch, stage |-> "look",
                       answer |-> None, results |-> NoResults]
    <2>1. batch # {} /\ batch \subseteq DOMAIN issued /\ batch \subseteq Commands
      <3>1. DOMAIN issued = 1..Len(issued) /\ Len(issued) \in Nat /\ Len(issued) <= MaxCommands
        BY DEF IInv, TypeOK, RoomInv
      <3>2. DOMAIN issued \subseteq Commands
        BY <3>1, Bounds DEF Commands
      <3> QED
        BY <1>2, <3>2 DEF IInv, BatchInv
    <2>2. NewRequest = new
      BY <1>2 DEF NewRequest
    <2>3. new \in Request
      BY <1>1, <2>1 DEF Request, CommandsRequest
    <2>4. Sound(new, DOMAIN issued, Known, stored)
      BY <1>1, <2>1 DEF Sound
    <2> QED
      BY <2>2, <2>3, <2>4
  <1>3. CASE phase = "gps"
    <2> DEFINE new == [kind |-> "gps", todo |-> batch, stage |-> "look", kept |-> {}]
    <2>1. batch # {} /\ batch \subseteq Points
      BY <1>3 DEF IInv, BatchInv
    <2>2. NewRequest = new
      BY <1>3 DEF NewRequest
    <2>3. new \in Request
      BY <2>1 DEF Request, PointsRequest
    <2>4. Sound(new, DOMAIN issued, Known, stored)
      BY <2>1 DEF Sound
    <2> QED
      BY <2>2, <2>3, <2>4
  <1>4. CASE phase = "list"
    <2> DEFINE new == [kind |-> "list", stage |-> "look", activity |-> "none"]
    <2>1. NewRequest = new
      BY <1>4 DEF NewRequest
    <2>2. new \in Request /\ Sound(new, DOMAIN issued, Known, stored)
      BY DEF Request, ListRequest, ActivityStatus, Sound
    <2> QED
      BY <2>1, <2>2
  <1> QED
    BY <1>2, <1>3, <1>4

LEMMA SendStep == ASSUME IInv, Send PROVE IInv'
  <1> DEFINE free == {q \in Slots : requests[q] = None}
             slot == CHOOSE q \in free : TRUE
  <1>1. slot \in Slots
    BY DEF Send
  <1>2. /\ requests' = [requests EXCEPT ![slot] = NewRequest] /\ awaiting' = slot
        /\ phase \in {"commands", "gps", "list"}
    BY DEF Send
  <1> HIDE DEF slot, free
  <1>3. NewRequest \in Request /\ Sound(NewRequest, DOMAIN issued, Known, stored)
    BY <1>2, NewRequestSound
  <1>4. Monotone /\ Known' = Known /\ UNCHANGED <<issued, stored>>
    BY SameMonotone DEF Send, serverVars, storeVars, Known
  <1>5. /\ requests' \in [Slots -> Request \cup {None}] /\ SlotInv'
        /\ requests'[slot] = NewRequest
    BY <1>1, <1>2, <1>3, <1>4, SlotMoves DEF IInv
  <1>6. AwaitInv'
    BY <1>2, <1>3, <1>5, KindOf DEF AwaitInv
  <1>7. TypeOK'
    BY <1>1, <1>2, <1>5 DEF IInv, TypeOK, Send, serverVars, storeVars, appVars, syncVars, envVars
  <1>8. ResultsInv'
    BY KnownKept DEF Send, serverVars, syncVars
  <1>9. BatchInv' /\ RoomInv' /\ DroppedHasReceipt' /\ PointsKept'
    BY DEF IInv, BatchInv, RoomInv, DroppedHasReceipt, PointsKept, Send, serverVars, storeVars,
           appVars, syncVars
  <1> QED
    BY <1>5, <1>6, <1>7, <1>8, <1>9 DEF IInv

\* An answer is taken out of its slot.
LEMMA Received ==
  ASSUME IInv, NEW kind, Receive(kind), UNCHANGED <<issued, receipts, stored>>
  PROVE  /\ requests' \in [Slots -> Request \cup {None}] /\ SlotInv' /\ AwaitInv'
         /\ awaiting' = None /\ attempt' \in 1..Attempts
         /\ awaiting \in Slots /\ requests[awaiting] \in Request
         /\ requests[awaiting].kind = kind
         /\ Sound(requests[awaiting], DOMAIN issued, Known, stored)
  <1>1. /\ awaiting \in Slots /\ requests[awaiting] # None
        /\ requests[awaiting] \in Request \cup {None}
    BY DEF IInv, TypeOK, AwaitInv, Receive
  <1>2. requests' = [requests EXCEPT ![awaiting] = None]
    BY DEF Receive
  <1>3. requests' \in [Slots -> Request \cup {None}] /\ SlotInv'
    BY <1>1, <1>2, SameMonotone, SlotMoves DEF IInv
  <1>4. AwaitInv' /\ awaiting' = None
    BY DEF Receive, AwaitInv
  <1>5. attempt' \in 1..Attempts
    BY Bounds DEF Receive
  <1>6. Sound(requests[awaiting], DOMAIN issued, Known, stored)
    BY <1>1 DEF IInv, SlotInv
  <1> QED
    BY <1>1, <1>3, <1>4, <1>5, <1>6 DEF Receive

LEMMA ReceiveResultsStep == ASSUME IInv, ReceiveResults PROVE IInv'
  <1>1. UNCHANGED <<issued, receipts, stored>> /\ Known' = Known
    BY DEF ReceiveResults, serverVars, storeVars, Known
  <1>2. /\ requests' \in [Slots -> Request \cup {None}] /\ SlotInv' /\ AwaitInv'
        /\ awaiting' = None /\ attempt' \in 1..Attempts
        /\ requests[awaiting] \in Request /\ requests[awaiting].kind = "commands"
        /\ Sound(requests[awaiting], DOMAIN issued, Known, stored)
    BY <1>1, Received DEF ReceiveResults
  <1>3. results' \in [Commands -> Result \cup {None}] /\ Backed(results', Known)
    BY <1>2, KindOf DEF ReceiveResults, Sound, CommandsRequest
  <1>4. TypeOK'
    BY <1>2, <1>3 DEF IInv, TypeOK, ReceiveResults, serverVars, storeVars, appVars, envVars
  <1>5. ResultsInv' /\ BatchInv'
    BY <1>1, <1>3 DEF ResultsInv, BatchInv, ReceiveResults
  <1>6. RoomInv' /\ DroppedHasReceipt' /\ PointsKept'
    BY DEF IInv, RoomInv, DroppedHasReceipt, PointsKept, ReceiveResults, serverVars, storeVars,
           appVars
  <1> QED
    BY <1>2, <1>4, <1>5, <1>6 DEF IInv

LEMMA RecordResultsStep == ASSUME IInv, RecordResults PROVE IInv'
  <1>1. TypeOK'
    <2>1. activeJourney' \in BOOLEAN /\ finishJourney' \in BOOLEAN
      BY DEF IInv, TypeOK, RecordResults
    <2> QED
      BY <2>1 DEF IInv, TypeOK, RecordResults, serverVars, appVars, envVars
  <1>2. SlotInv' /\ AwaitInv' /\ ResultsInv'
    BY RequestsKept, KnownKept DEF RecordResults, serverVars
  <1>3. BatchInv' /\ RoomInv' /\ DroppedHasReceipt' /\ PointsKept'
    BY DEF IInv, BatchInv, RoomInv, DroppedHasReceipt, PointsKept, RecordResults, serverVars,
           appVars
  <1> QED
    BY <1>1, <1>2, <1>3 DEF IInv

LEMMA AcknowledgeCommandsStep == ASSUME IInv, AcknowledgeCommands PROVE IInv'
  <1>1. /\ phase' \in {"gps", "finish"} /\ batch' \subseteq Points
        /\ phase' = "gps" => batch' # {}
    BY ToGpsTyped DEF AcknowledgeCommands
  <1>2. results' \in [Commands -> Result \cup {None}] /\ Backed(results', Known)
    BY DEF AcknowledgeCommands, NoResults, Backed
  <1>3. Known' = Known /\ UNCHANGED <<issued, receipts, stored, recorded, buffer>>
    BY DEF AcknowledgeCommands, serverVars, Known
  <1>4. outbox' \subseteq outbox
    BY DEF AcknowledgeCommands
  <1>5. TypeOK'
    BY <1>1, <1>2, <1>4 DEF IInv, TypeOK, AcknowledgeCommands, serverVars, appVars, envVars
  <1>6. SlotInv' /\ AwaitInv'
    BY RequestsKept DEF AcknowledgeCommands, serverVars
  <1>7. ResultsInv' /\ BatchInv'
    BY <1>1, <1>2, <1>3 DEF ResultsInv, BatchInv
  <1>8. RoomInv' /\ PointsKept'
    BY DEF IInv, RoomInv, PointsKept, AcknowledgeCommands, serverVars, appVars
  <1>9. DroppedHasReceipt'
    <2> SUFFICES ASSUME NEW c \in DOMAIN issued, c \notin outbox' PROVE receipts[c] # None
      BY <1>3 DEF DroppedHasReceipt
    <2>1. CASE c \notin outbox
      BY <2>1 DEF IInv, DroppedHasReceipt
    <2>2. CASE c \in outbox
      <3>1. AcknowledgedIn(c)
        BY <2>2 DEF AcknowledgeCommands
      <3>2. c \in Commands
        BY Bounds DEF IInv, TypeOK, RoomInv, Commands
      <3> QED
        BY <3>1, <3>2 DEF IInv, ResultsInv, Backed, AcknowledgedIn, Known
    <2> QED
      BY <2>1, <2>2
  <1> QED
    BY <1>5, <1>6, <1>7, <1>8, <1>9 DEF IInv

LEMMA ReceiveGpsStep == ASSUME IInv, ReceiveGps PROVE IInv'
  <1>1. UNCHANGED <<issued, receipts, stored>>
    BY DEF ReceiveGps, serverVars
  <1>2. /\ requests' \in [Slots -> Request \cup {None}] /\ SlotInv' /\ AwaitInv'
        /\ awaiting' = None /\ attempt' \in 1..Attempts
        /\ requests[awaiting].kind = "gps"
        /\ Sound(requests[awaiting], DOMAIN issued, Known, stored)
    BY <1>1, Received DEF ReceiveGps
  <1>3. KeptBy(requests[awaiting]) \subseteq stored
    BY <1>2 DEF KeptBy, Sound
  <1>4. buffer' \subseteq buffer
    BY DEF ReceiveGps
  <1>5. TypeOK'
    BY <1>2, <1>4 DEF IInv, TypeOK, ReceiveGps, serverVars, appVars, envVars
  <1>6. PointsKept'
    BY <1>3 DEF IInv, PointsKept, ReceiveGps, serverVars
  <1>7. ResultsInv'
    BY KnownKept DEF ReceiveGps, serverVars
  <1>8. BatchInv' /\ RoomInv' /\ DroppedHasReceipt'
    BY DEF IInv, BatchInv, RoomInv, DroppedHasReceipt, ReceiveGps, serverVars, appVars
  <1> QED
    BY <1>2, <1>5, <1>6, <1>7, <1>8 DEF IInv

LEMMA FinishJourneyStep == ASSUME IInv, FinishJourney PROVE IInv'
  <1>1. TypeOK'
    <2>1. activeJourney' \in BOOLEAN /\ finishJourney' \in BOOLEAN
      BY DEF IInv, TypeOK, FinishJourney
    <2> QED
      BY <2>1 DEF IInv, TypeOK, FinishJourney, serverVars, appVars, envVars
  <1>2. SlotInv' /\ AwaitInv' /\ ResultsInv'
    BY RequestsKept, KnownKept DEF FinishJourney, serverVars
  <1>3. BatchInv' /\ RoomInv' /\ DroppedHasReceipt' /\ PointsKept'
    BY DEF IInv, BatchInv, RoomInv, DroppedHasReceipt, PointsKept, FinishJourney, serverVars,
           appVars
  <1> QED
    BY <1>1, <1>2, <1>3 DEF IInv

LEMMA ReceiveListStep == ASSUME IInv, ReceiveList PROVE IInv'
  <1>1. UNCHANGED <<issued, receipts, stored>>
    BY DEF ReceiveList, serverVars
  <1>2. /\ requests' \in [Slots -> Request \cup {None}] /\ SlotInv' /\ AwaitInv'
        /\ awaiting' = None /\ attempt' \in 1..Attempts
        /\ requests[awaiting] \in Request /\ requests[awaiting].kind = "list"
    BY <1>1, Received DEF ReceiveList
  <1>3. local' \in ActivityStatus
    BY <1>2, KindOf DEF ReceiveList, Fetched, ListRequest
  <1>4. TypeOK'
    BY <1>2, <1>3 DEF IInv, TypeOK, ReceiveList, serverVars, appVars, envVars
  <1>5. ResultsInv'
    BY KnownKept DEF ReceiveList, serverVars
  <1>6. BatchInv' /\ RoomInv' /\ DroppedHasReceipt' /\ PointsKept'
    BY DEF IInv, BatchInv, RoomInv, DroppedHasReceipt, PointsKept, ReceiveList, serverVars, appVars
  <1> QED
    BY <1>2, <1>4, <1>5, <1>6 DEF IInv

LEMMA FollowJourneyStep == ASSUME IInv, FollowJourney PROVE IInv'
  <1>1. shown' \in BOOLEAN /\ tracking' \in BOOLEAN
    BY DeviceSyncAssumption DEF IInv, TypeOK, FollowJourney, StartTracker, StopTracker
  <1>2. TypeOK'
    BY <1>1 DEF IInv, TypeOK, FollowJourney, serverVars, envVars
  <1>3. SlotInv' /\ AwaitInv' /\ ResultsInv'
    BY RequestsKept, KnownKept DEF FollowJourney, serverVars
  <1>4. BatchInv' /\ RoomInv' /\ DroppedHasReceipt' /\ PointsKept'
    BY DEF IInv, BatchInv, RoomInv, DroppedHasReceipt, PointsKept, FollowJourney, serverVars
  <1> QED
    BY <1>2, <1>3, <1>4 DEF IInv

-----------------------------------------------------------------------------
(* The server *)

LEMMA IssuedAreCommands == ASSUME IInv PROVE DOMAIN issued \subseteq Commands
  <1>1. DOMAIN issued = 1..Len(issued) /\ Len(issued) \in Nat /\ Len(issued) <= MaxCommands
    BY DEF IInv, TypeOK, RoomInv
  <1> QED
    BY <1>1, Bounds DEF Commands

\* A step of the server: the phone is left as it is, and nothing recorded is
\* taken back.
LEMMA ServerMoves ==
  ASSUME IInv, Monotone, UNCHANGED <<storeVars, appVars, syncVars, awaiting, setBack>>,
         EnvTyped,
         route' \in RouteStatus, journey' \in JourneyStatus, activity' \in ActivityStatus,
         receipts' \in [Commands -> Result \cup {None}], stored' \subseteq Points,
         requests' \in [Slots -> Request \cup {None}], SlotInv', AwaitInv'
  PROVE  IInv'
  <1>1. TypeOK'
    BY DEF IInv, TypeOK, storeVars, appVars, syncVars, EnvTyped
  <1>2. ResultsInv'
    BY DEF IInv, ResultsInv, Backed, Monotone, syncVars
  <1>3. BatchInv' /\ RoomInv'
    BY DEF IInv, BatchInv, RoomInv, storeVars, appVars, syncVars
  <1>4. DroppedHasReceipt'
    <2> SUFFICES ASSUME NEW c \in DOMAIN issued, c \notin outbox PROVE receipts'[c] # None
      BY DEF DroppedHasReceipt, storeVars
    <2>1. c \in Known
      BY IssuedAreCommands DEF IInv, DroppedHasReceipt, Known
    <2>2. c \in Known'
      BY <2>1 DEF Monotone
    <2> QED
      BY <2>2 DEF Known
  <1>5. PointsKept'
    BY DEF IInv, PointsKept, Monotone, storeVars
  <1> QED
    BY <1>1, <1>2, <1>3, <1>4, <1>5 DEF IInv

\* What the steps on one request have in common.
OnlyRequests ==
  UNCHANGED <<serverVars, storeVars, appVars, syncVars, awaiting, setBack>>

LEMMA RequestMoves ==
  ASSUME IInv, OnlyRequests, EnvTyped,
         requests' \in [Slots -> Request \cup {None}], SlotInv', AwaitInv'
  PROVE  IInv'
  <1>1. Monotone
    BY SameMonotone DEF OnlyRequests, serverVars, storeVars
  <1> QED
    BY <1>1, ServerMoves DEF IInv, TypeOK, OnlyRequests, serverVars

LEMMA OnlyRequestsMonotone == ASSUME OnlyRequests PROVE Monotone /\ Known' = Known
  BY SameMonotone DEF OnlyRequests, serverVars, storeVars, Known

LEMMA SetBackKept == ASSUME IInv, UNCHANGED envVars
                     PROVE  UNCHANGED setBack /\ EnvTyped
  BY DEF IInv, TypeOK, envVars, EnvTyped

\* A command goes on to its next stage within the transaction.
LEMMA StageMoves ==
  ASSUME IInv, OnlyRequests, EnvTyped, NEW q \in Slots,
         requests[q] # None, requests[q].kind = "commands", requests[q].stage # "done",
         NEW stage \in {"read", "write"},
         requests' = [requests EXCEPT ![q].stage = stage]
  PROVE  IInv'
  <1> DEFINE new == [requests[q] EXCEPT !.stage = stage]
  <1>1. requests[q] \in CommandsRequest
    BY CommandInHand DEF IInv
  <1>2. new \in CommandsRequest
    BY <1>1 DEF CommandsRequest
  <1>3. /\ new.todo = requests[q].todo /\ new.results = requests[q].results
        /\ new.kind = "commands" /\ new.stage = stage
    BY <1>1 DEF CommandsRequest
  <1>4. requests' = [requests EXCEPT ![q] = new]
    OBVIOUS
  <1> HIDE DEF new
  <1>5. Sound(requests[q], DOMAIN issued, Known, stored)
    BY DEF IInv, SlotInv
  <1>6. Sound(new, DOMAIN issued, Known, stored)
    BY <1>3, <1>5 DEF Sound
  <1>7. Sound(new, DOMAIN issued', Known', stored')
    BY <1>6, OnlyRequestsMonotone, SoundGrows DEF Monotone
  <1>8. new \in Request
    BY <1>2 DEF Request
  <1>9. /\ requests' \in [Slots -> Request \cup {None}] /\ SlotInv' /\ requests'[q] = new
        /\ \A k \in Slots \ {q} : requests'[k] = requests[k]
    BY <1>4, <1>7, <1>8, SlotMoves, OnlyRequestsMonotone DEF IInv
  <1>10. AwaitInv'
    BY <1>8, <1>9, KindOf DEF IInv, TypeOK, AwaitInv, OnlyRequests
  <1> QED
    BY <1>9, <1>10, RequestMoves

\* The transaction ends with a status.
LEMMA ConcludeMoves ==
  ASSUME IInv, Monotone, UNCHANGED awaiting, NEW q \in Slots,
         requests[q] # None, requests[q].kind = "commands", requests[q].stage # "done",
         NEW status \in ResultStatus, Conclude(q, status)
  PROVE  requests' \in [Slots -> Request \cup {None}] /\ SlotInv' /\ AwaitInv'
  <1> DEFINE new == [requests[q] EXCEPT !.stage = "receipt", !.answer = status]
             between == [requests[q] EXCEPT !.stage = "receipt"]
  <1>1. requests[q] \in CommandsRequest
    BY CommandInHand DEF IInv
  <1>2. requests' = [requests EXCEPT ![q] = new]
    BY DEF Conclude
  <1>3. between \in CommandsRequest /\ between.todo = requests[q].todo
        /\ between.results = requests[q].results /\ between.stage = "receipt"
    BY <1>1 DEF CommandsRequest
  <1>4. new = [between EXCEPT !.answer = status]
    OBVIOUS
  <1> HIDE DEF new, between
  <1>5. /\ new \in CommandsRequest /\ new.todo = requests[q].todo
        /\ new.results = requests[q].results /\ new.stage = "receipt" /\ new.answer = status
        /\ new.kind = "commands"
    BY <1>3, <1>4 DEF CommandsRequest
  <1>6. Sound(requests[q], DOMAIN issued, Known, stored)
    BY DEF IInv, SlotInv
  <1>7. Sound(new, DOMAIN issued, Known, stored)
    BY <1>5, <1>6 DEF Sound
  <1>8. Sound(new, DOMAIN issued', Known', stored')
    BY <1>7, SoundGrows DEF Monotone
  <1>9. new \in Request
    BY <1>5 DEF Request
  <1>10. /\ requests' \in [Slots -> Request \cup {None}] /\ SlotInv' /\ requests'[q] = new
         /\ \A k \in Slots \ {q} : requests'[k] = requests[k]
    BY <1>2, <1>8, <1>9, SlotMoves DEF IInv
  <1>11. AwaitInv'
    BY <1>9, <1>10, KindOf DEF IInv, TypeOK, AwaitInv
  <1> QED
    BY <1>10, <1>11

LEMMA LookUpReceiptStep ==
  ASSUME IInv, NEW q \in Slots, LookUpReceipt(q) PROVE IInv'
  <1>1. OnlyRequests /\ EnvTyped
    BY SetBackKept DEF LookUpReceipt, OnlyRequests
  <1>2. requests[q] # None /\ requests[q].kind = "commands" /\ requests[q].stage # "done"
    BY DEF LookUpReceipt, Serving
  <1>3. CASE receipts[Command(q)] # None /\ Answer(q, [receipts[Command(q)] EXCEPT !.status = "duplicate"])
    <2> DEFINE result == [receipts[Command(q)] EXCEPT !.status = "duplicate"]
    <2>1. Command(q) \in Commands
      BY <1>2, CommandInHand DEF IInv
    <2>2. receipts[Command(q)] \in Result
      BY <1>3, <2>1 DEF IInv, TypeOK
    <2>3. result \in Result
      BY <2>2 DEF Result, ResultStatus
    <2>4. Command(q) \in Known'
      BY <1>1, <1>3, <2>1, OnlyRequestsMonotone DEF Known
    <2> HIDE DEF result
    <2>5. requests' \in [Slots -> Request \cup {None}] /\ SlotInv' /\ AwaitInv'
      BY <1>1, <1>2, <1>3, <2>3, <2>4, OnlyRequestsMonotone, AnswerMoves
         DEF IInv, OnlyRequests, result
    <2> QED
      BY <1>1, <2>5, RequestMoves
  <1>4. CASE requests' = [requests EXCEPT ![q].stage = "read"]
    BY <1>1, <1>2, <1>4, StageMoves
  <1> QED
    BY <1>3, <1>4 DEF LookUpReceipt

LEMMA ReadRowsStep ==
  ASSUME IInv, NEW q \in Slots, ReadRows(q) PROVE IInv'
  <1>1. OnlyRequests /\ EnvTyped
    BY SetBackKept DEF ReadRows, OnlyRequests
  <1>2. requests[q] # None /\ requests[q].kind = "commands" /\ requests[q].stage # "done"
    BY DEF ReadRows, Serving
  <1>3. CASE Conclude(q, "applied") \/ Conclude(q, "conflict")
    BY <1>1, <1>2, <1>3, ConcludeMoves, RequestMoves, OnlyRequestsMonotone
       DEF OnlyRequests, ResultStatus
  <1>4. CASE requests' = [requests EXCEPT ![q].stage = "write"]
    BY <1>1, <1>2, <1>4, StageMoves
  <1> QED
    BY <1>3, <1>4 DEF ReadRows

LEMMA WriteRowsStep ==
  ASSUME IInv, NEW q \in Slots, WriteRows(q) PROVE IInv'
  <1> DEFINE op == issued[Command(q)]
             taken == op = "start_route" /\ route # "published"
             status == IF taken THEN "conflict" ELSE "applied"
  <1>1. requests[q] # None /\ requests[q].kind = "commands" /\ requests[q].stage # "done"
    BY DEF WriteRows, Serving
  <1>2. op \in DeviceOps
    BY <1>1, CommandInHand DEF IInv
  <1>3. /\ UNCHANGED <<receipts, stored, storeVars, appVars, syncVars, awaiting, envVars>>
        /\ Conclude(q, status) /\ status \in ResultStatus
    BY DEF WriteRows, ResultStatus
  <1>4. Monotone
    BY <1>3, SameMonotone DEF storeVars
  <1>5. route' \in RouteStatus /\ journey' \in JourneyStatus /\ activity' \in ActivityStatus
    <2>1. /\ route \in RouteStatus /\ journey \in JourneyStatus /\ activity \in ActivityStatus
      BY DEF IInv, TypeOK
    <2>2. CASE taken
      BY <2>1, <2>2 DEF WriteRows
    <2>3. CASE op = "start_route" /\ ~taken
      BY <2>1, <2>3 DEF WriteRows, StartRoute, RouteStatus, JourneyStatus, ActivityStatus
    <2>4. CASE op = "finish_route"
      BY <2>1, <2>4 DEF WriteRows, EndRoute, RouteStatus, JourneyStatus
    <2>5. CASE op \notin JourneyOps
      <3>1. Target(op) \in ActivityStatus
        BY <1>2, <2>5, TargetStatus
      <3> QED
        BY <2>1, <2>5, <3>1 DEF WriteRows, JourneyOps
    <2> QED
      BY <2>2, <2>3, <2>4, <2>5 DEF JourneyOps
  <1> HIDE DEF status
  <1>6. requests' \in [Slots -> Request \cup {None}] /\ SlotInv' /\ AwaitInv'
    BY <1>1, <1>3, <1>4, ConcludeMoves
  <1>7. receipts' \in [Commands -> Result \cup {None}] /\ stored' \subseteq Points
    BY <1>3 DEF IInv, TypeOK
  <1>8. UNCHANGED setBack /\ EnvTyped
    BY <1>3, SetBackKept
  <1> QED
    BY <1>3, <1>4, <1>5, <1>6, <1>7, <1>8, ServerMoves

LEMMA TransactionFailsStep ==
  ASSUME IInv, NEW q \in Slots, TransactionFails(q) PROVE IInv'
  <1> DEFINE result == [status |-> "rejected", journeyId |-> FALSE]
  <1>1. OnlyRequests
    BY DEF TransactionFails, OnlyRequests
  <1>3. requests[q] # None /\ requests[q].kind = "commands" /\ requests[q].stage # "done"
    BY DEF TransactionFails, Serving
  <1>2. EnvTyped
    BY <1>3, FaultTyped, CommandInHand DEF IInv, TypeOK, TransactionFails, EnvTyped
  <1>4. result \in Result /\ ~Acknowledged(result.status)
    BY DEF Result, ResultStatus, Acknowledged
  <1>5. Answer(q, result)
    BY DEF TransactionFails
  <1> HIDE DEF result
  <1>6. requests' \in [Slots -> Request \cup {None}] /\ SlotInv' /\ AwaitInv'
    BY <1>1, <1>3, <1>4, <1>5, OnlyRequestsMonotone, AnswerMoves DEF IInv, OnlyRequests
  <1> QED
    BY <1>1, <1>2, <1>6, RequestMoves

LEMMA WriteReceiptStep ==
  ASSUME IInv, NEW q \in Slots, WriteReceipt(q) PROVE IInv'
  <1> DEFINE status == requests[q].answer
             result == [status |-> status,
                        journeyId |-> status = "applied" /\ issued[Command(q)] = "start_route"]
  <1>1. /\ requests[q] # None /\ requests[q].kind = "commands" /\ requests[q].stage # "done"
        /\ requests[q].stage = "receipt"
    BY DEF WriteReceipt, Serving
  <1>2. Command(q) \in Commands
    BY <1>1, CommandInHand DEF IInv
  <1>3. result \in Result
    BY <1>1 DEF IInv, SlotInv, Sound, Result
  <1>4. /\ receipts' = [receipts EXCEPT ![Command(q)] = result] /\ Answer(q, result)
        /\ UNCHANGED <<route, journey, activity, stored, storeVars, appVars, syncVars,
                       awaiting, envVars>>
    BY DEF WriteReceipt
  <1> HIDE DEF result, status
  <1>5. receipts' \in [Commands -> Result \cup {None}] /\ receipts'[Command(q)] = result
        /\ \A c \in Commands \ {Command(q)} : receipts'[c] = receipts[c]
    BY <1>2, <1>3, <1>4 DEF IInv, TypeOK
  <1>6. Command(q) \in Known' /\ Known \subseteq Known'
    BY <1>2, <1>3, <1>5, DeviceSyncAssumption DEF Known
  <1>7. Monotone
    BY <1>4, <1>6 DEF Monotone, storeVars
  <1>8. requests' \in [Slots -> Request \cup {None}] /\ SlotInv' /\ AwaitInv'
    BY <1>1, <1>3, <1>4, <1>6, <1>7, AnswerMoves DEF IInv
  <1>9. UNCHANGED setBack /\ EnvTyped
    BY <1>4, SetBackKept
  <1> QED
    BY <1>4, <1>5, <1>7, <1>8, <1>9, ServerMoves DEF IInv, TypeOK

LEMMA ReadJourneyStep ==
  ASSUME IInv, NEW q \in Slots, ReadJourney(q) PROVE IInv'
  <1> DEFINE stage == IF journey = "active" THEN "find" ELSE "done"
             new == [requests[q] EXCEPT !.stage = stage]
  <1>1. OnlyRequests /\ EnvTyped
    BY SetBackKept DEF ReadJourney, OnlyRequests
  <1>2. requests[q] # None /\ requests[q].kind = "gps" /\ requests[q].stage # "done"
    BY DEF ReadJourney, Serving
  <1>3. requests[q] \in PointsRequest /\ Sound(requests[q], DOMAIN issued, Known, stored)
    BY <1>2, KindOf DEF IInv, TypeOK, SlotInv
  <1>4. Progress(q, new) /\ stage \in {"find", "done"}
    BY DEF ReadJourney
  <1> HIDE DEF stage
  <1>5. /\ new \in PointsRequest /\ new.kind = "gps" /\ new.todo = requests[q].todo
        /\ new.kept = requests[q].kept
    BY <1>3, <1>4 DEF PointsRequest
  <1> HIDE DEF new
  <1>6. new \in Request /\ Sound(new, DOMAIN issued, Known, stored)
    BY <1>2, <1>3, <1>5 DEF Request, Sound
  <1>7. requests' \in [Slots -> Request \cup {None}] /\ SlotInv' /\ AwaitInv'
    BY <1>1, <1>4, <1>6, OnlyRequestsMonotone, SoundGrows, ProgressMoves
       DEF IInv, OnlyRequests, Monotone
  <1> QED
    BY <1>1, <1>7, RequestMoves

LEMMA PointInHand ==
  ASSUME TypeOK, SlotInv, NEW q \in Slots, requests[q] # None,
         requests[q].kind = "gps", requests[q].stage # "done"
  PROVE  /\ requests[q] \in PointsRequest
         /\ requests[q].todo \subseteq Points /\ requests[q].todo # {}
         /\ requests[q].kept \subseteq Points /\ requests[q].kept \subseteq stored
         /\ Point(q) \in requests[q].todo
  <1>1. requests[q] \in PointsRequest
    BY KindOf DEF TypeOK
  <1>2. /\ requests[q].todo \subseteq Points /\ requests[q].todo # {}
        /\ requests[q].kept \subseteq Points /\ requests[q].kept \subseteq stored
    BY <1>1 DEF SlotInv, Sound, PointsRequest
  <1>3. \E x \in requests[q].todo : \A k \in requests[q].todo : x <= k
    BY <1>2, LeastOf, Bounds
  <1>4. Point(q) \in requests[q].todo
    BY <1>3 DEF Point
  <1> QED
    BY <1>1, <1>2, <1>4

\* A point that is stored, or is just being stored, is answered as kept.
LEMMA KeepMoves ==
  ASSUME TypeOK, SlotInv, AwaitInv, Monotone, UNCHANGED awaiting,
         NEW q \in Slots, requests[q] # None,
         requests[q].kind = "gps", requests[q].stage # "done",
         Keep(q), Point(q) \in stored'
  PROVE  requests' \in [Slots -> Request \cup {None}] /\ SlotInv' /\ AwaitInv'
  <1> DEFINE todo == requests[q].todo
             p == Point(q)
             left == todo \ {p}
             stage == IF left = {} THEN "done" ELSE "find"
             kept == requests[q].kept \cup {p}
             new == [kind |-> "gps", todo |-> left, stage |-> stage, kept |-> kept]
  <1>1. /\ requests[q] \in PointsRequest /\ todo \subseteq Points
        /\ requests[q].kept \subseteq Points /\ requests[q].kept \subseteq stored /\ p \in todo
    BY PointInHand
  <1>2. Progress(q, [requests[q] EXCEPT !.todo = left, !.kept = @ \cup {p}, !.stage = stage])
    BY DEF Keep
  <1>3. p \in stored'
    OBVIOUS
  <1> HIDE DEF p
  <1>4. [requests[q] EXCEPT !.todo = left, !.kept = @ \cup {p}, !.stage = stage] = new
    <2> DEFINE r1 == [requests[q] EXCEPT !.todo = left]
               r2 == [r1 EXCEPT !.kept = @ \cup {p}]
    <2> HIDE DEF left, stage
    <2>1. r1 = [kind |-> "gps", todo |-> left, stage |-> requests[q].stage,
                kept |-> requests[q].kept]
      BY <1>1 DEF PointsRequest
    <2> HIDE DEF r1
    <2>2. r2 = [kind |-> "gps", todo |-> left, stage |-> requests[q].stage, kept |-> kept]
      BY <2>1
    <2> HIDE DEF r2
    <2>3. [r2 EXCEPT !.stage = stage] = new
      BY <2>2
    <2> QED
      BY <2>3 DEF r1, r2
  <1>5. /\ left \subseteq Points /\ kept \subseteq Points /\ kept \subseteq stored'
        /\ stage \in {"find", "done"} /\ (stage # "done" => left # {})
    BY <1>1, <1>3 DEF Monotone
  <1> HIDE DEF left, stage, kept
  <1>6. new \in Request
    BY <1>5 DEF Request, PointsRequest
  <1>7. Sound(new, DOMAIN issued', Known', stored')
    BY <1>5 DEF Sound
  <1>8. Progress(q, new)
    BY <1>2, <1>4
  <1> HIDE DEF new
  <1> QED
    BY <1>6, <1>7, <1>8, ProgressMoves

LEMMA FindPointStep ==
  ASSUME IInv, NEW q \in Slots, FindPoint(q) PROVE IInv'
  <1>1. OnlyRequests /\ EnvTyped
    BY SetBackKept DEF FindPoint, OnlyRequests
  <1>2. requests[q] # None /\ requests[q].kind = "gps" /\ requests[q].stage # "done"
    BY DEF FindPoint, Serving
  <1>3. Monotone /\ Known' = Known /\ UNCHANGED <<issued, stored, awaiting>>
    BY <1>1, OnlyRequestsMonotone DEF OnlyRequests, serverVars, storeVars, Known
  <1>4. CASE Point(q) \in stored /\ Keep(q)
    <2>1. requests' \in [Slots -> Request \cup {None}] /\ SlotInv' /\ AwaitInv'
      BY <1>2, <1>3, <1>4, KeepMoves DEF IInv
    <2> QED
      BY <1>1, <2>1, RequestMoves
  <1>5. CASE requests' = [requests EXCEPT ![q].stage = "insert"]
    <2> DEFINE new == [requests[q] EXCEPT !.stage = "insert"]
    <2>1. requests[q] \in PointsRequest /\ Sound(requests[q], DOMAIN issued, Known, stored)
      BY <1>2, KindOf DEF IInv, TypeOK, SlotInv
    <2>2. /\ new \in PointsRequest /\ new.kind = "gps" /\ new.todo = requests[q].todo
          /\ new.kept = requests[q].kept
      BY <2>1 DEF PointsRequest
    <2>3. requests' = [requests EXCEPT ![q] = new]
      BY <1>5
    <2> HIDE DEF new
    <2>4. new \in Request /\ Sound(new, DOMAIN issued', Known', stored')
      BY <1>2, <1>3, <2>1, <2>2 DEF Request, Sound
    <2>5. /\ requests' \in [Slots -> Request \cup {None}] /\ SlotInv' /\ requests'[q] = new
          /\ \A k \in Slots \ {q} : requests'[k] = requests[k]
      BY <1>3, <2>3, <2>4, SlotMoves DEF IInv
    <2>6. AwaitInv'
      BY <1>3, <2>4, <2>5, KindOf DEF IInv, TypeOK, AwaitInv
    <2> QED
      BY <1>1, <2>5, <2>6, RequestMoves
  <1> QED
    BY <1>4, <1>5 DEF FindPoint

LEMMA InsertPointStep ==
  ASSUME IInv, NEW q \in Slots, InsertPoint(q) PROVE IInv'
  <1>1. requests[q] # None /\ requests[q].kind = "gps" /\ requests[q].stage # "done"
    BY DEF InsertPoint, Serving
  <1>2. /\ stored' = stored \cup {Point(q)} /\ Keep(q)
        /\ UNCHANGED <<route, journey, activity, receipts, storeVars, appVars, syncVars,
                       awaiting, envVars>>
    BY DEF InsertPoint
  <1>3. Point(q) \in Points
    BY <1>1, PointInHand DEF IInv
  <1>4. Monotone
    BY <1>2 DEF Monotone, Known, storeVars
  <1>5. requests' \in [Slots -> Request \cup {None}] /\ SlotInv' /\ AwaitInv'
    BY <1>1, <1>2, <1>4, KeepMoves DEF IInv
  <1>6. UNCHANGED setBack /\ EnvTyped
    BY <1>2, SetBackKept
  <1>7. stored' \subseteq Points
    BY <1>2, <1>3 DEF IInv, TypeOK
  <1> QED
    BY <1>2, <1>4, <1>5, <1>6, <1>7, ServerMoves DEF IInv, TypeOK

LEMMA ListActivitiesStep ==
  ASSUME IInv, NEW q \in Slots, ListActivities(q) PROVE IInv'
  <1> DEFINE new == [kind |-> "list", stage |-> "done", activity |-> Remote]
             between == [requests[q] EXCEPT !.stage = "done"]
  <1>1. OnlyRequests /\ EnvTyped
    BY SetBackKept DEF ListActivities, OnlyRequests
  <1>2. requests[q] \in ListRequest
    BY KindOf DEF IInv, TypeOK, ListActivities, Serving
  <1>3. Remote \in ActivityStatus
    BY DEF IInv, TypeOK, Remote, ActivityStatus
  <1>4. [between EXCEPT !.activity = Remote] = new
    <2>1. between = [kind |-> "list", stage |-> "done", activity |-> requests[q].activity]
      BY <1>2 DEF ListRequest
    <2> HIDE DEF between
    <2> QED
      BY <2>1
  <1>5. Progress(q, new)
    BY <1>4 DEF ListActivities
  <1>6. new \in Request /\ Sound(new, DOMAIN issued', Known', stored')
    BY <1>3 DEF Request, ListRequest, Sound
  <1> HIDE DEF new
  <1>7. requests' \in [Slots -> Request \cup {None}] /\ SlotInv' /\ AwaitInv'
    BY <1>1, <1>5, <1>6, OnlyRequestsMonotone, ProgressMoves DEF IInv, OnlyRequests
  <1> QED
    BY <1>1, <1>7, RequestMoves

LEMMA DashboardStep ==
  ASSUME IInv, DashboardStart \/ DashboardComplete PROVE IInv'
  <1>1. UNCHANGED <<receipts, stored, requests, storeVars, appVars, syncVars, awaiting, envVars>>
    BY DEF DashboardStart, DashboardComplete
  <1>2. route' \in RouteStatus /\ journey' \in JourneyStatus /\ activity' \in ActivityStatus
    BY DEF IInv, TypeOK, DashboardStart, DashboardComplete, StartRoute, EndRoute, RouteStatus,
           JourneyStatus, ActivityStatus
  <1>3. SlotInv' /\ AwaitInv' /\ Monotone
    BY <1>1, RequestsKept DEF storeVars
  <1>4. UNCHANGED setBack /\ EnvTyped
    BY <1>1, SetBackKept
  <1> QED
    BY <1>1, <1>2, <1>3, <1>4, ServerMoves DEF IInv, TypeOK

-----------------------------------------------------------------------------
(* Failures *)

LEMMA AbandonTyped ==
  ASSUME IInv, Abandon
  PROVE  /\ phase' = "idle" /\ batch' = {} /\ finishJourney' \in BOOLEAN
         /\ results' \in [Commands -> Result \cup {None}] /\ Backed(results', Known)
         /\ attempt' \in 1..Attempts
  <1>1. 1 \in 1..Attempts
    BY Bounds
  <1>2. NoResults \in [Commands -> Result \cup {None}] /\ Backed(NoResults, Known)
    BY DEF NoResults, Backed
  <1> QED
    BY <1>1, <1>2 DEF Abandon

\* A step of the app that fails, beside any change of the requests.
LEMMA AppFails ==
  ASSUME IInv, UNCHANGED <<serverVars, storeVars, setBack>>,
         RequestFails \/ (Abandon /\ awaiting' = None),
         EnvTyped,
         view' \in ActivityStatus, shown' \in BOOLEAN, saved' = saved \/ saved' = None,
         requests' \in [Slots -> Request \cup {None}], SlotInv'
  PROVE  IInv'
  <1>1. /\ phase' \in {"idle", phase} /\ batch' \in {{}, batch} /\ finishJourney' \in BOOLEAN
        /\ results' \in [Commands -> Result \cup {None}] /\ Backed(results', Known)
        /\ attempt' \in 1..Attempts /\ awaiting' = None
        /\ phase' = "idle" \/ (phase' = phase /\ batch' = batch)
    <2>1. CASE Abandon /\ awaiting' = None
      BY <2>1, AbandonTyped
    <2>2. CASE /\ MayRetry /\ attempt' = attempt + 1 /\ awaiting' = None
               /\ UNCHANGED <<phase, batch, results, finishJourney>>
      BY <2>2, Bounds DEF IInv, TypeOK, ResultsInv, MayRetry
    <2> QED
      BY <2>1, <2>2 DEF RequestFails
  <1>2. Known' = Known
    BY DEF serverVars, Known
  <1>3. TypeOK'
    BY <1>1 DEF IInv, TypeOK, serverVars, storeVars, EnvTyped
  <1>4. AwaitInv' /\ ResultsInv'
    BY <1>1, <1>2 DEF AwaitInv, ResultsInv
  <1>5. BatchInv' /\ RoomInv'
    BY <1>1 DEF IInv, BatchInv, RoomInv, storeVars
  <1>6. DroppedHasReceipt' /\ PointsKept'
    BY DEF IInv, DroppedHasReceipt, PointsKept, serverVars, storeVars
  <1> QED
    BY <1>3, <1>4, <1>5, <1>6 DEF IInv

LEMMA LoseConnectionStep == ASSUME IInv, LoseConnection PROVE IInv'
  <1> DEFINE new == IF requests[awaiting].stage = "done" THEN None ELSE requests[awaiting]
  <1>1. awaiting \in Slots /\ requests[awaiting] \in Request \cup {None}
    BY DEF IInv, TypeOK, LoseConnection
  <1>2. requests' = [requests EXCEPT ![awaiting] = new]
    BY DEF LoseConnection
  <1>3. Monotone /\ Known' = Known /\ UNCHANGED <<issued, stored>>
    BY SameMonotone DEF LoseConnection, serverVars, storeVars, Known
  <1>4. new # None => Sound(new, DOMAIN issued', Known', stored')
    BY <1>1, <1>3 DEF IInv, SlotInv
  <1>5. new = None \/ new \in Request
    BY <1>1
  <1> HIDE DEF new
  <1>6. requests' \in [Slots -> Request \cup {None}] /\ SlotInv'
    BY <1>1, <1>2, <1>3, <1>4, <1>5, SlotMoves DEF IInv
  <1>7. EnvTyped
    BY FailureTyped DEF LoseConnection
  <1> QED
    BY <1>6, <1>7, AppFails DEF IInv, TypeOK, LoseConnection, appVars

LEMMA RequestDiesStep ==
  ASSUME IInv, NEW q \in Slots, RequestDies(q), UNCHANGED setBack, EnvTyped
  PROVE  IInv'
  <1>1. requests' = [requests EXCEPT ![q] = None] /\ UNCHANGED <<serverVars, storeVars, appVars>>
    BY DEF RequestDies
  <1>2. Monotone
    BY <1>1, SameMonotone DEF serverVars, storeVars
  <1>3. /\ requests' \in [Slots -> Request \cup {None}] /\ SlotInv'
        /\ \A k \in Slots \ {q} : requests'[k] = requests[k]
    BY <1>1, <1>2, SlotMoves DEF IInv
  <1>4. CASE awaiting = q /\ RequestFails
    BY <1>1, <1>3, <1>4, AppFails DEF IInv, TypeOK, appVars
  <1>5. CASE awaiting # q /\ UNCHANGED <<syncVars, awaiting>>
    <2>1. AwaitInv'
      BY <1>3, <1>5 DEF IInv, TypeOK, AwaitInv
    <2>2. OnlyRequests
      BY <1>1, <1>5 DEF OnlyRequests
    <2> QED
      BY <1>3, <2>1, <2>2, RequestMoves
  <1> QED
    BY <1>4, <1>5 DEF RequestDies

LEMMA CrashStep == ASSUME IInv, Crash PROVE IInv'
  <1>1. Monotone /\ Known' = Known /\ UNCHANGED <<issued, stored>>
    BY SameMonotone DEF Crash, serverVars, storeVars, Known
  <1>2. \A q \in Slots : requests'[q] = None \/ requests'[q] = requests[q]
    BY DEF Crash
  <1>3. requests' \in [Slots -> Request \cup {None}]
    BY DEF Crash, IInv, TypeOK
  <1>4. SlotInv'
    BY <1>1, <1>2 DEF IInv, SlotInv
  <1>5. EnvTyped
    BY FailureTyped DEF Crash
  <1> QED
    BY <1>3, <1>4, <1>5, AppFails DEF IInv, TypeOK, Crash

LEMMA InitIInv == Init => IInv
  <1> SUFFICES ASSUME Init PROVE IInv
    OBVIOUS
  <1>1. issued \in Seq(DeviceOps) /\ Len(issued) = 0 /\ DOMAIN issued = {}
    BY DEF Init
  <1>2. NoResults \in [Commands -> Result \cup {None}] /\ Backed(NoResults, Known)
    BY DEF NoResults, Backed
  <1>3. /\ requests \in [Slots -> Request \cup {None}] /\ 1 \in 1..Attempts
        /\ 0 \in 0..MaxPoints /\ 0 \in 0..MaxCommands /\ 0 \in 0..MaxFaults
    BY Bounds DEF Init
  <1>4. TypeOK
    BY <1>1, <1>2, <1>3 DEF Init, TypeOK, RouteStatus, JourneyStatus, ActivityStatus
  <1>5. SlotInv /\ AwaitInv /\ BatchInv /\ ResultsInv
    BY <1>2 DEF Init, SlotInv, AwaitInv, BatchInv, ResultsInv
  <1>6. RoomInv /\ DroppedHasReceipt /\ PointsKept
    BY <1>1, Bounds DEF Init, RoomInv, DroppedHasReceipt, PointsKept
  <1> QED
    BY <1>4, <1>5, <1>6 DEF IInv

LEMMA Unchanged == ASSUME IInv, UNCHANGED vars PROVE IInv'
  <1>1. OnlyRequests /\ UNCHANGED requests /\ EnvTyped
    BY SetBackKept DEF vars, OnlyRequests
  <1>2. SlotInv' /\ AwaitInv'
    BY <1>1, RequestsKept DEF OnlyRequests, serverVars, storeVars
  <1> QED
    BY <1>1, <1>2, RequestMoves DEF IInv, TypeOK

-----------------------------------------------------------------------------
(* The theorems *)

\* Every reachable state satisfies the inductive invariant (DeviceSync as a
\* whole: coordinator.ts, mobile.service.ts, AppContext.tsx).
THEOREM Invariance == Spec => []IInv
  <1>1. IInv /\ [Next]_vars => IInv'
    <2> SUFFICES ASSUME IInv, [Next]_vars PROVE IInv'
      OBVIOUS
    <2>1. CASE App
      BY <2>1, StartSyncStep, SendStep, ReceiveResultsStep, RecordResultsStep,
         AcknowledgeCommandsStep, ReceiveGpsStep, FinishJourneyStep, ReceiveListStep,
         FollowJourneyStep DEF App
    <2>2. CASE AdvanceEnqueue \/ Driver \/ RecordPoint
      BY <2>2, AdvanceEnqueueStep, AdvanceStep, ToggleJourneyStep, RecordPointStep DEF Driver
    <2>3. CASE \E q \in Slots : Serve(q)
      <3> PICK q \in Slots : Serve(q)
        BY <2>3
      <3>1. CASE ReceiptClash(q)
        BY <3>1, RequestDiesStep, SetBackKept DEF ReceiptClash
      <3>2. CASE RefusePoints(q)
        BY <3>2, RequestDiesStep, SetBackKept DEF RefusePoints
      <3>3. CASE PointClash(q)
        BY <3>3, RequestDiesStep, SetBackKept DEF PointClash
      <3> QED
        BY <3>1, <3>2, <3>3, LookUpReceiptStep, ReadRowsStep, WriteRowsStep, WriteReceiptStep,
           ReadJourneyStep, FindPointStep, InsertPointStep, ListActivitiesStep DEF Serve
    <2>4. CASE DashboardStart \/ DashboardComplete
      BY <2>4, DashboardStep
    <2>5. CASE Failure
      <3>1. CASE LoseConnection \/ Crash \/ SetClockBack
        BY <3>1, LoseConnectionStep, CrashStep, SetClockBackStep
      <3>2. CASE \E q \in Slots : TransactionFails(q)
        BY <3>2, TransactionFailsStep
      <3>3. CASE \E q \in Slots : ServerFails(q)
        BY <3>3, RequestDiesStep, FailureTyped DEF ServerFails
      <3> QED
        BY <2>5, <3>1, <3>2, <3>3 DEF Failure
    <2>6. CASE UNCHANGED vars
      BY <2>6, Unchanged
    <2> QED
      BY <2>1, <2>2, <2>3, <2>4, <2>5, <2>6 DEF Next
  <1> QED
    BY <1>1, InitIInv, PTL DEF Spec

\* Every variable of DeviceSync keeps its type.
THEOREM TypeCorrect == Spec => []TypeOK
  <1>1. IInv => TypeOK
    BY DEF IInv
  <1> QED
    BY <1>1, Invariance, PTL

\* A command leaves the outbox only with a receipt (coordinator.ts:50,
\* mobile.service.ts:335).
THEOREM ReceiptHolds == Spec => []DroppedHasReceipt
  <1>1. IInv => DroppedHasReceipt
    BY DEF IInv
  <1> QED
    BY <1>1, Invariance, PTL

\* A recorded point is on the phone until it is on the server
\* (coordinator.ts:112, mobile.service.ts:366).
THEOREM PointsHold == Spec => []PointsKept
  <1>1. IInv => PointsKept
    BY DEF IInv
  <1> QED
    BY <1>1, Invariance, PTL
=============================================================================
