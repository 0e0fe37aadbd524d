--------------------------- MODULE HandoverProofs ---------------------------
(***************************************************************************)
(* What the synchronisation of DeviceSync amounts to, for any number of    *)
(* commands, points, slots and faults.                                     *)
(*                                                                         *)
(* The first half is about the order of the commands.  It needs a second   *)
(* inductive invariant, beside the one of DeviceSyncProofs: a set of       *)
(* commands is closed when nothing issued before a member of it is left    *)
(* out unsettled.  The batch cut from the outbox is closed, a request      *)
(* stays closed while it is served, first command first, and so the        *)
(* commands that have a receipt are closed, however many requests run      *)
(* beside each other.                                                      *)
(*                                                                         *)
(* The second half shows that commands and points are handed over as       *)
(* Handover specifies.                                                     *)
(***************************************************************************)
EXTENDS DeviceSyncProofs

-----------------------------------------------------------------------------
(* The order of the outbox *)

\* The order of the outbox is a strict total order of the commands.
LEMMA OutboxOrder ==
  ASSUME TypeOK, NEW a \in Commands, NEW b \in Commands, NEW c \in Commands
  PROVE  /\ ~Precedes(a, a)
         /\ a # b => Precedes(a, b) \/ Precedes(b, a)
         /\ Precedes(a, b) /\ Precedes(b, c) => Precedes(a, c)
  <1>1. a \in Nat /\ b \in Nat /\ c \in Nat /\ setBack \in Nat
    BY Bounds DEF TypeOK
  <1> QED
    BY <1>1 DEF Precedes, SameClock

\* What precedes a command of the batch is in the batch: the cut takes no
\* command from the middle.
LEMMA BatchClosed ==
  ASSUME TypeOK, NEW S, S \subseteq Commands, NEW k \in Earliest(S), NEW c \in S,
         Precedes(c, k)
  PROVE  c \in Earliest(S)
  <1> DEFINE before(x) == {j \in S : Precedes(j, x)}
  <1>1. k \in S /\ Cardinality(before(k)) < Limit
    BY DEF Earliest
  <1>2. before(c) \subseteq before(k)
    BY <1>1, OutboxOrder
  <1>3. IsFiniteSet(before(k))
    <2>1. IsFiniteSet(Commands)
      BY Bounds, FS_Interval DEF Commands
    <2> QED
      BY <2>1, FS_Subset
  <1>4. /\ Cardinality(before(c)) <= Cardinality(before(k))
        /\ Cardinality(before(c)) \in Nat /\ Cardinality(before(k)) \in Nat
    BY <1>2, <1>3, FS_Subset, FS_CardinalityType
  <1>5. Cardinality(before(c)) < Limit
    BY <1>1, <1>4, Bounds
  <1> QED
    BY <1>5 DEF Earliest

-----------------------------------------------------------------------------
(* The order the API settles commands in *)

\* The commands a request has dealt with: settled, or given up by a failed
\* transaction.
Settled == {c \in Commands : receipts[c] # None \/ c \in rejected}

\* Nothing issued before a member, on the same clock, is left out of the set
\* unless it is settled.
Closed(S, ids, settled, back) ==
  \A k \in S, c \in ids :
    c < k /\ (c > back) = (k > back) => c \in S \/ c \in settled

\* A request is for all that is waiting before the last of it, and for points
\* that were recorded.
InOrder(r, ids, settled, back, points) ==
  /\ r.kind = "commands" => Closed(r.todo, ids, settled, back)
  /\ r.kind = "gps" => r.todo \subseteq points

RequestsInOrder ==
  \A q \in Slots :
    requests[q] # None =>
      InOrder(requests[q], DOMAIN issued, Settled, setBack, 1..recorded)

BatchInOrder ==
  /\ phase = "commands" => Closed(batch, DOMAIN issued, Settled, setBack)
  /\ phase = "gps" => batch \subseteq 1..recorded

KnownInOrder == Known \subseteq DOMAIN issued /\ Closed(Known, DOMAIN issued, Settled, setBack)

OrderInv == RequestsInOrder /\ BatchInOrder /\ KnownInOrder

\* What a set of commands loses has been settled, and what is issued meanwhile
\* comes after it.
LEMMA ClosedStep ==
  ASSUME NEW S, NEW ids, S \subseteq ids, ids \subseteq Nat \ {0}, NEW settled,
         NEW back \in Nat, Closed(S, ids, settled, back),
         NEW S2, S2 \subseteq S, NEW ids2, ids2 \subseteq Nat \ {0}, NEW settled2,
         NEW back2 \in Nat,
         \A c \in ids2 \ ids, k \in ids : k < c,
         settled \subseteq settled2, S \ S2 \subseteq settled2,
         back2 = back \/ back = 0
  PROVE  Closed(S2, ids2, settled2, back2)
  <1> SUFFICES ASSUME NEW k \in S2, NEW c \in ids2, c < k, (c > back2) = (k > back2)
               PROVE  c \in S2 \/ c \in settled2
    BY DEF Closed
  <1>1. c \in Nat \ {0} /\ k \in Nat \ {0} /\ k \in S /\ k \in ids
    OBVIOUS
  <1>2. c \in ids
    BY <1>1
  <1>3. (c > back) = (k > back)
    BY <1>1
  <1>4. c \in S \/ c \in settled
    BY <1>1, <1>2, <1>3 DEF Closed
  <1> QED
    BY <1>4

\* What a step may do to what the order rests on.
Grown ==
  /\ \A c \in DOMAIN issued' \ DOMAIN issued, k \in DOMAIN issued : k < c
  /\ Settled \subseteq Settled'
  /\ setBack' = setBack \/ setBack = 0
  /\ recorded <= recorded'

LEMMA IssuedTyped ==
  ASSUME IInv
  PROVE  /\ DOMAIN issued \subseteq Nat \ {0} /\ DOMAIN issued \subseteq Commands
         /\ setBack \in Nat /\ recorded \in Nat
  BY IssuedAreCommands DEF IInv, TypeOK, Commands

LEMMA IssuedTypedNext ==
  ASSUME IInv'
  PROVE  DOMAIN issued' \subseteq Nat \ {0} /\ setBack' \in Nat /\ recorded' \in Nat
  BY DEF IInv, TypeOK

LEMMA ClosedGrows ==
  ASSUME IInv, IInv', Grown, NEW S, S \subseteq DOMAIN issued,
         Closed(S, DOMAIN issued, Settled, setBack),
         NEW S2, S2 \subseteq S, S \ S2 \subseteq Settled'
  PROVE  Closed(S2, DOMAIN issued', Settled', setBack')
  <1>1. /\ DOMAIN issued \subseteq Nat \ {0} /\ setBack \in Nat
        /\ DOMAIN issued' \subseteq Nat \ {0} /\ setBack' \in Nat
    BY IssuedTyped, IssuedTypedNext
  <1> QED
    BY <1>1, ClosedStep DEF Grown

-----------------------------------------------------------------------------

\* A request becomes another: of what it was for it keeps a part, and what it
\* has dealt with is settled.
Follows(r, s, settled) ==
  /\ s.kind = r.kind
  /\ s.kind # "list" => s.todo \subseteq r.todo
  /\ s.kind = "commands" => r.todo \ s.todo \subseteq settled

RequestsFollow ==
  \A q \in Slots :
    \/ requests'[q] \in {None, requests[q]}
    \/ requests[q] # None /\ Follows(requests[q], requests'[q], Settled')
    \/ phase \in {"commands", "gps", "list"} /\ requests'[q] = NewRequest

LEMMA NewRequestIs ==
  /\ phase = "commands" => NewRequest.kind = "commands" /\ NewRequest.todo = batch
  /\ phase = "gps" => NewRequest.kind = "gps" /\ NewRequest.todo = batch
  /\ phase = "list" => NewRequest.kind = "list"
  BY DEF NewRequest

LEMMA RequestsStay ==
  ASSUME IInv, IInv', OrderInv, Grown, RequestsFollow PROVE RequestsInOrder'
  <1> SUFFICES ASSUME NEW q \in Slots, requests'[q] # None
               PROVE  InOrder(requests'[q], DOMAIN issued', Settled', setBack', 1..recorded')
    BY DEF RequestsInOrder
  <1>1. 1..recorded \subseteq 1..recorded'
    BY IssuedTyped, IssuedTypedNext DEF Grown
  <1>2. ASSUME requests[q] # None, Follows(requests[q], requests'[q], Settled')
        PROVE  InOrder(requests'[q], DOMAIN issued', Settled', setBack', 1..recorded')
    <2> DEFINE r == requests[q]
               s == requests'[q]
    <2>1. InOrder(r, DOMAIN issued, Settled, setBack, 1..recorded) /\ Follows(r, s, Settled')
      BY <1>2 DEF OrderInv, RequestsInOrder
    <2>2. r.kind = "commands" => r.todo \subseteq DOMAIN issued
      BY <1>2 DEF IInv, SlotInv, Sound
    <2> HIDE DEF r, s
    <2> SUFFICES InOrder(s, DOMAIN issued', Settled', setBack', 1..recorded')
      BY DEF s
    <2>3. CASE s.kind = "commands"
      <3>1. /\ Closed(r.todo, DOMAIN issued, Settled, setBack) /\ r.todo \subseteq DOMAIN issued
            /\ s.todo \subseteq r.todo /\ r.todo \ s.todo \subseteq Settled'
        BY <2>1, <2>2, <2>3 DEF InOrder, Follows
      <3>2. Closed(s.todo, DOMAIN issued', Settled', setBack')
        <4> DEFINE S == r.todo
                   T == s.todo
        <4> HIDE DEF S, T
        <4>1. /\ Closed(S, DOMAIN issued, Settled, setBack) /\ S \subseteq DOMAIN issued
              /\ T \subseteq S /\ S \ T \subseteq Settled'
          BY <3>1 DEF S, T
        <4>2. Closed(T, DOMAIN issued', Settled', setBack')
          BY <4>1, ClosedGrows
        <4> QED
          BY <4>2 DEF T
      <3> QED
        BY <2>3, <3>2 DEF InOrder
    <2>4. CASE s.kind = "gps"
      <3>1. s.todo \subseteq r.todo /\ r.todo \subseteq 1..recorded
        BY <2>1, <2>4 DEF InOrder, Follows
      <3> QED
        BY <1>1, <2>4, <3>1 DEF InOrder
    <2>5. CASE s.kind \notin {"commands", "gps"}
      BY <2>5 DEF InOrder
    <2> QED
      BY <2>3, <2>4, <2>5
  <1>3. CASE requests'[q] = requests[q]
    BY <1>2, <1>3 DEF Follows
  <1>4. CASE phase \in {"commands", "gps", "list"} /\ requests'[q] = NewRequest
    <2>1. CASE phase = "commands"
      <3>1. batch \subseteq DOMAIN issued /\ Closed(batch, DOMAIN issued, Settled, setBack)
        BY <2>1 DEF IInv, BatchInv, OrderInv, BatchInOrder
      <3>2. Closed(batch, DOMAIN issued', Settled', setBack')
        BY <3>1, ClosedGrows
      <3> QED
        BY <1>4, <2>1, <3>2, NewRequestIs DEF InOrder
    <2>2. CASE phase = "gps"
      BY <1>1, <1>4, <2>2, NewRequestIs DEF InOrder, OrderInv, BatchInOrder
    <2>3. CASE phase = "list"
      BY <1>4, <2>3, NewRequestIs DEF InOrder
    <2> QED
      BY <1>4, <2>1, <2>2, <2>3
  <1> QED
    BY <1>2, <1>3, <1>4 DEF RequestsFollow

\* The batch is the one there was, or synchronize is done with it.
LEMMA BatchStays ==
  ASSUME IInv, IInv', OrderInv, Grown,
         phase' \notin {"commands", "gps"} \/ UNCHANGED <<phase, batch>>
  PROVE  BatchInOrder'
  <1>1. 1..recorded \subseteq 1..recorded'
    BY IssuedTyped, IssuedTypedNext DEF Grown
  <1>2. CASE phase' = "commands"
    <2>1. batch \subseteq DOMAIN issued /\ Closed(batch, DOMAIN issued, Settled, setBack)
      BY <1>2 DEF IInv, BatchInv, OrderInv, BatchInOrder
    <2> QED
      BY <1>2, <2>1, ClosedGrows DEF BatchInOrder
  <1>3. CASE phase' = "gps"
    BY <1>1, <1>3 DEF OrderInv, BatchInOrder
  <1>4. CASE phase' \notin {"commands", "gps"}
    BY <1>4 DEF BatchInOrder
  <1> QED
    BY <1>2, <1>3, <1>4

LEMMA KnownStays ==
  ASSUME IInv, IInv', OrderInv, Grown, DOMAIN issued \subseteq DOMAIN issued', Known' = Known
  PROVE  KnownInOrder'
  BY ClosedGrows DEF OrderInv, KnownInOrder

\* Steps that issue nothing, settle nothing and leave the clock alone.
Still == UNCHANGED <<issued, receipts, rejected, setBack, recorded>>

LEMMA StillGrown ==
  ASSUME IInv, Still
  PROVE  Grown /\ Settled' = Settled /\ Known' = Known /\ DOMAIN issued' = DOMAIN issued
  BY IssuedTyped DEF Still, Grown, Settled, Known

\* The batch cut from the outbox leaves nothing earlier behind.
LEMMA BatchCloses ==
  ASSUME IInv
  PROVE  Closed(Earliest(outbox), DOMAIN issued, Settled, setBack)
  <1> SUFFICES ASSUME NEW k \in Earliest(outbox), NEW c \in DOMAIN issued, c < k,
                      (c > setBack) = (k > setBack)
               PROVE  c \in Earliest(outbox) \/ c \in Settled
    BY DEF Closed
  <1>1. outbox \subseteq Commands /\ c \in Commands
    BY IssuedTyped DEF IInv, TypeOK
  <1>2. CASE c \in outbox
    <2>1. Precedes(c, k)
      BY DEF Precedes, SameClock
    <2> QED
      BY <1>1, <1>2, <2>1, BatchClosed DEF IInv
  <1>3. CASE c \notin outbox
    BY <1>1, <1>3 DEF IInv, DroppedHasReceipt, Settled
  <1> QED
    BY <1>2, <1>3

-----------------------------------------------------------------------------
(* The order is kept by every step *)

\* A step of the phone or the environment, beside the batch it reads.
LEMMA OrderStill ==
  ASSUME IInv, IInv', OrderInv, Still, RequestsFollow, BatchInOrder' PROVE OrderInv'
  <1>1. Grown /\ Known' = Known /\ DOMAIN issued' = DOMAIN issued
    BY StillGrown
  <1>2. RequestsInOrder' /\ KnownInOrder'
    BY <1>1, RequestsStay, KnownStays
  <1> QED
    BY <1>2 DEF OrderInv

LEMMA OrderStaysStill ==
  ASSUME IInv, IInv', OrderInv, Still, RequestsFollow,
         phase' \notin {"commands", "gps"} \/ UNCHANGED <<phase, batch>>
  PROVE  OrderInv'
  <1>1. BatchInOrder'
    BY StillGrown, BatchStays
  <1> QED
    BY <1>1, OrderStill

LEMMA EnqueueOrder ==
  ASSUME IInv, IInv', OrderInv, NEW op, Enqueue(op),
         UNCHANGED <<requests, receipts, rejected, setBack, recorded, phase, batch>>
  PROVE  OrderInv'
  <1>1. /\ DOMAIN issued = 1..Len(issued) /\ DOMAIN issued' = 1..Len(issued')
        /\ Len(issued) \in Nat /\ Len(issued') = Len(issued) + 1
    <2>1. issued \in Seq(DeviceOps) /\ issued' \in Seq(DeviceOps)
      BY DEF IInv, TypeOK
    <2> QED
      BY <2>1 DEF Enqueue
  <1>2. Grown /\ Known' = Known /\ DOMAIN issued \subseteq DOMAIN issued'
    BY <1>1, IssuedTyped DEF Grown, Settled, Known
  <1>3. RequestsInOrder'
    BY <1>2, RequestsStay DEF RequestsFollow
  <1> QED
    BY <1>2, <1>3, BatchStays, KnownStays DEF OrderInv

LEMMA RecordPointOrder == ASSUME IInv, IInv', OrderInv, RecordPoint PROVE OrderInv'
  <1>1. Grown /\ Known' = Known /\ DOMAIN issued' = DOMAIN issued
    BY IssuedTyped DEF RecordPoint, Grown, Settled, Known, serverVars, envVars
  <1>2. RequestsFollow /\ UNCHANGED <<phase, batch>>
    BY DEF RecordPoint, RequestsFollow, syncVars
  <1> QED
    BY <1>1, <1>2, RequestsStay, BatchStays, KnownStays DEF OrderInv

LEMMA SetClockBackOrder == ASSUME IInv, IInv', OrderInv, SetClockBack PROVE OrderInv'
  <1>1. Grown /\ Known' = Known /\ DOMAIN issued' = DOMAIN issued
    BY IssuedTyped DEF SetClockBack, Grown, Settled, Known, serverVars, storeVars
  <1>2. RequestsFollow /\ UNCHANGED <<phase, batch>>
    BY DEF SetClockBack, RequestsFollow, syncVars
  <1> QED
    BY <1>1, <1>2, RequestsStay, BatchStays, KnownStays DEF OrderInv

LEMMA ToGpsOrder == ASSUME IInv, ToGps, UNCHANGED recorded PROVE BatchInOrder'
  BY DEF IInv, TypeOK, ToGps, BatchInOrder

LEMMA StartSyncOrder == ASSUME IInv, IInv', OrderInv, StartSync PROVE OrderInv'
  <1>1. Still /\ RequestsFollow
    BY DEF StartSync, Still, RequestsFollow, serverVars, storeVars, envVars
  <1>2. BatchInOrder'
    <2>1. CASE phase' = "commands" /\ batch' = Earliest(outbox)
      <3>1. Closed(batch', DOMAIN issued', Settled', setBack')
        <4>1. Settled' = Settled /\ DOMAIN issued' = DOMAIN issued /\ setBack' = setBack
          BY <1>1, StillGrown DEF Still
        <4> QED
          BY <2>1, <4>1, BatchCloses
      <3> QED
        BY <2>1, <3>1 DEF BatchInOrder
    <2>2. CASE ToGps
      BY <1>1, <2>2, ToGpsOrder DEF Still
    <2> QED
      BY <2>1, <2>2 DEF StartSync
  <1> QED
    BY <1>1, <1>2, OrderStill

LEMMA AcknowledgeCommandsOrder ==
  ASSUME IInv, IInv', OrderInv, AcknowledgeCommands PROVE OrderInv'
  <1>1. Still /\ RequestsFollow
    BY DEF AcknowledgeCommands, Still, RequestsFollow, serverVars, envVars
  <1>2. BatchInOrder'
    BY <1>1, ToGpsOrder DEF AcknowledgeCommands, Still
  <1> QED
    BY <1>1, <1>2, OrderStill

LEMMA SendOrder == ASSUME IInv, IInv', OrderInv, Send PROVE OrderInv'
  <1> DEFINE free == {q \in Slots : requests[q] = None}
             slot == CHOOSE q \in free : TRUE
  <1>1. slot \in Slots /\ phase \in {"commands", "gps", "list"}
    BY DEF Send
  <1>2. requests' = [requests EXCEPT ![slot] = NewRequest]
    BY DEF Send
  <1> HIDE DEF slot, free
  <1>3. RequestsFollow
    BY <1>1, <1>2 DEF IInv, TypeOK, RequestsFollow
  <1>4. Still /\ UNCHANGED <<phase, batch>>
    BY DEF Send, Still, serverVars, storeVars, syncVars, envVars
  <1> QED
    BY <1>3, <1>4, OrderStaysStill

\* The steps that at most end requests.
LEMMA EndingFollows ==
  ASSUME IInv, \A q \in Slots : requests'[q] \in {None, requests[q]} PROVE RequestsFollow
  BY DEF RequestsFollow

LEMMA ReceiveFollows == ASSUME IInv, NEW kind, Receive(kind) PROVE RequestsFollow
  <1>1. \A q \in Slots : requests'[q] \in {None, requests[q]}
    BY DEF IInv, TypeOK, Receive
  <1> QED
    BY <1>1, EndingFollows

LEMMA ReceiveOrder ==
  ASSUME IInv, IInv', OrderInv, ReceiveResults \/ ReceiveGps \/ ReceiveList PROVE OrderInv'
  <1>1. RequestsFollow
    BY ReceiveFollows DEF ReceiveResults, ReceiveGps, ReceiveList
  <1>2. Still
    BY DEF ReceiveResults, ReceiveGps, ReceiveList, Still, serverVars, storeVars, envVars
  <1>3. phase' \notin {"commands", "gps"}
    BY DEF ReceiveResults, ReceiveGps, ReceiveList
  <1> QED
    BY <1>1, <1>2, <1>3, OrderStaysStill

LEMMA PhoneOrder ==
  ASSUME IInv, IInv', OrderInv,
         RecordResults \/ FinishJourney \/ FollowJourney
  PROVE OrderInv'
  <1>1. Still /\ UNCHANGED requests /\ phase' \notin {"commands", "gps"}
    BY DEF RecordResults, FinishJourney, FollowJourney, Still, serverVars, envVars
  <1>2. RequestsFollow
    BY <1>1 DEF RequestsFollow
  <1> QED
    BY <1>1, <1>2, OrderStaysStill

LEMMA AdvanceOrder ==
  ASSUME IInv, IInv', OrderInv, NEW op, Advance(op) PROVE OrderInv'
  <1>1. Still /\ RequestsFollow /\ UNCHANGED <<phase, batch>>
    BY DEF Advance, Still, RequestsFollow, serverVars, syncVars, envVars
  <1> QED
    BY <1>1, OrderStaysStill

LEMMA DashboardOrder ==
  ASSUME IInv, IInv', OrderInv, DashboardStart \/ DashboardComplete PROVE OrderInv'
  <1>1. Still /\ RequestsFollow /\ UNCHANGED <<phase, batch>>
    BY DEF DashboardStart, DashboardComplete, Still, RequestsFollow, storeVars, syncVars, envVars
  <1> QED
    BY <1>1, OrderStaysStill

-----------------------------------------------------------------------------

\* A step on one request.
LEMMA OneFollows ==
  ASSUME NEW q \in Slots, \A k \in Slots \ {q} : requests'[k] = requests[k],
         requests'[q] # None => requests[q] # None /\ Follows(requests[q], requests'[q], Settled')
  PROVE  RequestsFollow
  BY DEF RequestsFollow

\* A step on one request that leaves what it is for as it is.
LEMMA SameFollows ==
  ASSUME IInv, NEW q \in Slots, requests[q] # None, NEW new \in Request,
         new.kind = requests[q].kind, new.kind # "list" => new.todo = requests[q].todo,
         requests' = [requests EXCEPT ![q] = new] \/ Progress(q, new)
  PROVE  RequestsFollow
  <1>1. requests'[q] \in {new, None} /\ \A k \in Slots \ {q} : requests'[k] = requests[k]
    <2>1. requests \in [Slots -> Request \cup {None}]
      BY DEF IInv, TypeOK
    <2> DEFINE next == IF new.stage = "done" /\ awaiting # q THEN None ELSE new
    <2>2. requests' = [requests EXCEPT ![q] = new] \/ requests' = [requests EXCEPT ![q] = next]
      BY DEF Progress
    <2>3. next \in {new, None}
      OBVIOUS
    <2> HIDE DEF next
    <2> QED
      BY <2>1, <2>2, <2>3
  <1>2. Follows(requests[q], new, Settled')
    BY DEF Follows
  <1> QED
    BY <1>1, <1>2, OneFollows

LEMMA StageFollows ==
  ASSUME IInv, NEW q \in Slots, requests[q] # None, requests[q].kind = "commands",
         requests[q].stage # "done", NEW stage \in {"read", "write"},
         requests' = [requests EXCEPT ![q].stage = stage]
  PROVE  RequestsFollow
  <1> DEFINE new == [requests[q] EXCEPT !.stage = stage]
  <1>1. requests[q] \in CommandsRequest
    BY CommandInHand DEF IInv
  <1>2. new \in CommandsRequest /\ new.todo = requests[q].todo /\ new.kind = "commands"
    BY <1>1 DEF CommandsRequest
  <1>3. requests' = [requests EXCEPT ![q] = new]
    OBVIOUS
  <1> HIDE DEF new
  <1> QED
    BY <1>2, <1>3, SameFollows DEF Request

LEMMA ConcludeFollows ==
  ASSUME IInv, NEW q \in Slots, requests[q] # None, requests[q].kind = "commands",
         requests[q].stage # "done", NEW status \in ResultStatus, Conclude(q, status)
  PROVE  RequestsFollow
  <1> DEFINE between == [requests[q] EXCEPT !.stage = "receipt"]
             new == [requests[q] EXCEPT !.stage = "receipt", !.answer = status]
  <1>1. requests[q] \in CommandsRequest
    BY CommandInHand DEF IInv
  <1>2. between \in CommandsRequest /\ between.todo = requests[q].todo
    BY <1>1 DEF CommandsRequest
  <1>3. new = [between EXCEPT !.answer = status] /\ requests' = [requests EXCEPT ![q] = new]
    BY DEF Conclude
  <1> HIDE DEF between, new
  <1>4. new \in CommandsRequest /\ new.todo = requests[q].todo /\ new.kind = "commands"
    BY <1>2, <1>3 DEF CommandsRequest
  <1> QED
    BY <1>3, <1>4, SameFollows DEF Request

\* An answer takes the command out of the request, once it is settled.
LEMMA AnswerFollows ==
  ASSUME IInv, IInv', Monotone, UNCHANGED awaiting, NEW q \in Slots, requests[q] # None,
         requests[q].kind = "commands", requests[q].stage # "done",
         NEW result \in Result, Answer(q, result),
         Acknowledged(result.status) => Command(q) \in Known', Command(q) \in Settled'
  PROVE  RequestsFollow
  <1>1. /\ requests'[q] # None => /\ requests'[q].kind = "commands"
                                  /\ requests'[q].todo = requests[q].todo \ {Command(q)}
        /\ \A k \in Slots \ {q} : requests'[k] = requests[k]
    BY AnswerMoves DEF IInv
  <1> DEFINE c == Command(q)
  <1> HIDE DEF c
  <1>2. requests'[q] # None => Follows(requests[q], requests'[q], Settled')
    <2>1. ASSUME requests'[q].todo = requests[q].todo \ {c}, c \in Settled',
                 requests'[q].kind = "commands"
          PROVE Follows(requests[q], requests'[q], Settled')
      BY <2>1 DEF Follows
    <2> QED
      BY <1>1, <2>1 DEF c
  <1> QED
    BY <1>1, <1>2, OneFollows

LEMMA LookUpReceiptOrder ==
  ASSUME IInv, IInv', OrderInv, NEW q \in Slots, LookUpReceipt(q) PROVE OrderInv'
  <1>1. Still /\ OnlyRequests /\ UNCHANGED <<phase, batch>>
    BY DEF LookUpReceipt, Still, OnlyRequests, serverVars, storeVars, syncVars, envVars
  <1>2. requests[q] # None /\ requests[q].kind = "commands" /\ requests[q].stage # "done"
    BY DEF LookUpReceipt, Serving
  <1>3. CASE receipts[Command(q)] # None /\ Answer(q, [receipts[Command(q)] EXCEPT !.status = "duplicate"])
    <2> DEFINE result == [receipts[Command(q)] EXCEPT !.status = "duplicate"]
    <2>1. Command(q) \in Commands
      BY <1>2, CommandInHand DEF IInv
    <2>2. receipts[Command(q)] \in Result
      BY <1>3, <2>1 DEF IInv, TypeOK
    <2>3. result \in Result
      BY <2>2 DEF Result, ResultStatus
    <2>4. Command(q) \in Known' /\ Command(q) \in Settled'
      BY <1>1, <1>3, <2>1, OnlyRequestsMonotone DEF Known, Settled, Still
    <2>5. Answer(q, result)
      BY <1>3
    <2> HIDE DEF result
    <2>6. Monotone /\ UNCHANGED awaiting
      BY <1>1, OnlyRequestsMonotone DEF OnlyRequests
    <2>7. RequestsFollow
      BY <1>2, <2>3, <2>4, <2>5, <2>6, AnswerFollows
    <2> QED
      BY <1>1, <2>7, OrderStaysStill
  <1>4. CASE requests' = [requests EXCEPT ![q].stage = "read"]
    BY <1>1, <1>2, <1>4, StageFollows, OrderStaysStill
  <1> QED
    BY <1>3, <1>4 DEF LookUpReceipt

LEMMA ReadRowsOrder ==
  ASSUME IInv, IInv', OrderInv, NEW q \in Slots, ReadRows(q) PROVE OrderInv'
  <1>1. Still /\ UNCHANGED <<phase, batch>>
    BY DEF ReadRows, Still, serverVars, storeVars, syncVars, envVars
  <1>2. requests[q] # None /\ requests[q].kind = "commands" /\ requests[q].stage # "done"
    BY DEF ReadRows, Serving
  <1>3. CASE Conclude(q, "applied") \/ Conclude(q, "conflict")
    BY <1>1, <1>2, <1>3, ConcludeFollows, OrderStaysStill DEF ResultStatus
  <1>4. CASE requests' = [requests EXCEPT ![q].stage = "write"]
    BY <1>1, <1>2, <1>4, StageFollows, OrderStaysStill
  <1> QED
    BY <1>3, <1>4 DEF ReadRows

LEMMA WriteRowsOrder ==
  ASSUME IInv, IInv', OrderInv, NEW q \in Slots, WriteRows(q) PROVE OrderInv'
  <1>1. Still /\ UNCHANGED <<phase, batch>>
    BY DEF WriteRows, Still, storeVars, syncVars, envVars
  <1>2. requests[q] # None /\ requests[q].kind = "commands" /\ requests[q].stage # "done"
    BY DEF WriteRows, Serving
  <1>3. Conclude(q, "applied") \/ Conclude(q, "conflict")
    BY DEF WriteRows
  <1>4. RequestsFollow
    BY <1>2, <1>3, ConcludeFollows DEF ResultStatus
  <1> QED
    BY <1>1, <1>4, OrderStaysStill

\* A failed transaction gives its command up.
LEMMA TransactionFailsOrder ==
  ASSUME IInv, IInv', OrderInv, NEW q \in Slots, TransactionFails(q) PROVE OrderInv'
  <1> DEFINE result == [status |-> "rejected", journeyId |-> FALSE]
  <1>1. OnlyRequests /\ UNCHANGED <<phase, batch>>
    BY DEF TransactionFails, OnlyRequests, syncVars
  <1>2. requests[q] # None /\ requests[q].kind = "commands" /\ requests[q].stage # "done"
    BY DEF TransactionFails, Serving
  <1>3. Command(q) \in Settled' /\ Settled \subseteq Settled'
    <2>1. Command(q) \in Commands
      BY <1>2, CommandInHand DEF IInv
    <2> QED
      BY <2>1 DEF TransactionFails, Settled, serverVars
  <1>4. Grown /\ Known' = Known /\ DOMAIN issued' = DOMAIN issued
    BY <1>1, <1>3, IssuedTyped, OnlyRequestsMonotone DEF Grown, OnlyRequests, storeVars
  <1>5. result \in Result /\ ~Acknowledged(result.status) /\ Answer(q, result)
    BY DEF Result, ResultStatus, Acknowledged, TransactionFails
  <1> HIDE DEF result
  <1>6. Monotone /\ UNCHANGED awaiting
    BY <1>1, OnlyRequestsMonotone DEF OnlyRequests
  <1>7. RequestsFollow
    BY <1>2, <1>3, <1>5, <1>6, AnswerFollows
  <1> QED
    BY <1>1, <1>4, <1>7, RequestsStay, BatchStays, KnownStays DEF OrderInv

\* The command in hand precedes what is left of its request, so that all that
\* was issued before it has been settled already.
LEMMA InHandIsNext ==
  ASSUME IInv, OrderInv, NEW q \in Slots, requests[q] # None,
         requests[q].kind = "commands", requests[q].stage # "done",
         NEW c \in DOMAIN issued, c < Command(q), SameClock(c, Command(q))
  PROVE  c \in Settled
  <1> DEFINE todo == requests[q].todo
             k == Command(q)
  <1>1. todo \subseteq Commands /\ k \in todo
    BY CommandInHand DEF IInv, CommandsRequest
  <1>2. \A j \in todo \ {k} : Precedes(k, j)
    <2>1. \E x \in todo : \A j \in todo \ {x} : Precedes(x, j)
      BY <1>1, SomeFirst DEF IInv
    <2> QED
      BY <2>1 DEF Command
  <1>3. Closed(todo, DOMAIN issued, Settled, setBack)
    BY DEF OrderInv, RequestsInOrder, InOrder
  <1>4. c < k /\ SameClock(c, k)
    OBVIOUS
  <1> HIDE DEF todo, k
  <1>5. k \in Nat /\ c \in Nat /\ setBack \in Nat
    BY <1>1, Bounds, IssuedTyped
  <1>6. c \in todo \/ c \in Settled
    BY <1>1, <1>3, <1>4 DEF Closed, SameClock
  <1>7. c \notin todo
    BY <1>2, <1>4, <1>5 DEF Precedes, SameClock
  <1> QED
    BY <1>6, <1>7

LEMMA WriteReceiptOrder ==
  ASSUME IInv, IInv', OrderInv, NEW q \in Slots, WriteReceipt(q) PROVE OrderInv'
  <1> DEFINE status == requests[q].answer
             result == [status |-> status,
                        journeyId |-> status = "applied" /\ issued[Command(q)] = "start_route"]
  <1>1. /\ requests[q] # None /\ requests[q].kind = "commands" /\ requests[q].stage # "done"
        /\ requests[q].stage = "receipt"
    BY DEF WriteReceipt, Serving
  <1>2. Command(q) \in Commands /\ Command(q) \in DOMAIN issued
    BY <1>1, CommandInHand DEF IInv, SlotInv, Sound
  <1>3. result \in Result
    BY <1>1 DEF IInv, SlotInv, Sound, Result
  <1>4. /\ receipts' = [receipts EXCEPT ![Command(q)] = result] /\ Answer(q, result)
        /\ UNCHANGED <<storeVars, stored, syncVars, awaiting, envVars>>
    BY DEF WriteReceipt
  <1> HIDE DEF result, status
  <1>5. Known' = Known \cup {Command(q)} /\ Settled' = Settled \cup {Command(q)}
    <2>1. result # None
      BY <1>3, DeviceSyncAssumption
    <2>2. receipts \in [Commands -> Result \cup {None}] /\ rejected' = rejected
      BY <1>4 DEF IInv, TypeOK, envVars
    <2> QED
      BY <1>2, <1>4, <2>1, <2>2 DEF Known, Settled
  <1>6. /\ Grown /\ DOMAIN issued' = DOMAIN issued /\ setBack' = setBack
        /\ UNCHANGED <<phase, batch>>
    BY <1>4, <1>5, IssuedTyped DEF Grown, storeVars, syncVars, envVars
  <1>7. RequestsFollow
    <2>1. Monotone /\ UNCHANGED awaiting
      BY <1>4, <1>5 DEF Monotone, storeVars
    <2>2. Command(q) \in Known' /\ Command(q) \in Settled'
      BY <1>5
    <2> QED
      BY <1>1, <1>3, <1>4, <2>1, <2>2, AnswerFollows
  <1>8. KnownInOrder'
    <2>1. Known' \subseteq DOMAIN issued'
      BY <1>2, <1>5, <1>6 DEF OrderInv, KnownInOrder
    <2> SUFFICES ASSUME NEW k \in Known', NEW c \in DOMAIN issued, c < k,
                        (c > setBack) = (k > setBack)
                 PROVE  c \in Settled
      BY <1>5, <1>6, <2>1 DEF KnownInOrder, Closed
    <2>2. CASE k \in Known
      <3>1. c \in Known \/ c \in Settled
        BY <2>2 DEF OrderInv, KnownInOrder, Closed
      <3> QED
        BY <3>1 DEF Known, Settled
    <2>3. CASE k = Command(q)
      BY <1>1, <2>3, InHandIsNext DEF SameClock
    <2> QED
      BY <1>5, <2>2, <2>3
  <1> QED
    BY <1>6, <1>7, <1>8, RequestsStay, BatchStays DEF OrderInv

LEMMA ReadJourneyOrder ==
  ASSUME IInv, IInv', OrderInv, NEW q \in Slots, ReadJourney(q) PROVE OrderInv'
  <1> DEFINE stage == IF journey = "active" THEN "find" ELSE "done"
             new == [requests[q] EXCEPT !.stage = stage]
  <1>1. Still /\ UNCHANGED <<phase, batch>>
    BY DEF ReadJourney, Still, serverVars, storeVars, syncVars, envVars
  <1>2. requests[q] # None /\ requests[q] \in PointsRequest
    BY KindOf DEF IInv, TypeOK, ReadJourney, Serving
  <1>3. Progress(q, new) /\ stage \in {"find", "done"}
    BY DEF ReadJourney
  <1> HIDE DEF stage
  <1>4. new \in PointsRequest /\ new.kind = requests[q].kind /\ new.todo = requests[q].todo
    BY <1>2, <1>3 DEF PointsRequest
  <1> HIDE DEF new
  <1>5. RequestsFollow
    BY <1>2, <1>3, <1>4, SameFollows DEF Request
  <1> QED
    BY <1>1, <1>5, OrderStaysStill

\* A point answered as kept is one of those the request is for.
LEMMA KeepFollows ==
  ASSUME IInv, NEW q \in Slots, requests[q] # None, requests[q].kind = "gps",
         requests[q].stage # "done", Keep(q)
  PROVE  RequestsFollow
  <1> DEFINE todo == requests[q].todo
             p == Point(q)
             left == todo \ {p}
             stage == IF left = {} THEN "done" ELSE "find"
             new == [requests[q] EXCEPT !.todo = left, !.kept = @ \cup {p}, !.stage = stage]
  <1>1. requests[q] \in PointsRequest
    BY PointInHand DEF IInv
  <1>2. Progress(q, new)
    BY DEF Keep
  <1> HIDE DEF p
  <1>3. new.kind = "gps" /\ new.todo = left
    <2> DEFINE r1 == [requests[q] EXCEPT !.todo = left]
               r2 == [r1 EXCEPT !.kept = @ \cup {p}]
    <2> HIDE DEF left, stage
    <2>1. r1 = [kind |-> "gps", todo |-> left, stage |-> requests[q].stage,
                kept |-> requests[q].kept]
      BY <1>1 DEF PointsRequest
    <2> HIDE DEF r1
    <2>2. r2 = [kind |-> "gps", todo |-> left, stage |-> requests[q].stage,
                kept |-> requests[q].kept \cup {p}]
      BY <2>1
    <2> HIDE DEF r2
    <2>3. [r2 EXCEPT !.stage = stage].kind = "gps" /\ [r2 EXCEPT !.stage = stage].todo = left
      BY <2>2
    <2> QED
      BY <2>3 DEF r1, r2
  <1> HIDE DEF new
  <1> DEFINE next == IF new.stage = "done" /\ awaiting # q THEN None ELSE new
  <1>4. requests' = [requests EXCEPT ![q] = next] /\ next \in {new, None}
    BY <1>2 DEF Progress
  <1> HIDE DEF next
  <1>5. /\ requests'[q] \in {new, None}
        /\ \A k \in Slots \ {q} : requests'[k] = requests[k]
    BY <1>4 DEF IInv, TypeOK
  <1>6. requests'[q] # None => Follows(requests[q], requests'[q], Settled')
    BY <1>3, <1>5 DEF Follows
  <1> QED
    BY <1>5, <1>6, OneFollows

LEMMA FindPointOrder ==
  ASSUME IInv, IInv', OrderInv, NEW q \in Slots, FindPoint(q) PROVE OrderInv'
  <1>1. Still /\ UNCHANGED <<phase, batch>>
    BY DEF FindPoint, Still, serverVars, storeVars, syncVars, envVars
  <1>2. requests[q] # None /\ requests[q].kind = "gps" /\ requests[q].stage # "done"
    BY DEF FindPoint, Serving
  <1>3. CASE Keep(q)
    BY <1>1, <1>2, <1>3, KeepFollows, OrderStaysStill
  <1>4. CASE requests' = [requests EXCEPT ![q].stage = "insert"]
    <2> DEFINE new == [requests[q] EXCEPT !.stage = "insert"]
    <2>1. requests[q] \in PointsRequest
      BY <1>2, PointInHand DEF IInv
    <2>2. new \in PointsRequest /\ new.kind = "gps" /\ new.todo = requests[q].todo
      BY <2>1 DEF PointsRequest
    <2>3. requests' = [requests EXCEPT ![q] = new]
      BY <1>4
    <2> HIDE DEF new
    <2>4. RequestsFollow
      BY <1>2, <2>2, <2>3, SameFollows DEF Request
    <2> QED
      BY <1>1, <2>4, OrderStaysStill
  <1> QED
    BY <1>3, <1>4 DEF FindPoint

LEMMA InsertPointOrder ==
  ASSUME IInv, IInv', OrderInv, NEW q \in Slots, InsertPoint(q) PROVE OrderInv'
  <1>1. Still /\ UNCHANGED <<phase, batch>>
    BY DEF InsertPoint, Still, storeVars, syncVars, envVars
  <1>2. RequestsFollow
    BY KeepFollows DEF InsertPoint, Serving
  <1> QED
    BY <1>1, <1>2, OrderStaysStill

LEMMA ListActivitiesOrder ==
  ASSUME IInv, IInv', OrderInv, NEW q \in Slots, ListActivities(q) PROVE OrderInv'
  <1> DEFINE between == [requests[q] EXCEPT !.stage = "done"]
             new == [requests[q] EXCEPT !.stage = "done", !.activity = Remote]
  <1>1. Still /\ UNCHANGED <<phase, batch>>
    BY DEF ListActivities, Still, serverVars, storeVars, syncVars, envVars
  <1>2. requests[q] # None /\ requests[q] \in ListRequest
    BY KindOf DEF IInv, TypeOK, ListActivities, Serving
  <1>3. Progress(q, new) /\ new = [between EXCEPT !.activity = Remote]
    BY DEF ListActivities
  <1>4. between = [kind |-> "list", stage |-> "done", activity |-> requests[q].activity]
    BY <1>2 DEF ListRequest
  <1>5. Remote \in ActivityStatus
    BY DEF IInv, TypeOK, Remote, ActivityStatus
  <1> HIDE DEF between, new
  <1>6. new \in ListRequest /\ new.kind = requests[q].kind /\ new.kind = "list"
    BY <1>2, <1>3, <1>4, <1>5 DEF ListRequest
  <1>7. RequestsFollow
    BY <1>2, <1>3, <1>6, SameFollows DEF Request
  <1> QED
    BY <1>1, <1>7, OrderStaysStill

-----------------------------------------------------------------------------

LEMMA FailsPhase ==
  ASSUME RequestFails \/ Abandon
  PROVE  phase' \notin {"commands", "gps"} \/ UNCHANGED <<phase, batch>>
  BY DEF RequestFails, Abandon

LEMMA RequestDiesOrder ==
  ASSUME IInv, IInv', OrderInv, NEW q \in Slots, RequestDies(q), UNCHANGED <<setBack, rejected>>
  PROVE  OrderInv'
  <1>1. \A k \in Slots : requests'[k] \in {None, requests[k]}
    BY DEF IInv, TypeOK, RequestDies
  <1>2. Still
    BY DEF RequestDies, Still, serverVars, storeVars
  <1>3. phase' \notin {"commands", "gps"} \/ UNCHANGED <<phase, batch>>
    BY FailsPhase DEF RequestDies, syncVars
  <1> QED
    BY <1>1, <1>2, <1>3, EndingFollows, OrderStaysStill

LEMMA LoseConnectionOrder ==
  ASSUME IInv, IInv', OrderInv, LoseConnection PROVE OrderInv'
  <1>1. \A k \in Slots : requests'[k] \in {None, requests[k]}
    BY DEF IInv, TypeOK, LoseConnection
  <1>2. Still
    BY DEF LoseConnection, Still, serverVars, storeVars
  <1>3. phase' \notin {"commands", "gps"} \/ UNCHANGED <<phase, batch>>
    BY FailsPhase DEF LoseConnection
  <1> QED
    BY <1>1, <1>2, <1>3, EndingFollows, OrderStaysStill

LEMMA CrashOrder == ASSUME IInv, IInv', OrderInv, Crash PROVE OrderInv'
  <1>1. \A k \in Slots : requests'[k] \in {None, requests[k]}
    BY DEF Crash
  <1>2. Still
    BY DEF Crash, Still, serverVars, storeVars
  <1>3. phase' \notin {"commands", "gps"} \/ UNCHANGED <<phase, batch>>
    BY FailsPhase DEF Crash
  <1> QED
    BY <1>1, <1>2, <1>3, EndingFollows, OrderStaysStill

LEMMA InitOrder == ASSUME Init, IInv PROVE OrderInv
  <1>1. Known = {}
    BY DEF Init, NoResults, Known
  <1> QED
    BY <1>1 DEF Init, OrderInv, RequestsInOrder, BatchInOrder, KnownInOrder, Closed

LEMMA OrderNext == ASSUME IInv, IInv', OrderInv, [Next]_vars PROVE OrderInv'
  <1>1. CASE App
    BY <1>1, StartSyncOrder, SendOrder, ReceiveOrder, PhoneOrder, AcknowledgeCommandsOrder
       DEF App
  <1>2. CASE AdvanceEnqueue
    BY <1>2, EnqueueOrder DEF AdvanceEnqueue, serverVars, syncVars, envVars
  <1>3. CASE Driver \/ RecordPoint
    <2>1. CASE ToggleJourney
      BY <2>1, EnqueueOrder DEF ToggleJourney, serverVars, syncVars, envVars
    <2> QED
      BY <1>3, <2>1, AdvanceOrder, RecordPointOrder DEF Driver
  <1>4. CASE \E q \in Slots : Serve(q)
    <2> PICK q \in Slots : Serve(q)
      BY <1>4
    <2>1. CASE ReceiptClash(q)
      BY <2>1, RequestDiesOrder DEF ReceiptClash, envVars
    <2>2. CASE RefusePoints(q) \/ PointClash(q)
      BY <2>2, RequestDiesOrder DEF RefusePoints, PointClash, envVars
    <2> QED
      BY <2>1, <2>2, LookUpReceiptOrder, ReadRowsOrder, WriteRowsOrder, WriteReceiptOrder,
         ReadJourneyOrder, FindPointOrder, InsertPointOrder, ListActivitiesOrder DEF Serve
  <1>5. CASE DashboardStart \/ DashboardComplete
    BY <1>5, DashboardOrder
  <1>6. CASE Failure
    <2>1. CASE \E q \in Slots : ServerFails(q)
      BY <2>1, RequestDiesOrder DEF ServerFails
    <2> QED
      BY <1>6, <2>1, LoseConnectionOrder, CrashOrder, SetClockBackOrder, TransactionFailsOrder
         DEF Failure
  <1>7. CASE UNCHANGED vars
    <2>1. Still /\ RequestsFollow /\ UNCHANGED <<phase, batch>>
      BY <1>7 DEF vars, Still, RequestsFollow, serverVars, storeVars, syncVars, envVars
    <2> QED
      BY <2>1, OrderStaysStill
  <1> QED
    BY <1>1, <1>2, <1>3, <1>4, <1>5, <1>6, <1>7 DEF Next

\* The requests, the batch and the receipts keep the order of the outbox in
\* every reachable state.
THEOREM OrderInvariance == Spec => []OrderInv
  <1>1. Init /\ IInv => OrderInv
    BY InitOrder
  <1>2. IInv /\ IInv' /\ OrderInv /\ [Next]_vars => OrderInv'
    BY OrderNext
  <1> QED
    BY <1>1, <1>2, Invariance, PTL DEF Spec

\* No command is settled before an earlier one of the same clock that no
\* failed transaction gave up (coordinator.ts:31, mobile.service.ts:63).
THEOREM OrderHolds == Spec => []OrderKept
  <1>1. IInv /\ OrderInv => OrderKept
    <2> SUFFICES ASSUME IInv, OrderInv, NEW c \in DOMAIN issued, NEW k \in DOMAIN issued,
                        c < k, SameClock(c, k), receipts[k] # None
                 PROVE  receipts[c] # None \/ c \in rejected
      BY DEF OrderKept
    <2>1. k \in Known
      BY IssuedTyped DEF Known
    <2>2. c \in Known \/ c \in Settled
      BY <2>1 DEF OrderInv, KnownInOrder, Closed, SameClock
    <2> QED
      BY <2>2 DEF Known, Settled
  <1> QED
    BY <1>1, Invariance, OrderInvariance, PTL

-----------------------------------------------------------------------------
(* What the phone records is handed over: every step of DeviceSync makes, *)
(* settles or releases, or changes nothing of it. *)

CommandsStay == UNCHANGED <<issued, outbox, receipts>>

PointsStay == UNCHANGED <<recorded, buffer, stored>>

StoredAs(points) == [p \in Points |-> IF p \in points THEN "applied" ELSE None]

LEMMA CommandsStutter ==
  ASSUME CommandsStay PROVE UNCHANGED OfCommands!handoverVars
  BY DEF CommandsStay, OfCommands!handoverVars

LEMMA PointsStutter ==
  ASSUME PointsStay PROVE UNCHANGED OfPoints!handoverVars
  BY DEF PointsStay, OfPoints!handoverVars

\* A command enqueued is one made.
LEMMA EnqueueMakes ==
  ASSUME IInv, IInv', NEW op, Enqueue(op), UNCHANGED receipts PROVE OfCommands!Next
  <1> DEFINE i == Len(issued) + 1
  <1>1. /\ DOMAIN issued = 1..Len(issued) /\ DOMAIN issued' = 1..Len(issued')
        /\ Len(issued) \in Nat /\ Len(issued') = i
    <2>1. issued \in Seq(DeviceOps) /\ issued' \in Seq(DeviceOps)
      BY DEF IInv, TypeOK
    <2> QED
      BY <2>1 DEF Enqueue
  <1>2. i \in Commands
    <2>1. Len(issued') <= MaxCommands
      BY DEF IInv, RoomInv
    <2> QED
      BY <1>1, <2>1, Bounds DEF Commands
  <1>3. i \notin DOMAIN issued /\ DOMAIN issued' = DOMAIN issued \cup {i}
    BY <1>1
  <1>4. outbox' = outbox \cup {i}
    BY DEF Enqueue
  <1> HIDE DEF i
  <1>5. OfCommands!Make(i)
    BY <1>3, <1>4 DEF OfCommands!Make
  <1> QED
    BY <1>2, <1>5 DEF OfCommands!Next

\* A receipt settles its command, which the phone still has: without one it
\* has not left the outbox.
LEMMA WriteReceiptSettles ==
  ASSUME IInv, NEW q \in Slots, WriteReceipt(q) PROVE OfCommands!Next
  <1> DEFINE status == requests[q].answer
             result == [status |-> status,
                        journeyId |-> status = "applied" /\ issued[Command(q)] = "start_route"]
             c == Command(q)
  <1>1. /\ requests[q] # None /\ requests[q].kind = "commands" /\ requests[q].stage # "done"
        /\ requests[q].stage = "receipt"
    BY DEF WriteReceipt, Serving
  <1>2. c \in Commands /\ c \in DOMAIN issued
    BY <1>1, CommandInHand DEF IInv, SlotInv, Sound
  <1>3. result \in Result
    BY <1>1 DEF IInv, SlotInv, Sound, Result
  <1>4. /\ receipts[c] = None /\ receipts' = [receipts EXCEPT ![c] = result]
        /\ UNCHANGED <<issued, outbox>>
    BY DEF WriteReceipt, storeVars
  <1> HIDE DEF result, status, c
  <1>5. c \in outbox
    BY <1>2, <1>4 DEF IInv, DroppedHasReceipt
  <1>6. OfCommands!Settle(c, result)
    BY <1>4, <1>5 DEF OfCommands!Settle
  <1> QED
    BY <1>2, <1>3, <1>6 DEF OfCommands!Next

\* The commands acknowledged are released: they all have a receipt.
LEMMA AcknowledgeReleases == ASSUME IInv, AcknowledgeCommands PROVE OfCommands!Next
  <1> DEFINE items == {c \in batch : AcknowledgedIn(c)} \cap outbox
  <1>1. outbox' = outbox \ items /\ UNCHANGED <<issued, receipts>>
    BY DEF AcknowledgeCommands, serverVars
  <1>2. \A c \in items : receipts[c] # None
    <2> SUFFICES ASSUME NEW c \in outbox, AcknowledgedIn(c) PROVE receipts[c] # None
      OBVIOUS
    <2>1. c \in Commands
      BY IssuedTyped DEF IInv, TypeOK
    <2> QED
      BY <2>1 DEF IInv, ResultsInv, Backed, AcknowledgedIn, Known
  <1>3. items \in SUBSET outbox
    OBVIOUS
  <1> HIDE DEF items
  <1>4. OfCommands!Release(items)
    BY <1>1, <1>2 DEF OfCommands!Release
  <1> QED
    BY <1>3, <1>4 DEF OfCommands!Next

LEMMA RecordMakes == ASSUME IInv, RecordPoint PROVE OfPoints!Next
  <1> DEFINE i == recorded + 1
  <1>1. /\ recorded \in Nat /\ recorded < MaxPoints /\ recorded' = i
        /\ buffer' = buffer \cup {i} /\ stored' = stored
    BY DEF IInv, TypeOK, RecordPoint, serverVars
  <1>2. i \in Points /\ i \notin 1..recorded /\ 1..recorded' = 1..recorded \cup {i}
    BY <1>1, Bounds DEF Points
  <1> HIDE DEF i
  <1>3. OfPoints!Make(i)
    BY <1>1, <1>2 DEF OfPoints!Make
  <1> QED
    BY <1>2, <1>3 DEF OfPoints!Next

\* A point inserted is settled, and is still on the phone.
LEMMA InsertSettles ==
  ASSUME IInv, OrderInv, NEW q \in Slots, InsertPoint(q) PROVE OfPoints!Next
  <1> DEFINE p == Point(q)
  <1>1. /\ requests[q] # None /\ requests[q].kind = "gps" /\ requests[q].stage # "done"
        /\ stored' = stored \cup {p} /\ p \notin stored /\ UNCHANGED <<recorded, buffer>>
    BY DEF InsertPoint, Serving, storeVars
  <1>2. p \in requests[q].todo /\ p \in Points
    BY <1>1, PointInHand DEF IInv
  <1>3. p \in 1..recorded
    BY <1>1, <1>2 DEF OrderInv, RequestsInOrder, InOrder
  <1> HIDE DEF p
  <1>4. p \in buffer
    BY <1>1, <1>3 DEF IInv, PointsKept
  <1>5. StoredAs(stored') = [StoredAs(stored) EXCEPT ![p] = "applied"]
    BY <1>1, <1>2 DEF StoredAs
  <1>6. StoredAs(stored)[p] = None
    BY <1>1, <1>2 DEF StoredAs
  <1>7. OfPoints!Settle(p, "applied")
    BY <1>1, <1>4, <1>5, <1>6 DEF OfPoints!Settle, StoredAs
  <1> QED
    BY <1>2, <1>7 DEF OfPoints!Next, ResultStatus

LEMMA ReceiveReleases == ASSUME IInv, ReceiveGps PROVE OfPoints!Next
  <1> DEFINE items == KeptBy(requests[awaiting]) \cap buffer
  <1>1. buffer' = buffer \ items /\ UNCHANGED <<recorded, stored>>
    BY DEF ReceiveGps, serverVars
  <1>2. items \subseteq stored
    <2>1. Sound(requests[awaiting], DOMAIN issued, Known, stored)
          /\ requests[awaiting].kind = "gps"
      BY Received DEF ReceiveGps, serverVars
    <2> QED
      BY <2>1 DEF KeptBy, Sound
  <1>3. \A p \in items : StoredAs(stored)[p] # None
    <2>1. stored \subseteq Points /\ None # "applied"
      BY DeviceSyncAssumption DEF IInv, TypeOK, ResultStatus
    <2> HIDE DEF items
    <2> QED
      BY <1>2, <2>1 DEF StoredAs
  <1>4. items \in SUBSET buffer
    OBVIOUS
  <1> HIDE DEF items
  <1>5. OfPoints!Release(items)
    BY <1>1, <1>3 DEF OfPoints!Release, StoredAs
  <1> QED
    BY <1>4, <1>5 DEF OfPoints!Next

LEMMA CommandsHandedOver ==
  ASSUME IInv, IInv', [Next]_vars
  PROVE  [OfCommands!Next]_(OfCommands!handoverVars)
  <1>1. CASE App
    <2>1. CASE AcknowledgeCommands
      BY <2>1, AcknowledgeReleases
    <2>2. CASE \/ StartSync \/ Send \/ ReceiveResults \/ RecordResults \/ ReceiveGps
               \/ FinishJourney \/ ReceiveList \/ FollowJourney
      <3>1. CommandsStay
        BY <2>2 DEF CommandsStay, StartSync, Send, ReceiveResults, RecordResults, ReceiveGps,
                    FinishJourney, ReceiveList, FollowJourney, serverVars, storeVars
      <3> QED
        BY <3>1, CommandsStutter
    <2> QED
      BY <1>1, <2>1, <2>2 DEF App
  <1>2. CASE AdvanceEnqueue \/ ToggleJourney
    BY <1>2, EnqueueMakes DEF AdvanceEnqueue, ToggleJourney, serverVars
  <1>3. CASE RecordPoint \/ \E op \in Operations \ JourneyOps : Advance(op)
    <2>1. CommandsStay
      BY <1>3 DEF CommandsStay, RecordPoint, Advance, serverVars
    <2> QED
      BY <2>1, CommandsStutter
  <1>4. CASE \E q \in Slots : Serve(q)
    <2> PICK q \in Slots : Serve(q)
      BY <1>4
    <2>1. CASE WriteReceipt(q)
      BY <2>1, WriteReceiptSettles
    <2>2. CASE \/ LookUpReceipt(q) \/ ReadRows(q) \/ WriteRows(q) \/ ReceiptClash(q)
               \/ ReadJourney(q) \/ RefusePoints(q) \/ FindPoint(q) \/ InsertPoint(q)
               \/ PointClash(q) \/ ListActivities(q)
      <3>1. CommandsStay
        BY <2>2 DEF CommandsStay, LookUpReceipt, ReadRows, WriteRows, ReceiptClash, RequestDies,
                    ReadJourney, RefusePoints, FindPoint, InsertPoint, PointClash, ListActivities,
                    serverVars, storeVars
      <3> QED
        BY <3>1, CommandsStutter
    <2> QED
      BY <2>1, <2>2 DEF Serve
  <1>5. CASE DashboardStart \/ DashboardComplete \/ Failure \/ UNCHANGED vars
    <2>1. CommandsStay
      BY <1>5 DEF CommandsStay, DashboardStart, DashboardComplete, Failure, LoseConnection, Crash,
                  SetClockBack, TransactionFails, ServerFails, RequestDies, vars, serverVars,
                  storeVars
    <2> QED
      BY <2>1, CommandsStutter
  <1> QED
    BY <1>1, <1>2, <1>3, <1>4, <1>5 DEF Next, Driver

LEMMA PointsHandedOver ==
  ASSUME IInv, OrderInv, [Next]_vars
  PROVE  [OfPoints!Next]_(OfPoints!handoverVars)
  <1>1. CASE App
    <2>1. CASE ReceiveGps
      BY <2>1, ReceiveReleases
    <2>2. CASE \/ StartSync \/ Send \/ ReceiveResults \/ RecordResults \/ AcknowledgeCommands
               \/ FinishJourney \/ ReceiveList \/ FollowJourney
      <3>1. PointsStay
        BY <2>2 DEF PointsStay, StartSync, Send, ReceiveResults, RecordResults,
                    AcknowledgeCommands, FinishJourney, ReceiveList, FollowJourney, serverVars,
                    storeVars
      <3> QED
        BY <3>1, PointsStutter
    <2> QED
      BY <1>1, <2>1, <2>2 DEF App
  <1>2. CASE AdvanceEnqueue \/ Driver
    <2>1. PointsStay
      BY <1>2 DEF PointsStay, AdvanceEnqueue, Driver, ToggleJourney, Advance, serverVars
    <2> QED
      BY <2>1, PointsStutter
  <1>3. CASE RecordPoint
    BY <1>3, RecordMakes
  <1>4. CASE \E q \in Slots : Serve(q)
    <2> PICK q \in Slots : Serve(q)
      BY <1>4
    <2>1. CASE InsertPoint(q)
      BY <2>1, InsertSettles
    <2>2. CASE \/ LookUpReceipt(q) \/ ReadRows(q) \/ WriteRows(q) \/ WriteReceipt(q)
               \/ ReceiptClash(q) \/ ReadJourney(q) \/ RefusePoints(q) \/ FindPoint(q)
               \/ PointClash(q) \/ ListActivities(q)
      <3>1. PointsStay
        BY <2>2 DEF PointsStay, LookUpReceipt, ReadRows, WriteRows, WriteReceipt, ReceiptClash,
                    RequestDies, ReadJourney, RefusePoints, FindPoint, PointClash, ListActivities,
                    serverVars, storeVars
      <3> QED
        BY <3>1, PointsStutter
    <2> QED
      BY <2>1, <2>2 DEF Serve
  <1>5. CASE DashboardStart \/ DashboardComplete \/ Failure \/ UNCHANGED vars
    <2>1. PointsStay
      BY <1>5 DEF PointsStay, DashboardStart, DashboardComplete, Failure, LoseConnection, Crash,
                  SetClockBack, TransactionFails, ServerFails, RequestDies, vars, serverVars,
                  storeVars
    <2> QED
      BY <2>1, PointsStutter
  <1> QED
    BY <1>1, <1>2, <1>3, <1>4, <1>5 DEF Next

\* Commands and points are handed over to the API: settled once, and let go of
\* only then (coordinator.ts:50 and :112, mobile.service.ts:335 and :366).
THEOREM Refinement == Spec => ImplementsHandover
  <1>1. Init => OfCommands!Init /\ OfPoints!Init
    <2> SUFFICES ASSUME Init PROVE OfCommands!Init /\ OfPoints!Init
      OBVIOUS
    <2>1. DOMAIN issued = {} /\ 1..recorded = {}
      BY DEF Init
    <2> QED
      BY <2>1 DEF Init, NoResults, OfCommands!Init, OfPoints!Init
  <1>2. IInv /\ IInv' /\ [Next]_vars => [OfCommands!Next]_(OfCommands!handoverVars)
    BY CommandsHandedOver
  <1>3. IInv /\ OrderInv /\ [Next]_vars => [OfPoints!Next]_(OfPoints!handoverVars)
    BY PointsHandedOver
  <1> QED
    BY <1>1, <1>2, <1>3, Invariance, OrderInvariance, PTL
       DEF Spec, ImplementsHandover, OfCommands!Safe, OfPoints!Safe
=============================================================================
