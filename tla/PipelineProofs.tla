--------------------------- MODULE PipelineProofs ---------------------------
(***************************************************************************)
(* Proofs about ProofPipeline, for any number of dispatchers, proofs,      *)
(* attempts and faults.  NothingForgotten is not inductive: it needs to    *)
(* know that an event a dispatcher has marked, but not yet committed, is   *)
(* seen to already.  PublishedOnce needs that what is in the queue is      *)
(* marked in one open transaction or published, and what a transaction     *)
(* holds is pending and nobody else's.  The refinement needs that a proof  *)
(* announced as ready has its object, and so how far the job of a callback *)
(* has got.                                                                *)
(***************************************************************************)
EXTENDS ProofPipeline, WellFoundedInduction, TLAPS

\* Someone sees to the proof without its event, or it needs nobody any more.
Covered(p) ==
  \/ proof[p] # "pending"
  \/ job[p] \in Live
  \/ p \in callbacks
  \/ p \in exhausted

\* An event that is published, or about to be, is not needed any more.
PublishedCovered ==
  /\ \A p \in Proofs : event[p] = "published" => Covered(p)
  /\ \A w \in Dispatchers : batch[w] # None => \A p \in batch[w].marked : Covered(p)

\* What the place of a job says of its proof.
JobStage ==
  \A p \in Proofs :
    /\ job[p] \in Live => tries[p] < Attempts
    /\ job[p] \in {"uploaded", "called", "answered"} => p \in object
    /\ job[p] \in {"answered", "completed"} => proof[p] = "ready"
    /\ job[p] = "failed" => p \in exhausted

\* Nothing exists of a proof before its completion has been committed.
NothingEarly ==
  \A p \in Proofs :
    /\ event[p] = "none" <=> proof[p] = "none"
    /\ proof[p] = "none" => /\ job[p] = "none" /\ p \notin object /\ p \notin callbacks
                            /\ \A w \in Dispatchers : p \notin Rows(w)

\* A proof is announced only when its PDF can be downloaded, also by the
\* callback of an attempt the worker has already given up.
ReadyHasObject ==
  \A p \in Proofs : proof[p] = "ready" \/ p \in callbacks => p \in object

\* What a transaction holds is pending, and in no other transaction; what is in
\* the queue is marked in one that is open, or published.
HandedInv ==
  /\ \A v, w \in Dispatchers : v # w => Rows(v) \cap Rows(w) = {}
  /\ \A w \in Dispatchers : \A p \in Rows(w) : event[p] = "pending"
  /\ \A w \in Dispatchers : batch[w] # None => batch[w].todo \cap batch[w].marked = {}
  /\ \A p \in handed :
       \/ event[p] = "published"
       \/ \E w \in Dispatchers : batch[w] # None /\ p \in batch[w].marked

IInv ==
  /\ TypeOK /\ PublishedCovered /\ JobStage /\ NothingEarly
  /\ ReadyHasObject /\ HandedInv

USE DEF Batch

JobStates == Live \cup {"none", "completed", "failed"}

-----------------------------------------------------------------------------
(* Helpers *)

LEMMA BoundsType ==
  /\ Attempts \in Nat /\ Attempts >= 2
  /\ MaxStalled \in Nat /\ MaxStalled >= 1 /\ MaxFaults \in Nat
  /\ Proofs \subseteq Nat
BY PipelineAssumption DEF Proofs

\* The batch of a dispatcher holds proofs, and its current event is one of them.
LEMMA BatchType ==
  ASSUME TypeOK, NEW w \in Dispatchers, batch[w] # None
  PROVE  /\ batch[w].todo \subseteq Proofs /\ batch[w].marked \subseteq Proofs
         /\ batch[w].deferred \subseteq Proofs
         /\ batch[w] = [todo |-> batch[w].todo, marked |-> batch[w].marked,
                        deferred |-> batch[w].deferred]
BY DEF TypeOK

Less == {ss \in Nat \X Nat : ss[1] < ss[2]}

LEMMA CurrentInBatch ==
  ASSUME TypeOK, NEW w \in Dispatchers, batch[w] # None, batch[w].todo # {}
  PROVE  Current(w) \in batch[w].todo /\ Current(w) \in Proofs
<1> DEFINE T == batch[w].todo
<1>1. T \subseteq Proofs /\ T \subseteq Nat /\ T # {}
  BY BatchType, BoundsType
<1>2. IsWellFoundedOn(Less, Nat)
  BY NatLessThanWellFounded DEF OpToRel, Less
<1>3. \E p \in T : \A q \in T : ~(<<q, p>> \in Less)
  <2> HIDE DEF T
  <2> QED
    BY <1>1, <1>2, WFMin
<1>4. \E p \in T : \A q \in T : p <= q
  <2> PICK p \in T : \A q \in T : ~(<<q, p>> \in Less)
    BY <1>3
  <2> HIDE DEF T
  <2> SUFFICES ASSUME NEW q \in T
               PROVE  p <= q
    OBVIOUS
  <2>1. p \in Nat /\ q \in Nat /\ <<q, p>> \notin Less
    BY <1>1
  <2> QED
    BY <2>1 DEF Less
<1> QED
  BY <1>1, <1>4 DEF Current

-----------------------------------------------------------------------------
(* The API and the passing of time *)

LEMMA InitIInv == Init => IInv
<1> SUFFICES ASSUME Init
             PROVE  IInv
  OBVIOUS
<1>1. TypeOK
  BY BoundsType DEF Init, TypeOK
<1>2. PublishedCovered /\ JobStage /\ ReadyHasObject
  BY DEF Init, PublishedCovered, JobStage, ReadyHasObject, Live, Running
<1>3. NothingEarly /\ HandedInv
  BY DEF Init, NothingEarly, HandedInv, Rows
<1> QED
  BY <1>1, <1>2, <1>3 DEF IInv

LEMMA RequestKeeps ==
  ASSUME IInv, NEW p \in Proofs, Request(p)
  PROVE  IInv'
<1> USE DEF IInv, Request, apiVars, dispatchVars, jobVars
<1>1. TypeOK'
  BY DEF TypeOK
<1>2. PublishedCovered'
  <2>1. /\ proof[p] = "none" /\ proof'[p] = "pending" /\ event'[p] = "pending"
        /\ \A q \in Proofs \ {p} : proof'[q] = proof[q] /\ event'[q] = event[q]
    BY DEF TypeOK
  <2>2. \A w \in Dispatchers : batch[w] # None => p \notin batch[w].marked
    BY <2>1 DEF NothingEarly, Rows
  <2>3. \A q \in Proofs \ {p} : Covered(q) => Covered(q)'
    BY <2>1 DEF Covered
  <2> QED
    BY <2>1, <2>2, <2>3, BatchType DEF PublishedCovered
<1>3. JobStage'
  BY DEF TypeOK, JobStage, NothingEarly, Live, Running
<1>4. NothingEarly'
  BY DEF TypeOK, NothingEarly, Rows
<1>5. ReadyHasObject'
  BY DEF TypeOK, ReadyHasObject
<1>6. HandedInv'
  <2>1. \A q \in Proofs : event[q] # "none" => event'[q] = event[q]
    BY DEF TypeOK, NothingEarly
  <2>2. \A w \in Dispatchers : Rows(w)' = Rows(w) /\ Rows(w) \subseteq Proofs
    BY BatchType DEF Rows
  <2> QED
    BY <2>1, <2>2 DEF TypeOK, HandedInv
<1> QED
  BY <1>1, <1>2, <1>3, <1>4, <1>5, <1>6

\* Steps that change nothing the invariant speaks of but types.
LEMMA Unmoved ==
  ASSUME IInv, TypeOK',
         UNCHANGED <<proof, event, dispatchVars, job, tries, exhausted, object, callbacks>>
  PROVE  IInv'
BY DEF IInv, PublishedCovered, Covered, JobStage, NothingEarly, ReadyHasObject,
       dispatchVars, HandedInv, Rows

LEMMA BecomeDueKeeps ==
  ASSUME IInv, NEW p \in Proofs, BecomeDue(p)
  PROVE  IInv'
<1>1. TypeOK'
  BY DEF IInv, TypeOK, BecomeDue, dispatchVars, jobVars
<1> QED
  BY <1>1, Unmoved DEF BecomeDue, jobVars

-----------------------------------------------------------------------------
(* The job: its steps touch neither events nor transactions. *)

LEMMA JobFrame ==
  ASSUME IInv, TypeOK', UNCHANGED <<event, dispatchVars>>,
         \A q \in Proofs : Covered(q) => Covered(q)',
         JobStage', ReadyHasObject',
         \A q \in Proofs : proof'[q] = "none" <=> proof[q] = "none",
         \A q \in Proofs : proof[q] = "none" =>
           job'[q] = "none" /\ q \notin object' /\ q \notin callbacks'
  PROVE  IInv'
<1>1. PublishedCovered'
  BY BatchType DEF IInv, PublishedCovered, dispatchVars
<1>2. NothingEarly' /\ HandedInv'
  BY DEF IInv, NothingEarly, HandedInv, Rows, dispatchVars
<1> QED
  BY <1>1, <1>2 DEF IInv

LEMMA WorkKeeps ==
  ASSUME IInv, NEW p \in Proofs, Work(p)
  PROVE  IInv'
<1> USE DEF IInv, Move, apiVars, dispatchVars
<1>1. CASE Take(p)
  <2>1. TypeOK'
    BY <1>1 DEF Take, TypeOK, Live, Running
  <2>2. JobStage' /\ ReadyHasObject'
    BY <1>1 DEF Take, TypeOK, JobStage, ReadyHasObject, Live, Running
  <2>3. \A q \in Proofs : Covered(q) => Covered(q)'
    BY <1>1 DEF Take, TypeOK, Covered, Live, Running
  <2> QED
    BY <1>1, <2>1, <2>2, <2>3, JobFrame DEF Take, TypeOK, NothingEarly
<1>2. CASE Upload(p)
  <2>1. TypeOK'
    BY <1>2 DEF Upload, TypeOK, Live, Running
  <2>2. JobStage' /\ ReadyHasObject'
    BY <1>2 DEF Upload, TypeOK, JobStage, ReadyHasObject, Live, Running
  <2>3. \A q \in Proofs : Covered(q) => Covered(q)'
    BY <1>2 DEF Upload, TypeOK, Covered, Live, Running
  <2> QED
    BY <1>2, <2>1, <2>2, <2>3, JobFrame DEF Upload, TypeOK, NothingEarly
<1>3. CASE CallBack(p)
  <2>1. TypeOK'
    BY <1>3 DEF CallBack, TypeOK, Live, Running
  <2>2. JobStage' /\ ReadyHasObject'
    BY <1>3 DEF CallBack, TypeOK, JobStage, ReadyHasObject, Live, Running
  <2>3. \A q \in Proofs : Covered(q) => Covered(q)'
    BY <1>3 DEF CallBack, TypeOK, Covered, Live, Running
  <2> QED
    BY <1>3, <2>1, <2>2, <2>3, JobFrame DEF CallBack, TypeOK, NothingEarly
<1>4. CASE MarkReady(p)
  <2>0. /\ proof' = [proof EXCEPT ![p] = "ready"]
        /\ callbacks' = callbacks \ {p}
        /\ \/ job[p] = "called" /\ job' = [job EXCEPT ![p] = "answered"]
           \/ job[p] # "called" /\ job' = job
    BY <1>4 DEF MarkReady
  <2>1. TypeOK'
    BY <1>4, <2>0 DEF MarkReady, TypeOK, Live, Running
  <2>2. JobStage' /\ ReadyHasObject'
    BY <1>4, <2>0 DEF MarkReady, TypeOK, JobStage, ReadyHasObject, Live, Running
  <2>3. \A q \in Proofs : Covered(q) => Covered(q)'
    BY <1>4, <2>0 DEF MarkReady, TypeOK, Covered, Live, Running
  <2>4. proof[p] # "none"
    BY <1>4 DEF MarkReady, NothingEarly
  <2> QED
    BY <1>4, <2>0, <2>1, <2>2, <2>3, <2>4, JobFrame DEF MarkReady, TypeOK, NothingEarly
<1>5. CASE Complete(p)
  <2>1. TypeOK'
    BY <1>5 DEF Complete, TypeOK, Live, Running
  <2>2. JobStage' /\ ReadyHasObject'
    BY <1>5 DEF Complete, TypeOK, JobStage, ReadyHasObject, Live, Running
  <2>3. \A q \in Proofs : Covered(q) => Covered(q)'
    BY <1>5 DEF Complete, TypeOK, JobStage, Covered, Live, Running
  <2> QED
    BY <1>5, <2>1, <2>2, <2>3, JobFrame DEF Complete, TypeOK, NothingEarly
<1>6. CASE Retry(p)
  <2>1. TypeOK'
    BY <1>6 DEF Retry, TypeOK, Live, Running
  <2>2. JobStage' /\ ReadyHasObject'
    BY <1>6 DEF Retry, TypeOK, JobStage, ReadyHasObject, Live, Running
  <2>3. \A q \in Proofs : Covered(q) => Covered(q)'
    BY <1>6 DEF Retry, TypeOK, Covered, Live, Running
  <2> QED
    BY <1>6, <2>1, <2>2, <2>3, JobFrame DEF Retry, TypeOK, NothingEarly
<1> QED
  BY <1>1, <1>2, <1>3, <1>4, <1>5, <1>6 DEF Work

LEMMA EndKeeps ==
  ASSUME IInv, NEW p \in Proofs, Forget(p) \/ AttemptFails(p) \/ WorkerDies(p)
  PROVE  IInv'
<1> USE DEF IInv, apiVars, dispatchVars
<1>1. CASE Forget(p)
  <2>1. TypeOK'
    BY <1>1 DEF Forget, TypeOK
  <2>2. JobStage' /\ ReadyHasObject'
    BY <1>1 DEF Forget, TypeOK, JobStage, ReadyHasObject, Live, Running
  <2>3. \A q \in Proofs : Covered(q) => Covered(q)'
    BY <1>1 DEF Forget, TypeOK, JobStage, Covered, Live, Running
  <2> QED
    BY <1>1, <2>1, <2>2, <2>3, JobFrame DEF Forget, TypeOK, NothingEarly
<1>2. CASE AttemptFails(p)
  <2>0. /\ tries' = [tries EXCEPT ![p] = tries[p] + 1]
        /\ tries[p] \in Nat /\ tries[p] < Attempts
        /\ \/ /\ job' = [job EXCEPT ![p] = "failed"]
              /\ exhausted' = exhausted \cup {p}
           \/ /\ job' = [job EXCEPT ![p] = "delayed"]
              /\ exhausted' = exhausted
              /\ tries[p] + 1 < Attempts
    <3>1. tries[p] \in 0..Attempts /\ tries[p] < Attempts
      BY <1>2 DEF AttemptFails, TypeOK, JobStage, Live
    <3>2. Exhausts(p) \/ tries[p] + 1 < Attempts
      BY <3>1, BoundsType DEF Exhausts
    <3>3. tries[p] \in Nat
      BY <3>1, BoundsType
    <3>4. CASE Exhausts(p)
      BY <1>2, <3>1, <3>3, <3>4 DEF AttemptFails
    <3>5. CASE ~Exhausts(p)
      BY <1>2, <3>1, <3>2, <3>3, <3>5 DEF AttemptFails
    <3> QED
      BY <3>4, <3>5
  <2>1. TypeOK'
    BY <1>2, <2>0, BoundsType DEF AttemptFails, Fault, TypeOK, Live
  <2>2. JobStage' /\ ReadyHasObject'
    BY <1>2, <2>0, BoundsType DEF AttemptFails, TypeOK, JobStage, ReadyHasObject, Live, Running
  <2>3. \A q \in Proofs : Covered(q) => Covered(q)'
    BY <1>2, <2>0 DEF AttemptFails, TypeOK, Covered, Live
  <2> QED
    BY <1>2, <2>0, <2>1, <2>2, <2>3, JobFrame DEF AttemptFails, TypeOK, NothingEarly, Running
<1>3. CASE WorkerDies(p)
  <2>0. \/ /\ job' = [job EXCEPT ![p] = "waiting"]
           /\ stalled' = [stalled EXCEPT ![p] = @ + 1] /\ stalled[p] < MaxStalled
           /\ exhausted' = exhausted
        \/ /\ job' = [job EXCEPT ![p] = "failed"]
           /\ exhausted' = exhausted \cup {p} /\ stalled' = stalled
    BY <1>3 DEF WorkerDies
  <2>1. TypeOK'
    BY <1>3, <2>0, BoundsType DEF WorkerDies, Fault, TypeOK, Live
  <2>2. JobStage' /\ ReadyHasObject'
    BY <1>3, <2>0 DEF WorkerDies, TypeOK, JobStage, ReadyHasObject, Live, Running
  <2>3. \A q \in Proofs : Covered(q) => Covered(q)'
    BY <1>3, <2>0 DEF WorkerDies, TypeOK, Covered, Live
  <2> QED
    BY <1>3, <2>0, <2>1, <2>2, <2>3, JobFrame DEF WorkerDies, TypeOK, NothingEarly, Running
<1> QED
  BY <1>1, <1>2, <1>3

-----------------------------------------------------------------------------
(* The dispatchers *)

\* A step of dispatcher w that leaves proofs and callbacks alone and marks only
\* what is covered.
LEMMA BatchFrame ==
  ASSUME IInv, TypeOK', NEW w \in Dispatchers,
         UNCHANGED <<proof, object, callbacks, exhausted>>,
         \A v \in Dispatchers \ {w} : batch'[v] = batch[v],
         \A p \in Rows(w)' : p \in Proofs /\ proof[p] # "none",
         \A p \in Proofs : Covered(p) => Covered(p)',
         batch'[w] # None => \A p \in batch'[w].marked : Covered(p)',
         \A p \in Proofs : event'[p] = "none" <=> event[p] = "none",
         \A p \in Proofs :
           event'[p] = "published" => event[p] = "published" \/ Covered(p),
         \A p \in Proofs : proof[p] = "none" => job'[p] = "none",
         JobStage', HandedInv'
  PROVE  IInv'
<1>1. PublishedCovered'
  <2>1. \A p \in Proofs : event'[p] = "published" => Covered(p)'
    BY DEF IInv, PublishedCovered
  <2>2. ASSUME NEW v \in Dispatchers, batch'[v] # None, NEW p \in batch'[v].marked
        PROVE  Covered(p)'
    <3>1. CASE v = w
      BY <2>2, <3>1
    <3>2. CASE v # w
      BY <2>2, <3>2, BatchType DEF IInv, PublishedCovered
    <3> QED
      BY <3>1, <3>2
  <2> QED
    BY <2>1, <2>2 DEF PublishedCovered
<1>2. \A v \in Dispatchers \ {w} : Rows(v)' = Rows(v)
  BY DEF Rows
<1>3. NothingEarly'
  BY <1>2 DEF IInv, NothingEarly
<1>5. ReadyHasObject'
  BY DEF IInv, ReadyHasObject
<1> QED
  BY <1>1, <1>3, <1>5 DEF IInv

\* What the transaction of w may become without breaking HandedInv.
LEMMA HandedFrame ==
  ASSUME HandedInv, NEW w \in Dispatchers,
         \A v \in Dispatchers \ {w} : batch'[v] = batch[v],
         \A v \in Dispatchers \ {w} : Rows(v) \cap Rows(w)' = {},
         \A v \in Dispatchers : \A p \in Rows(v)' : event'[p] = "pending",
         batch'[w] # None => batch'[w].todo \cap batch'[w].marked = {},
         \A p \in handed' :
           \/ event'[p] = "published"
           \/ batch'[w] # None /\ p \in batch'[w].marked
           \/ \E v \in Dispatchers \ {w} : batch[v] # None /\ p \in batch[v].marked
  PROVE  HandedInv'
<1>1. \A v \in Dispatchers \ {w} : Rows(v)' = Rows(v)
  BY DEF Rows
<1>2. \A u, v \in Dispatchers : u # v => Rows(u)' \cap Rows(v)' = {}
  <2> SUFFICES ASSUME NEW u \in Dispatchers, NEW v \in Dispatchers, u # v
               PROVE  Rows(u)' \cap Rows(v)' = {}
    OBVIOUS
  <2>1. CASE u # w /\ v # w
    BY <1>1, <2>1 DEF HandedInv
  <2>2. CASE u = w \/ v = w
    BY <1>1, <2>2
  <2> QED
    BY <2>1, <2>2
<1>3. \A p \in handed' :
        \/ event'[p] = "published"
        \/ \E v \in Dispatchers : batch'[v] # None /\ p \in batch'[v].marked
  OBVIOUS
<1>4. \A v \in Dispatchers : batch'[v] # None => batch'[v].todo \cap batch'[v].marked = {}
  BY DEF HandedInv
<1> QED
  BY <1>2, <1>3, <1>4 DEF HandedInv

LEMMA SelectKeeps ==
  ASSUME IInv, NEW w \in Dispatchers, Select(w)
  PROVE  IInv'
<1> DEFINE O == Oldest(Selectable)
<1>1. O \subseteq Selectable /\ Selectable \subseteq Proofs
  BY DEF Oldest, Selectable
<1> HIDE DEF O
<1>2. batch' = [batch EXCEPT ![w] = [todo |-> O, marked |-> {}, deferred |-> {}]]
  BY DEF Select, O
<1>3. TypeOK'
  BY <1>1, <1>2 DEF IInv, TypeOK, Select, apiVars, jobVars
<1>4. batch'[w] = [todo |-> O, marked |-> {}, deferred |-> {}]
  BY <1>2 DEF IInv, TypeOK
<1>5. Rows(w)' \subseteq O
  BY <1>4 DEF Rows
<1>6. \A p \in O : event[p] = "pending" /\ \A v \in Dispatchers : p \notin Rows(v)
  BY <1>1 DEF Selectable, Unlocked
<1>7. \A p \in Rows(w)' : p \in Proofs /\ proof[p] # "none"
  BY <1>1, <1>5, <1>6 DEF IInv, NothingEarly
<1>8. \A v \in Dispatchers \ {w} : batch'[v] = batch[v] /\ Rows(v) \cap Rows(w)' = {}
  BY <1>2, <1>5, <1>6 DEF IInv, TypeOK
<1>9. \A p \in Proofs : Covered(p) => Covered(p)'
  BY DEF Select, Covered, apiVars, jobVars
<1>10. JobStage'
  BY DEF IInv, JobStage, Select, apiVars, jobVars
<1>11. HandedInv'
  <2>1. batch[w] = None /\ UNCHANGED <<event, handed>>
    BY DEF Select, apiVars
  <2>2. \A v \in Dispatchers : \A p \in Rows(v)' : event'[p] = "pending"
    <3>1. \A v \in Dispatchers \ {w} : Rows(v)' = Rows(v)
      BY <1>8 DEF Rows
    <3> QED
      BY <1>5, <1>6, <2>1, <3>1 DEF IInv, HandedInv
  <2>3. \A p \in handed' :
          \/ event'[p] = "published"
          \/ \E v \in Dispatchers \ {w} : batch[v] # None /\ p \in batch[v].marked
    BY <2>1 DEF IInv, HandedInv
  <2> QED
    BY <1>4, <1>8, <2>2, <2>3, HandedFrame DEF IInv
<1> QED
  BY <1>3, <1>4, <1>7, <1>8, <1>9, <1>10, <1>11, BatchFrame
     DEF Select, apiVars, jobVars, IInv, NothingEarly

\* Whatever queue.add finds, the event is seen to afterwards.
LEMMA AddJobCovers ==
  ASSUME IInv, NEW p \in Proofs, proof[p] # "none", AddJob(p),
         UNCHANGED <<proof, exhausted, object, callbacks>>
  PROVE  /\ job' \in [Proofs -> JobStates] /\ tries' \in [Proofs -> 0..Attempts]
         /\ stalled' \in [Proofs -> 0..MaxStalled]
         /\ Covered(p)'
         /\ \A q \in Proofs : Covered(q) => Covered(q)'
         /\ \A q \in Proofs : proof[q] = "none" => job'[q] = "none"
         /\ JobStage'
<1>1. CASE job[p] = "none"
  <2>1. /\ job' = [job EXCEPT ![p] = "waiting"] /\ tries' = [tries EXCEPT ![p] = 0]
        /\ stalled' = [stalled EXCEPT ![p] = 0]
    BY <1>1 DEF AddJob
  <2>2. /\ job' \in [Proofs -> JobStates] /\ tries' \in [Proofs -> 0..Attempts]
        /\ stalled' \in [Proofs -> 0..MaxStalled]
    BY <2>1, BoundsType DEF IInv, TypeOK, JobStates, Live
  <2>3. Covered(p)' /\ \A q \in Proofs : Covered(q) => Covered(q)'
    BY <2>1 DEF IInv, TypeOK, Covered, Live
  <2>4. JobStage'
    BY <2>1, BoundsType DEF IInv, TypeOK, JobStage, Live
  <2> QED
    BY <2>1, <2>2, <2>3, <2>4 DEF IInv, TypeOK, NothingEarly
<1>2. CASE job[p] # "none"
  <2>1. UNCHANGED <<job, tries, stalled>>
    BY <1>2 DEF AddJob
  <2>2. Covered(p)
    BY <1>2 DEF IInv, TypeOK, JobStage, Covered
  <2>3. \A q \in Proofs : Covered(q)' <=> Covered(q)
    BY <2>1 DEF Covered
  <2>4. JobStage'
    BY <2>1 DEF IInv, JobStage
  <2> QED
    BY <2>1, <2>2, <2>3, <2>4 DEF IInv, TypeOK, NothingEarly, JobStates
<1> QED
  BY <1>1, <1>2

LEMMA PublishKeeps ==
  ASSUME IInv, NEW w \in Dispatchers, Publish(w) \/ PublishFails(w)
  PROVE  IInv'
<1>1. /\ batch[w] # None /\ batch[w].todo # {}
      /\ UNCHANGED <<proof, event, due, exhausted, object, callbacks>>
  BY DEF Publish, PublishFails, apiVars
<1>2. PICK p \in Proofs : p = Current(w) /\ p \in batch[w].todo
  BY <1>1, CurrentInBatch DEF IInv
<1>3. p \in Rows(w) /\ proof[p] # "none"
  BY <1>1, <1>2 DEF Rows, IInv, NothingEarly
<1>4. \A q \in Proofs : Covered(q) => Covered(q)'
  BY <1>1, <1>2, <1>3, AddJobCovers DEF Publish, PublishFails, Covered
<1>5. \A q \in Proofs : proof[q] = "none" => job'[q] = "none"
  BY <1>1, <1>2, <1>3, AddJobCovers DEF Publish, PublishFails, IInv, NothingEarly
<1>6. /\ JobStage'
      /\ job' \in [Proofs -> JobStates] /\ tries' \in [Proofs -> 0..Attempts]
      /\ stalled' \in [Proofs -> 0..MaxStalled]
  BY <1>1, <1>2, <1>3, AddJobCovers
     DEF Publish, PublishFails, IInv, TypeOK, JobStage, JobStates
<1>7. \/ /\ batch' = [batch EXCEPT ![w].todo = @ \ {p}, ![w].marked = @ \cup {p}]
         /\ Covered(p)' /\ handed' = handed \cup {p}
      \/ /\ batch' = [batch EXCEPT ![w].todo = @ \ {p}, ![w].deferred = @ \cup {p}]
         /\ handed' = handed
  <2>1. CASE Publish(w)
    <3>1. /\ AddJob(p) /\ handed' = handed \cup {p}
          /\ batch' = [batch EXCEPT ![w].todo = @ \ {p}, ![w].marked = @ \cup {p}]
      BY <1>2, <2>1 DEF Publish
    <3>2. Covered(p)'
      BY <1>1, <1>2, <1>3, <3>1, AddJobCovers
    <3> QED
      BY <3>1, <3>2
  <2>2. CASE PublishFails(w)
    BY <1>2, <2>2 DEF PublishFails, Defer
  <2> QED
    BY <2>1, <2>2
<1>8. batch[w] \in [todo : SUBSET Proofs, marked : SUBSET Proofs, deferred : SUBSET Proofs]
  BY <1>1 DEF IInv, TypeOK
<1>9. /\ batch' \in [Dispatchers -> {None} \cup
            [todo : SUBSET Proofs, marked : SUBSET Proofs, deferred : SUBSET Proofs]]
      /\ \A v \in Dispatchers \ {w} : batch'[v] = batch[v]
      /\ batch'[w].todo = batch[w].todo \ {p}
      /\ \/ /\ batch'[w].marked = batch[w].marked \cup {p} /\ Covered(p)'
            /\ batch'[w].deferred = batch[w].deferred /\ handed' = handed \cup {p}
         \/ /\ batch'[w].marked = batch[w].marked /\ handed' = handed
            /\ batch'[w].deferred = batch[w].deferred \cup {p}
  BY <1>2, <1>7, <1>8 DEF IInv, TypeOK
<1>10. TypeOK'
  <2>1. faults' \in 0..MaxFaults
    BY BoundsType DEF IInv, TypeOK, Publish, PublishFails, Fault
  <2> QED
    BY <1>1, <1>2, <1>6, <1>9, <2>1 DEF IInv, TypeOK, JobStates
<1>11. Rows(w)' \subseteq Rows(w)
  BY <1>1, <1>2, <1>9 DEF Rows
<1>12. \A q \in Rows(w) : q \in Proofs /\ proof[q] # "none"
  BY <1>1, BatchType DEF Rows, IInv, NothingEarly
<1>13. batch'[w] # None => \A q \in batch'[w].marked : Covered(q)'
  <2>1. \A q \in batch[w].marked : q \in Proofs /\ Covered(q)
    BY <1>1, <1>8 DEF IInv, PublishedCovered
  <2>2. \A q \in batch[w].marked : Covered(q)'
    BY <1>4, <2>1
  <2>3. CASE batch'[w].marked = batch[w].marked \cup {p} /\ Covered(p)'
    <3> SUFFICES ASSUME NEW q \in batch[w].marked \cup {p}
                 PROVE  Covered(q)'
      BY <2>3
    <3>1. CASE q = p
      BY <2>3, <3>1
    <3>2. CASE q # p
      BY <2>2, <3>2
    <3> QED
      BY <3>1, <3>2
  <2>4. CASE batch'[w].marked = batch[w].marked
    BY <2>2, <2>4
  <2> QED
    BY <1>9, <2>3, <2>4
<1>14. HandedInv'
  <2>1. \A v \in Dispatchers \ {w} : Rows(v) \cap Rows(w)' = {}
    BY <1>11 DEF IInv, HandedInv
  <2>2. \A v \in Dispatchers : \A q \in Rows(v)' : event'[q] = "pending"
    <3>1. \A v \in Dispatchers \ {w} : Rows(v)' = Rows(v)
      BY <1>9 DEF Rows
    <3> QED
      BY <1>1, <1>11, <3>1 DEF IInv, HandedInv
  <2>3. batch'[w].todo \cap batch'[w].marked = {} /\ batch'[w] # None
    <3>1. batch[w].todo \cap batch[w].marked = {}
      BY <1>1 DEF IInv, HandedInv
    <3>2. batch'[w] # None
      <4>1. batch'[w] \in Batch
        BY <1>2, <1>7, <1>8 DEF IInv, TypeOK
      <4> QED
        BY <4>1, PipelineAssumption
    <3> QED
      BY <1>9, <3>1, <3>2
  <2>4. \A q \in handed' :
          \/ event'[q] = "published"
          \/ q \in batch'[w].marked
          \/ \E v \in Dispatchers \ {w} : batch[v] # None /\ q \in batch[v].marked
    BY <1>1, <1>9 DEF IInv, HandedInv
  <2> QED
    BY <1>9, <2>1, <2>2, <2>3, <2>4, HandedFrame DEF IInv
<1> QED
  BY <1>1, <1>4, <1>5, <1>6, <1>9, <1>10, <1>11, <1>12, <1>13, <1>14, BatchFrame

LEMMA CloseKeeps ==
  ASSUME IInv, NEW w \in Dispatchers, Commit(w) \/ DispatcherDies(w)
  PROVE  IInv'
<1>1. /\ batch' = [batch EXCEPT ![w] = None] /\ batch[w] # None
      /\ UNCHANGED <<proof, jobVars, callbacks>>
  BY DEF Commit, DispatcherDies, apiVars
<1>2. /\ batch'[w] = None /\ Rows(w)' = {}
      /\ \A v \in Dispatchers \ {w} : batch'[v] = batch[v]
  BY <1>1 DEF IInv, TypeOK, Rows
<1>3. \A p \in Proofs : \/ event'[p] = event[p]
                          \/ /\ p \in batch[w].marked
                             /\ event'[p] = "published"
  BY DEF Commit, StatusAfter, DispatcherDies, apiVars
<1>4. \A p \in batch[w].marked : p \in Proofs /\ Covered(p) /\ event[p] # "none"
  BY <1>1, BatchType DEF IInv, PublishedCovered, NothingEarly, Rows
<1>5. TypeOK'
  <2>1. event' \in [Proofs -> {"none", "pending", "published"}] /\ due' \in [Proofs -> BOOLEAN]
    <3>1. CASE Commit(w)
      BY <3>1, <1>3 DEF Commit, IInv, TypeOK
    <3>2. CASE DispatcherDies(w)
      BY <3>2 DEF DispatcherDies, apiVars, IInv, TypeOK
    <3> QED
      BY <3>1, <3>2
  <2>2. faults' \in 0..MaxFaults
    BY BoundsType DEF Commit, DispatcherDies, Fault, IInv, TypeOK
  <2> QED
    BY <1>1, <2>1, <2>2 DEF Commit, DispatcherDies, jobVars, IInv, TypeOK
<1>6. \A p \in Proofs : Covered(p) => Covered(p)'
  BY <1>1 DEF Covered, jobVars
<1>7. JobStage'
  BY <1>1 DEF IInv, JobStage, jobVars
<1>8. HandedInv'
  <2>1. \A v \in Dispatchers : \A p \in Rows(v)' : event'[p] = "pending"
    <3>1. ASSUME NEW v \in Dispatchers \ {w}, NEW p \in Rows(v)
          PROVE  event'[p] = "pending"
      <4>1. p \in Proofs /\ event[p] = "pending" /\ p \notin Rows(w)
        BY <3>1, BatchType DEF IInv, HandedInv, Rows
      <4>2. p \notin batch[w].marked
        BY <1>1, <4>1 DEF Rows
      <4> QED
        BY <1>3, <4>1, <4>2
    <3>2. \A v \in Dispatchers \ {w} : Rows(v)' = Rows(v)
      BY <1>2 DEF Rows
    <3> QED
      BY <1>2, <3>1, <3>2
  <2>2. \A p \in handed' :
          \/ event'[p] = "published"
          \/ \E v \in Dispatchers \ {w} : batch[v] # None /\ p \in batch[v].marked
    <3> SUFFICES ASSUME NEW p \in handed', event'[p] # "published"
                 PROVE  \E v \in Dispatchers \ {w} : batch[v] # None /\ p \in batch[v].marked
      OBVIOUS
    <3>1. p \in handed /\ p \in Proofs
      BY DEF Commit, DispatcherDies, IInv, TypeOK
    <3>2. event[p] # "published"
      BY <1>3, <3>1
    <3>3. p \notin batch[w].marked
      <4>1. CASE Commit(w)
        BY <3>1, <4>1 DEF Commit, StatusAfter
      <4>2. CASE DispatcherDies(w)
        BY <4>2 DEF DispatcherDies
      <4> QED
        BY <4>1, <4>2
    <3> QED
      BY <3>1, <3>2, <3>3 DEF IInv, HandedInv
  <2> QED
    BY <1>2, <2>1, <2>2, HandedFrame DEF IInv
<1> QED
  BY <1>1, <1>2, <1>3, <1>4, <1>5, <1>6, <1>7, <1>8, BatchFrame DEF jobVars, IInv, NothingEarly

-----------------------------------------------------------------------------
(* Results *)

\* The inductive invariant holds throughout.
THEOREM Invariance == Spec => []IInv
<1>1. IInv /\ [Next]_vars => IInv'
  <2> SUFFICES ASSUME IInv, [Next]_vars
               PROVE  IInv'
    OBVIOUS
  <2>1. CASE UNCHANGED vars
    <3>1. TypeOK'
      BY <2>1 DEF vars, apiVars, dispatchVars, jobVars, IInv, TypeOK
    <3> QED
      BY <2>1, <3>1, Unmoved DEF vars, apiVars, jobVars
  <2>2. ASSUME NEW p \in Proofs,
               Request(p) \/ BecomeDue(p) \/ Work(p) \/ Forget(p)
                 \/ AttemptFails(p) \/ WorkerDies(p)
        PROVE  IInv'
    BY <2>2, RequestKeeps, BecomeDueKeeps, WorkKeeps, EndKeeps
  <2>3. ASSUME NEW w \in Dispatchers,
               Dispatch(w) \/ PublishFails(w) \/ DispatcherDies(w)
        PROVE  IInv'
    BY <2>3, SelectKeeps, PublishKeeps, CloseKeeps DEF Dispatch
  <2> QED
    BY <2>1, <2>2, <2>3 DEF Next
<1> QED
  BY InitIInv, <1>1, PTL DEF Spec

\* Every variable keeps its type; in particular no job is tried once more
\* than it may be.
THEOREM TypeCorrect == Spec => []TypeOK
BY Invariance, PTL DEF IInv

\* A requested proof always has an event, a job or a callback, until it is
\* ready or its job has failed for good, whichever processes die.
THEOREM NothingForgottenHolds == Spec => []NothingForgotten
<1>1. IInv => NothingForgotten
  BY DEF IInv, TypeOK, PublishedCovered, Covered, NothingEarly, NothingForgotten
<1> QED
  BY Invariance, <1>1, PTL

\* A proof announced as ready can be downloaded.
THEOREM ReadyHolds == Spec => []ReadyHasObject
BY Invariance, PTL DEF IInv

\* Nothing is put in the queue again unless the publication failed or its
\* transaction was undone, however many dispatchers select and die
\* (postgres-outbox.ts:7).
THEOREM PublishedOnceHolds == Spec => []PublishedOnce
<1>1. IInv => PublishedOnce
  <2> SUFFICES ASSUME IInv, NEW w \in Dispatchers, batch[w] # None,
                      NEW p \in batch[w].todo, p \in handed
               PROVE  FALSE
    BY DEF PublishedOnce
  <2>1. p \in Rows(w) /\ event[p] = "pending" /\ p \notin batch[w].marked
    BY DEF IInv, HandedInv, Rows
  <2>2. PICK v \in Dispatchers : batch[v] # None /\ p \in batch[v].marked
    BY <2>1 DEF IInv, HandedInv
  <2>3. v # w /\ p \in Rows(v)
    BY <2>1, <2>2 DEF Rows
  <2> QED
    BY <2>1, <2>3 DEF IInv, HandedInv
<1> QED
  BY Invariance, <1>1, PTL

-----------------------------------------------------------------------------
(* Refinement: every step is a step of ProofDelivery or a stutter. *)

LEMMA StageOf ==
  ASSUME NEW p \in Proofs
  PROVE  Stage[p] = IF proof[p] = "none" THEN "none"
                    ELSE IF proof[p] = "ready" THEN "ready"
                    ELSE IF p \in object THEN "archived" ELSE "requested"
BY DEF Stage

LEMMA StageStays ==
  ASSUME UNCHANGED <<proof, object>>
  PROVE  UNCHANGED Stage
BY DEF Stage

\* A step that changes the stage of one proof at most.
LEMMA StageStep ==
  ASSUME NEW p \in Proofs, NEW to, Stage'[p] = to,
         \A q \in Proofs \ {p} : proof'[q] = proof[q] /\ (q \in object' <=> q \in object)
  PROVE  Stage' = [Stage EXCEPT ![p] = to]
<1>1. \A q \in Proofs \ {p} : Stage'[q] = Stage[q]
  BY DEF Stage
<1>2. Stage' = [q \in Proofs |-> Stage'[q]] /\ Stage = [q \in Proofs |-> Stage[q]]
  BY DEF Stage
<1>3. DOMAIN Stage' = Proofs /\ DOMAIN Stage = Proofs
  BY DEF Stage
<1> HIDE DEF Stage
<1> QED
  BY <1>1, <1>2, <1>3

\* Steps that leave the places of the jobs' failures alone.
LEMMA TroubleStays ==
  ASSUME UNCHANGED <<tries, stalled>>
  PROVE  UNCHANGED Troubled
BY DEF Troubled

\* The abstract step of a proof whose job fails, fails for good, or is begun anew.
LEMMA TroubleStep ==
  ASSUME TypeOK, NEW p \in Proofs, proof[p] # "none", UNCHANGED <<proof, object>>,
         \/ Troubled' = Troubled \cup {p} /\ UNCHANGED exhausted
         \/ Troubled' = Troubled \ {p} /\ UNCHANGED exhausted
         \/ p \in Troubled /\ UNCHANGED Troubled /\ exhausted' = exhausted \cup {p}
  PROVE  Delivery!Next
<1>1. Stage[p] # "none" /\ UNCHANGED Stage
  BY DEF Stage
<1>2. CASE Troubled' = Troubled \cup {p} /\ UNCHANGED exhausted
  BY <1>1, <1>2 DEF Delivery!Next, Delivery!Trouble
<1>3. CASE Troubled' = Troubled \ {p} /\ UNCHANGED exhausted
  BY <1>1, <1>3 DEF Delivery!Next, Delivery!Restart
<1>4. CASE p \in Troubled /\ UNCHANGED Troubled /\ exhausted' = exhausted \cup {p}
  BY <1>1, <1>4 DEF Delivery!Next, Delivery!Abandon
<1> QED
  BY <1>2, <1>3, <1>4

LEMMA FailureStep ==
  ASSUME IInv, NEW p \in Proofs, AttemptFails(p) \/ WorkerDies(p)
  PROVE  Delivery!Next
<1>1. /\ proof[p] # "none" /\ UNCHANGED <<proof, object>>
      /\ tries[p] \in Nat /\ stalled[p] \in Nat /\ stalled[p] <= MaxStalled
  BY BoundsType DEF AttemptFails, WorkerDies, apiVars, IInv, TypeOK, NothingEarly, Running
<1>2. CASE AttemptFails(p)
  <2>1. tries' = [tries EXCEPT ![p] = tries[p] + 1] /\ stalled' = stalled
    BY <1>2 DEF AttemptFails
  <2>2. /\ tries'[p] > 0
        /\ \A q \in Proofs \ {p} : tries'[q] = tries[q]
    BY <1>1, <2>1 DEF IInv, TypeOK
  <2>3. Troubled' = Troubled \cup {p}
    BY <2>1, <2>2 DEF Troubled
  <2>4. CASE Exhausts(p)
    <3>1. tries[p] > 0
      BY <1>1, <2>4, BoundsType DEF Exhausts
    <3>2. p \in Troubled /\ Troubled' = Troubled
      BY <2>3, <3>1 DEF Troubled
    <3>3. exhausted' = exhausted \cup {p}
      BY <1>2, <2>4 DEF AttemptFails
    <3> QED
      BY <1>1, <3>2, <3>3, TroubleStep DEF IInv
  <2>5. CASE ~Exhausts(p)
    <3>1. exhausted' = exhausted
      BY <1>2, <2>5 DEF AttemptFails
    <3> QED
      BY <1>1, <2>3, <3>1, TroubleStep DEF IInv
  <2> QED
    BY <2>4, <2>5
<1>3. CASE WorkerDies(p)
  <2>1. CASE stalled[p] = MaxStalled /\ exhausted' = exhausted \cup {p} /\ UNCHANGED stalled
    <3>1. UNCHANGED Troubled
      BY <1>3, <2>1, TroubleStays DEF WorkerDies
    <3>2. p \in Troubled
      BY <2>1, BoundsType DEF Troubled
    <3> QED
      BY <1>1, <2>1, <3>1, <3>2, TroubleStep DEF IInv
  <2>2. CASE stalled' = [stalled EXCEPT ![p] = @ + 1] /\ UNCHANGED exhausted
    <3>1. /\ stalled'[p] > 0 /\ tries' = tries
          /\ \A q \in Proofs \ {p} : stalled'[q] = stalled[q]
      BY <1>1, <1>3, <2>2 DEF WorkerDies, IInv, TypeOK
    <3>2. Troubled' = Troubled \cup {p}
      BY <3>1 DEF Troubled
    <3> QED
      BY <1>1, <2>2, <3>2, TroubleStep DEF IInv
  <2> QED
    BY <1>3, <2>1, <2>2 DEF WorkerDies
<1> QED
  BY <1>2, <1>3

LEMMA PublishStep ==
  ASSUME IInv, NEW w \in Dispatchers, Publish(w) \/ PublishFails(w)
  PROVE  [Delivery!Next]_Delivery!vars
<1>1. /\ batch[w] # None /\ batch[w].todo # {}
      /\ UNCHANGED <<proof, object, exhausted>>
  BY DEF Publish, PublishFails, apiVars
<1>2. PICK p \in Proofs : p = Current(w) /\ p \in batch[w].todo
  BY <1>1, CurrentInBatch DEF IInv
<1>3. proof[p] # "none"
  BY <1>1, <1>2 DEF Rows, IInv, NothingEarly
<1>4. CASE UNCHANGED <<tries, stalled>>
  BY <1>1, <1>4, StageStays, TroubleStays DEF Delivery!vars
<1>5. CASE tries' = [tries EXCEPT ![p] = 0] /\ stalled' = [stalled EXCEPT ![p] = 0]
  <2>1. /\ tries'[p] = 0 /\ stalled'[p] = 0
        /\ \A q \in Proofs \ {p} : tries'[q] = tries[q] /\ stalled'[q] = stalled[q]
    BY <1>5 DEF IInv, TypeOK
  <2>2. Troubled' = Troubled \ {p}
    BY <2>1 DEF Troubled
  <2> QED
    BY <1>1, <1>3, <2>2, TroubleStep DEF IInv
<1> QED
  BY <1>2, <1>4, <1>5 DEF Publish, PublishFails, AddJob

LEMMA DeliveryNext ==
  ASSUME IInv, [Next]_vars
  PROVE  [Delivery!Next]_Delivery!vars
<1> USE DEF Delivery!Next, Delivery!Request, Delivery!Archive, Delivery!Announce,
            Delivery!Advance, Delivery!vars
<1>1. ASSUME NEW p \in Proofs, Request(p)
      PROVE  [Delivery!Next]_Delivery!vars
  <2>1. /\ proof[p] = "none" /\ p \notin object /\ proof'[p] = "pending"
        /\ object' = object
        /\ \A q \in Proofs \ {p} : proof'[q] = proof[q]
    BY <1>1 DEF Request, jobVars, IInv, TypeOK, NothingEarly
  <2>2. Stage[p] = "none" /\ Stage'[p] = "requested"
    BY <2>1 DEF Stage
  <2>3. UNCHANGED Troubled /\ UNCHANGED exhausted
    BY <1>1, TroubleStays DEF Request, jobVars
  <2> QED
    BY <2>1, <2>2, <2>3, StageStep
<1>2. ASSUME NEW p \in Proofs, Upload(p)
      PROVE  [Delivery!Next]_Delivery!vars
  <2>1. /\ proof[p] # "none" /\ object' = object \cup {p} /\ proof' = proof
        /\ UNCHANGED Troubled /\ UNCHANGED exhausted
    BY <1>2, TroubleStays DEF Upload, Move, apiVars, IInv, NothingEarly
  <2>2. CASE p \in object
    BY <2>1, <2>2, StageStays
  <2>3. CASE proof[p] = "ready"
    <3>1. Stage' = Stage
      BY <2>1, <2>3 DEF Stage
    <3> QED
      BY <2>1, <3>1
  <2>4. CASE p \notin object /\ proof[p] # "ready"
    <3>1. Stage[p] = "requested" /\ Stage'[p] = "archived"
      BY <2>1, <2>4 DEF Stage
    <3> QED
      BY <2>1, <3>1, StageStep
  <2> QED
    BY <2>2, <2>3, <2>4
<1>3. ASSUME NEW p \in Proofs, MarkReady(p)
      PROVE  [Delivery!Next]_Delivery!vars
  <2>1. /\ p \in object /\ proof[p] # "none" /\ proof'[p] = "ready" /\ object' = object
        /\ \A q \in Proofs \ {p} : proof'[q] = proof[q]
        /\ UNCHANGED Troubled /\ UNCHANGED exhausted
    BY <1>3, TroubleStays DEF MarkReady, IInv, TypeOK, NothingEarly, ReadyHasObject
  <2>2. Stage[p] \in {"archived", "ready"} /\ Stage'[p] = "ready"
    BY <2>1 DEF Stage
  <2>3. Stage' = [Stage EXCEPT ![p] = "ready"]
    BY <2>1, <2>2, StageStep
  <2>4. CASE Stage[p] = "archived"
    BY <2>1, <2>3, <2>4
  <2>5. CASE Stage[p] = "ready"
    <3>1. Stage' = Stage
      BY <2>3, <2>5 DEF Stage
    <3> QED
      BY <2>1, <3>1
  <2> QED
    BY <2>2, <2>4, <2>5
<1>4. ASSUME UNCHANGED <<proof, object, tries, stalled, exhausted>>
      PROVE  [Delivery!Next]_Delivery!vars
  BY <1>4, StageStays, TroubleStays
<1>5. ASSUME NEW p \in Proofs,
             BecomeDue(p) \/ Take(p) \/ CallBack(p) \/ Complete(p) \/ Retry(p) \/ Forget(p)
      PROVE  UNCHANGED <<proof, object, tries, stalled, exhausted>>
  BY <1>5 DEF BecomeDue, Take, CallBack, Complete, Retry, Forget, apiVars, jobVars
<1>6. ASSUME NEW w \in Dispatchers, Select(w) \/ Commit(w) \/ DispatcherDies(w)
      PROVE  UNCHANGED <<proof, object, tries, stalled, exhausted>>
  BY <1>6 DEF Select, Commit, DispatcherDies, apiVars, jobVars
<1>7. ASSUME UNCHANGED vars
      PROVE  UNCHANGED <<proof, object, tries, stalled, exhausted>>
  BY <1>7 DEF vars, apiVars, jobVars
<1>8. ASSUME NEW p \in Proofs, AttemptFails(p) \/ WorkerDies(p)
      PROVE  [Delivery!Next]_Delivery!vars
  BY <1>8, FailureStep
<1>9. ASSUME NEW w \in Dispatchers, Publish(w) \/ PublishFails(w)
      PROVE  [Delivery!Next]_Delivery!vars
  BY <1>9, PublishStep
<1> QED
  BY <1>1, <1>2, <1>3, <1>4, <1>5, <1>6, <1>7, <1>8, <1>9 DEF Next, Work, Dispatch

\* The pipeline delivers safely: requested, then archived, only then announced,
\* with no stage left out and none taken back, and nothing is given up at the
\* first failure.
THEOREM SafeDelivery == Spec => Delivery!Safe
<1>1. Init => Delivery!Init
  BY DEF Init, Delivery!Init, Stage, Troubled
<1> QED
  BY Invariance, <1>1, DeliveryNext, PTL DEF Spec, Delivery!Safe
=============================================================================
