--------------------------- MODULE ProofPipeline ----------------------------
(***************************************************************************)
(* From a completed activity to its PDF proof: the transactional outbox    *)
(* that completeActivity fills, the dispatchers that move its events to    *)
(* the BullMQ queue (outbox.ts, postgres-outbox.ts, outbox-runtime.ts),    *)
(* the job that builds and uploads the PDF and calls the API back          *)
(* (proof-storage.ts, proof-callback.ts), and the API's side of that call  *)
(* (evidence.service.ts, markProofReady).                                  *)
(*                                                                         *)
(* A proof, its event and its job are one to one and share an identifier:  *)
(* the job's id is the event's (outbox.ts:41).  The PDF is a function of   *)
(* the job (proof.test.ts), so an upload made again stores the same object *)
(* and the object is a boolean.                                            *)
(***************************************************************************)
EXTENDS Naturals, FiniteSets

CONSTANTS
  Dispatchers,  \* worker processes, each with a dispatcher
  BatchSize,    \* events a dispatcher takes at once (25 in the code)
  Attempts,     \* attempts of a job (5 in the code)
  MaxStalled,   \* times a job may lose its worker (1 in BullMQ)
  MaxProofs,    \* bound: proofs requested
  MaxFaults,    \* bound: failed publications and attempts, dead dispatchers and workers
  None          \* a dispatcher without a transaction

Proofs == 1..MaxProofs  \* in the order their events were created

\* A dispatcher's open transaction.
Batch == [todo : SUBSET Proofs, marked : SUBSET Proofs, deferred : SUBSET Proofs]

ASSUME PipelineAssumption ==
  /\ {BatchSize, MaxStalled} \subseteq Nat \ {0}
  /\ Attempts \in Nat \ {0, 1}
  /\ {MaxProofs, MaxFaults} \subseteq Nat
  /\ None \notin Batch

-----------------------------------------------------------------------------

VARIABLES
  proof,      \* proofs.status
  event,      \* outbox_events.status
  due,        \* whether outbox_events.next_attempt_at has passed
  batch,      \* the transaction of each dispatcher: rows left, marked, deferred
  handed,     \* history: events put in the queue by a transaction that was not undone
  job,        \* where the job is; "called" and "answered" are an active job
              \* before and after the API has answered its callback
  tries,      \* attempts of the job that failed
  stalled,    \* times the job lost its worker
  exhausted,  \* history: proofs whose job has failed for good
  object,     \* proofs whose PDF is in the bucket
  callbacks,  \* proofs for which the API is executing markProofReady
  faults

apiVars == <<proof, event, due>>
dispatchVars == <<batch, handed>>
jobVars == <<job, tries, stalled, exhausted, object>>
vars == <<apiVars, dispatchVars, jobVars, callbacks, faults>>

Running == {"active", "uploaded", "called", "answered"}
Live == Running \cup {"waiting", "delayed"}

TypeOK ==
  /\ proof \in [Proofs -> {"none", "pending", "ready"}]
  /\ event \in [Proofs -> {"none", "pending", "published"}]
  /\ due \in [Proofs -> BOOLEAN]
  /\ batch \in [Dispatchers -> Batch \cup {None}]
  /\ job \in [Proofs -> Live \cup {"none", "completed", "failed"}]
  /\ tries \in [Proofs -> 0..Attempts]
  /\ stalled \in [Proofs -> 0..MaxStalled]
  /\ {handed, exhausted, object, callbacks} \subseteq SUBSET Proofs
  /\ faults \in 0..MaxFaults

Init ==
  /\ proof = [p \in Proofs |-> "none"]
  /\ event = [p \in Proofs |-> "none"]
  /\ due = [p \in Proofs |-> FALSE]
  /\ batch = [w \in Dispatchers |-> None]
  /\ job = [p \in Proofs |-> "none"]
  /\ tries = [p \in Proofs |-> 0]
  /\ stalled = [p \in Proofs |-> 0]
  /\ handed = {} /\ exhausted = {} /\ object = {} /\ callbacks = {}
  /\ faults = 0

Fault == faults < MaxFaults /\ faults' = faults + 1

-----------------------------------------------------------------------------
(* The API *)

\* completeActivity commits the proof and its event together.
Request(p) ==
  /\ proof[p] = "none" /\ \A q \in 1..(p - 1) : proof[q] # "none"
  /\ proof' = [proof EXCEPT ![p] = "pending"]
  /\ event' = [event EXCEPT ![p] = "pending"]
  /\ due' = [due EXCEPT ![p] = TRUE]
  /\ UNCHANGED <<dispatchVars, jobVars, callbacks, faults>>

-----------------------------------------------------------------------------
(* The dispatchers *)

Rows(w) ==
  IF batch[w] = None THEN {} ELSE batch[w].todo \cup batch[w].marked \cup batch[w].deferred

\* FOR UPDATE SKIP LOCKED: rows of another open transaction are passed over.
Unlocked(p) == \A w \in Dispatchers : p \notin Rows(w)

Selectable == {p \in Proofs : event[p] = "pending" /\ due[p] /\ Unlocked(p)}

\* The BatchSize oldest of the events.
Oldest(events) == {p \in events : Cardinality({q \in events : q < p}) < BatchSize}

\* A tick that finds events to publish.
Select(w) ==
  /\ batch[w] = None /\ Selectable # {}
  /\ batch' = [batch EXCEPT ![w] =
                 [todo |-> Oldest(Selectable), marked |-> {}, deferred |-> {}]]
  /\ UNCHANGED <<apiVars, handed, jobVars, callbacks, faults>>

Current(w) == CHOOSE p \in batch[w].todo : \A q \in batch[w].todo : p <= q

\* queue.add: nothing happens while a job with that id exists.
AddJob(p) ==
  IF job[p] = "none"
    THEN /\ job' = [job EXCEPT ![p] = "waiting"]
         /\ tries' = [tries EXCEPT ![p] = 0] /\ stalled' = [stalled EXCEPT ![p] = 0]
    ELSE UNCHANGED <<job, tries, stalled>>

\* The job is added and the event marked, in a transaction still open.
Publish(w) ==
  /\ batch[w] # None /\ batch[w].todo # {}
  /\ LET p == Current(w)
     IN /\ AddJob(p)
        /\ batch' = [batch EXCEPT ![w].todo = @ \ {p}, ![w].marked = @ \cup {p}]
        /\ handed' = handed \cup {p}
  /\ UNCHANGED <<apiVars, exhausted, object, callbacks, faults>>

\* A failed publication is marked like a successful one (mutant of Defer).
DeferNot(w, p) ==
  batch' = [batch EXCEPT ![w].todo = @ \ {p}, ![w].marked = @ \cup {p}]

\* markFailed: the event stays pending, for later.
Defer(w, p) ==
  batch' = [batch EXCEPT ![w].todo = @ \ {p}, ![w].deferred = @ \cup {p}]

\* Redis fails, perhaps after it has added the job.
PublishFails(w) ==
  /\ batch[w] # None /\ batch[w].todo # {}
  /\ Fault
  /\ LET p == Current(w)
     IN /\ AddJob(p) \/ UNCHANGED <<job, tries, stalled>>
        /\ Defer(w, p)
  /\ UNCHANGED <<apiVars, handed, exhausted, object, callbacks>>

\* A deferred event is given a status nobody selects (mutant of StatusAfter).
StatusAfterFailed(w, p) ==
  IF p \in batch[w].marked THEN "published"
  ELSE IF p \in batch[w].deferred THEN "failed" ELSE event[p]

\* One publication that failed undoes the marks of the others (mutant of StatusAfter).
StatusAfterUndone(w, p) ==
  IF p \in batch[w].marked /\ batch[w].deferred = {} THEN "published" ELSE event[p]

\* The status of an event once the transaction is committed.
StatusAfter(w, p) == IF p \in batch[w].marked THEN "published" ELSE event[p]

Commit(w) ==
  /\ batch[w] # None /\ batch[w].todo = {}
  /\ event' = [p \in Proofs |-> StatusAfter(w, p)]
  /\ due' = [p \in Proofs |-> due[p] /\ p \notin batch[w].deferred]
  /\ batch' = [batch EXCEPT ![w] = None]
  /\ UNCHANGED <<proof, handed, jobVars, callbacks, faults>>

\* The process or its connection dies: rollback, whatever was published.
DispatcherDies(w) ==
  /\ batch[w] # None
  /\ Fault
  /\ batch' = [batch EXCEPT ![w] = None]
  /\ handed' = handed \ batch[w].marked
  /\ UNCHANGED <<apiVars, jobVars, callbacks>>

\* next_attempt_at passes.
BecomeDue(p) ==
  /\ event[p] = "pending" /\ ~due[p]
  /\ due' = [due EXCEPT ![p] = TRUE]
  /\ UNCHANGED <<proof, event, dispatchVars, jobVars, callbacks, faults>>

-----------------------------------------------------------------------------
(* The job *)

Move(p, from, to) == job[p] = from /\ job' = [job EXCEPT ![p] = to]

Take(p) ==
  /\ Move(p, "waiting", "active")
  /\ UNCHANGED <<apiVars, dispatchVars, tries, stalled, exhausted, object, callbacks, faults>>

\* generateAndStoreProof.
Upload(p) ==
  /\ Move(p, "active", "uploaded")
  /\ object' = object \cup {p}
  /\ UNCHANGED <<apiVars, dispatchVars, tries, stalled, exhausted, callbacks, faults>>

\* notifyProofReady.  A call still under way from an earlier attempt has the
\* same effect, so the two are one.
CallBack(p) ==
  /\ Move(p, "uploaded", "called")
  /\ callbacks' = callbacks \cup {p}
  /\ UNCHANGED <<apiVars, dispatchVars, tries, stalled, exhausted, object, faults>>

\* markProofReady: a proof that is ready is answered as it is.
MarkReady(p) ==
  /\ p \in callbacks
  /\ proof' = [proof EXCEPT ![p] = "ready"]
  /\ callbacks' = callbacks \ {p}
  /\ job' = IF job[p] = "called" THEN [job EXCEPT ![p] = "answered"] ELSE job
  /\ UNCHANGED <<event, due, dispatchVars, tries, stalled, exhausted, object, faults>>

Complete(p) ==
  /\ Move(p, "answered", "completed")
  /\ UNCHANGED <<apiVars, dispatchVars, tries, stalled, exhausted, object, callbacks, faults>>

\* One attempt too few (mutant of Exhausts).
ExhaustsEarly(p) == tries[p] + 2 >= Attempts

\* The failing attempt is the job's last.
Exhausts(p) == tries[p] + 1 >= Attempts

\* The attempt throws: upload or callback failed, the callback timed out, its
\* answer was lost.  What was sent stays sent.
AttemptFails(p) ==
  /\ job[p] \in Running
  /\ Fault
  /\ tries' = [tries EXCEPT ![p] = @ + 1]
  /\ job' = [job EXCEPT ![p] = IF Exhausts(p) THEN "failed" ELSE "delayed"]
  /\ exhausted' = IF Exhausts(p) THEN exhausted \cup {p} ELSE exhausted
  /\ UNCHANGED <<apiVars, dispatchVars, stalled, object, callbacks>>

\* The exponential backoff of the job passes.
Retry(p) ==
  /\ Move(p, "delayed", "waiting")
  /\ UNCHANGED <<apiVars, dispatchVars, tries, stalled, exhausted, object, callbacks, faults>>

\* The worker dies with the job.  BullMQ finds it stalled and queues it again,
\* but not once more than MaxStalled times: then the job has failed.
WorkerDies(p) ==
  /\ job[p] \in Running
  /\ Fault
  /\ \/ /\ stalled[p] < MaxStalled
        /\ job' = [job EXCEPT ![p] = "waiting"]
        /\ stalled' = [stalled EXCEPT ![p] = @ + 1]
        /\ UNCHANGED exhausted
     \/ /\ stalled[p] = MaxStalled
        /\ job' = [job EXCEPT ![p] = "failed"]
        /\ exhausted' = exhausted \cup {p}
        /\ UNCHANGED stalled
  /\ UNCHANGED <<apiVars, dispatchVars, tries, object, callbacks>>

\* removeOnComplete, removeOnFail: an ended job is forgotten, and its id free.
Forget(p) ==
  /\ job[p] \in {"completed", "failed"}
  /\ job' = [job EXCEPT ![p] = "none"]
  /\ UNCHANGED <<apiVars, dispatchVars, tries, stalled, exhausted, object, callbacks, faults>>

-----------------------------------------------------------------------------

Dispatch(w) == Select(w) \/ Publish(w) \/ Commit(w)

Work(p) ==
  Take(p) \/ Upload(p) \/ CallBack(p) \/ MarkReady(p) \/ Complete(p) \/ Retry(p)

Next ==
  \/ \E p \in Proofs : Request(p) \/ BecomeDue(p) \/ Work(p) \/ Forget(p)
                       \/ AttemptFails(p) \/ WorkerDies(p)
  \/ \E w \in Dispatchers : Dispatch(w) \/ PublishFails(w) \/ DispatcherDies(w)

\* The timer of every dispatcher goes on ticking, time passes, jobs are served.
Fairness ==
  /\ \A w \in Dispatchers : WF_vars(Dispatch(w))
  /\ \A p \in Proofs : WF_vars(BecomeDue(p)) /\ WF_vars(Work(p))

Spec == Init /\ [][Next]_vars /\ Fairness

-----------------------------------------------------------------------------
(* Safety *)

\* A proof that is not ready has someone who will still see to it, or a job
\* that failed for good: a dispatcher that dies between publishing and
\* committing (outbox.ts:56) repeats an event, it never drops one.
NothingForgotten ==
  \A p \in Proofs : proof[p] = "pending" =>
    \/ event[p] = "pending"
    \/ job[p] \in Live
    \/ p \in callbacks
    \/ p \in exhausted

\* However dispatchers select, publish, fail and die beside each other, none is
\* about to publish what another transaction, open or committed, has already
\* put in the queue: only a publication that failed, or whose transaction was
\* undone, is repeated.  The job may have been served and its id be free by then,
\* so that the queue would not notice (postgres-outbox.ts:7, outbox.ts:41).
PublishedOnce ==
  \A w \in Dispatchers : batch[w] # None => batch[w].todo \cap handed = {}

(* Refinement, with its liveness *)

Stage == [p \in Proofs |->
            CASE proof[p] = "none" -> "none"
              [] proof[p] = "ready" -> "ready"
              [] OTHER -> IF p \in object THEN "archived" ELSE "requested"]

\* Proofs whose job has failed an attempt or lost a worker.
Troubled == {p \in Proofs : tries[p] > 0 \/ stalled[p] > 0}

Delivery == INSTANCE ProofDelivery WITH
              stage <- Stage, troubled <- Troubled, abandoned <- exhausted

\* Every requested proof is archived, then announced, unless its job fails for
\* good, which takes more than one failure of that job; nobody sees to it then
\* (outbox.ts:41, worker config.ts:30).
ImplementsDelivery == Delivery!Spec
=============================================================================
