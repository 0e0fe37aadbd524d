--------------------------- MODULE EvidenceUpload ---------------------------
(***************************************************************************)
(* The completion of an activity from the phone: the driver submits a      *)
(* photo and a signature as one manifest (AppContext.submitEvidence,       *)
(* uploadQueue.ts), and every synchronisation takes it a stage further     *)
(* (coordinator.ts, synchronizer.ts): a row and a presigned URL for each   *)
(* file, the upload to the object store, its confirmation, and at the end  *)
(* completeActivity, which demands both kinds confirmed                    *)
(* (evidence.service.ts).  Meanwhile the activity's own commands, of which *)
(* its failure may come last, reach the server before the evidence does.   *)
(*                                                                         *)
(* The manifest's id is the activity's, so a second submission replaces    *)
(* the first.  The synchronizer works on a copy and saves the copy; the    *)
(* driver may submit between any two of its awaits.  A request is one step *)
(* of the server; it may fail before that step, or after it, its answer    *)
(* lost.                                                                   *)
(***************************************************************************)
EXTENDS Naturals, Sequences, Lifecycle

CONSTANTS
  Attempts,        \* attempts of withBackoff (3 in the code)
  MaxSubmissions,  \* bound: times the driver submits evidence
  MaxFaults,       \* bound: failed requests, expired URLs, crashes of the app
  None

Kinds == {"photo_material", "signature"}
Stages == {"none", "initiated", "uploaded", "confirmed"}
Submissions == 1..MaxSubmissions

\* The statuses of the activity while the driver is under way with it.
UnderWay == {"EN_ROUTE", "ON_SITE", "IN_SERVICE"}

\* A submission saves its files twice without progress, and each time a
\* synchronisation may create their rows; every lost answer costs one more.
MaxRows == 4 * MaxSubmissions + MaxFaults

Manifest ==
  [submission : Submissions,
   status : {"local", "queued", "acknowledged", "error"},
   files : [Kinds -> [stage : Stages, row : 0..MaxRows]]]

Row == [kind : Kinds, submission : Submissions, object : BOOLEAN, confirmed : BOOLEAN]

ASSUME EvidenceAssumption ==
  /\ Attempts \in Nat \ {0}
  /\ {MaxSubmissions, MaxFaults} \subseteq Nat
  /\ None \notin Manifest /\ \A taken \in SUBSET (1..MaxRows) : None # taken

-----------------------------------------------------------------------------

VARIABLES
  (* the phone's database *)
  manifest,    \* the row of evidence_manifests
  outbox,      \* evidence.upload.requested commands, by submission
  (* the running app *)
  submitted,   \* history: submissions made
  submitting,  \* where submitEvidence is
  phase,       \* where the evidence part of synchronize is
  todo,        \* commands it has still to process
  held,        \* its copy of the manifest
  attempt,     \* withBackoff's attempt
  (* the API and the object store *)
  rows,        \* evidences, in the order they were created
  expired,     \* rows whose URL has expired
  activity,    \* activities.status
  proof,       \* evidences of the proof, or None
  faults

storeVars == <<manifest, outbox>>
appVars == <<phase, todo, held, attempt>>
serverVars == <<rows, expired, activity, proof>>
vars == <<storeVars, submitted, submitting, appVars, serverVars, faults>>

TypeOK ==
  /\ {manifest, held} \subseteq Manifest \cup {None}
  /\ outbox \subseteq 1..submitted /\ todo \subseteq Submissions
  /\ submitted \in 0..MaxSubmissions
  /\ submitting \in {"no", "saved", "checked", "queued"}
  /\ phase \in {"idle", "load", "files", "acknowledge", "failed", "error"}
  /\ attempt \in 1..Attempts
  /\ rows \in Seq(Row) /\ Len(rows) <= MaxRows
  /\ expired \subseteq DOMAIN rows
  /\ activity \in UnderWay \cup Final
  /\ proof \in (SUBSET (1..MaxRows)) \cup {None}
  /\ faults \in 0..MaxFaults

Init ==
  /\ manifest = None /\ outbox = {}
  /\ submitted = 0 /\ submitting = "no"
  /\ phase = "idle" /\ todo = {} /\ held = None /\ attempt = 1
  /\ rows = <<>> /\ expired = {} /\ proof = None
  /\ activity \in UnderWay
  /\ faults = 0

Fault == faults < MaxFaults /\ faults' = faults + 1

-----------------------------------------------------------------------------
(* submitEvidence *)

\* Keeps the progress of the files it replaces (mutant of Fresh).
FreshMerged(n) ==
  [submission |-> n, status |-> "local",
   files |-> IF manifest = None
               THEN [k \in Kinds |-> [stage |-> "none", row |-> 0]]
               ELSE manifest.files]

\* A manifest as the screen makes it.
Fresh(n) ==
  [submission |-> n, status |-> "local",
   files |-> [k \in Kinds |-> [stage |-> "none", row |-> 0]]]

\* The manifest is saved over whatever there was ...
Submit ==
  /\ submitting = "no" /\ submitted < MaxSubmissions
  /\ submitted' = submitted + 1
  /\ manifest' = Fresh(submitted')
  /\ submitting' = "saved"
  /\ UNCHANGED <<outbox, appVars, serverVars, faults>>

\* ... enqueue reads it again: one a synchronisation has touched in between is
\* taken for queued already ...
CheckQueued ==
  /\ submitting = "saved"
  /\ submitting' = IF manifest.status \in {"queued", "acknowledged"} THEN "no" ELSE "checked"
  /\ UNCHANGED <<storeVars, submitted, appVars, serverVars, faults>>

\* ... otherwise it is saved once more, as queued ...
SaveQueued ==
  /\ submitting = "checked"
  /\ manifest' = [Fresh(submitted) EXCEPT !.status = "queued"]
  /\ submitting' = "queued"
  /\ UNCHANGED <<outbox, submitted, appVars, serverVars, faults>>

\* ... and its command is added.
AddCommand ==
  /\ submitting = "queued"
  /\ outbox' = outbox \cup {submitted}
  /\ submitting' = "no"
  /\ UNCHANGED <<manifest, submitted, appVars, serverVars, faults>>

-----------------------------------------------------------------------------
(* The synchronisation of one manifest *)

First(ids) == CHOOSE i \in ids : \A k \in ids : i <= k

StartSync ==
  /\ phase = "idle" /\ outbox # {}
  /\ phase' = "load" /\ todo' = outbox /\ attempt' = 1
  /\ UNCHANGED <<storeVars, submitted, submitting, held, serverVars, faults>>

\* Starts over after an error (mutant of Copy).
CopyAnew == IF manifest.status = "error" THEN Fresh(manifest.submission) ELSE manifest

Copy == manifest

\* A copy of the manifest is read; one acknowledged has nothing left to do.
Load ==
  /\ phase = "load"
  /\ held' = Copy
  /\ phase' = IF manifest.status = "acknowledged" THEN "acknowledge" ELSE "files"
  /\ UNCHANGED <<storeVars, submitted, submitting, todo, attempt, serverVars, faults>>

\* The file in hand: the photo before the signature.
Pending == {k \in Kinds : held.files[k].stage # "confirmed"}
File == IF "photo_material" \in Pending THEN "photo_material" ELSE "signature"

At(stage) == phase = "files" /\ Pending # {} /\ held.files[File].stage = stage

\* saveFile: the copy, with the file's new progress, replaces the manifest.
SaveFile(stage, row) ==
  /\ held' = [held EXCEPT !.status = "queued",
                          !.files[File] = [stage |-> stage, row |-> row]]
  /\ manifest' = held'

\* One attempt too many (mutant of MayRetry).
MayRetryOnceMore == attempt <= Attempts

MayRetry == attempt < Attempts

\* The request fails, perhaps after the server did its part: withBackoff
\* starts the synchronizer anew, and after the last attempt gives up.
Fail ==
  IF MayRetry
    THEN phase' = "load" /\ attempt' = attempt + 1
    ELSE phase' = "failed" /\ attempt' = 1

Lost ==
  /\ Fault /\ Fail
  /\ UNCHANGED <<storeVars, submitted, submitting, todo, held>>

Answered == UNCHANGED <<outbox, submitted, submitting, phase, todo, attempt, faults>>

\* evidence.initiate: a row, and the URL to upload to.
Initiate ==
  /\ At("none") /\ Len(rows) < MaxRows
  /\ rows' = Append(rows, [kind |-> File, submission |-> held.submission,
                           object |-> FALSE, confirmed |-> FALSE])
  /\ \/ Answered /\ SaveFile("initiated", Len(rows'))
     \/ Lost
  /\ UNCHANGED <<expired, activity, proof>>

\* The PUT to the presigned URL.
Upload ==
  /\ At("initiated")
  /\ LET row == held.files[File].row
     IN /\ row \notin expired
        /\ rows' = [rows EXCEPT ![row].object = TRUE]
        /\ \/ Answered /\ SaveFile("uploaded", row)
           \/ Lost
  /\ UNCHANGED <<expired, activity, proof>>

\* The store refuses the PUT to an expired URL; the stage stays as it is.
UploadRefused ==
  /\ At("initiated") /\ held.files[File].row \in expired
  /\ Fail
  /\ UNCHANGED <<storeVars, submitted, submitting, todo, held, serverVars, faults>>

\* evidence.complete: HeadObject must find the object.
Confirm ==
  /\ At("uploaded")
  /\ LET row == held.files[File].row
     IN /\ rows[row].object
        /\ rows' = [rows EXCEPT ![row].confirmed = TRUE]
        /\ \/ Answered /\ SaveFile("confirmed", row)
           \/ Lost
  /\ UNCHANGED <<expired, activity, proof>>

\* All of the activity's evidence, confirmed or not (mutant of Confirmed).
ConfirmedOrNot == DOMAIN rows

Confirmed == {r \in DOMAIN rows : rows[r].confirmed}

EvidenceSuffices == \A k \in Kinds : \E r \in Confirmed : rows[r].kind = k

Completable == activity \in {"ON_SITE", "IN_SERVICE"} /\ EvidenceSuffices

\* A repeated completion is refused (mutant of AlreadyCompleted).
AlreadyCompletedNever == FALSE

\* A repeated completion is answered with the proof there is.
AlreadyCompleted == activity = "COMPLETED"

\* completeActivity; its success is saved with the manifest.
Finish ==
  /\ phase = "files" /\ Pending = {}
  /\ \/ AlreadyCompleted /\ UNCHANGED <<activity, proof>>
     \/ Completable /\ activity' = "COMPLETED" /\ proof' = Confirmed
  /\ \/ /\ held' = [held EXCEPT !.status = "acknowledged"]
        /\ manifest' = held'
        /\ phase' = "acknowledge"
        /\ UNCHANGED <<outbox, submitted, submitting, todo, attempt, faults>>
     \/ Lost
  /\ UNCHANGED <<rows, expired>>

\* 409 or 400: the driver has not arrived yet, or has failed the activity, or
\* evidence is missing.
FinishRefused ==
  /\ phase = "files" /\ Pending = {}
  /\ ~AlreadyCompleted /\ ~Completable
  /\ Fail
  /\ UNCHANGED <<storeVars, submitted, submitting, todo, held, serverVars, faults>>

\* A request that never reaches the server.
RequestFails ==
  /\ phase = "files"
  /\ Lost
  /\ UNCHANGED serverVars

NextCommand ==
  /\ todo' = todo \ {First(todo)}
  /\ phase' = IF todo' = {} THEN "idle" ELSE "load"
  /\ held' = None /\ attempt' = 1

\* The command is deleted.
Acknowledge ==
  /\ phase = "acknowledge"
  /\ outbox' = outbox \ {First(todo)}
  /\ NextCommand
  /\ UNCHANGED <<manifest, submitted, submitting, serverVars, faults>>

\* After the last attempt: the manifest is read ...
ReadFailed ==
  /\ phase = "failed"
  /\ held' = manifest
  /\ phase' = "error"
  /\ UNCHANGED <<storeVars, submitted, submitting, todo, attempt, serverVars, faults>>

\* The command goes with the error (mutant of CommandAfterError).
CommandDropped == outbox' = outbox \ {First(todo)}

CommandAfterError == UNCHANGED outbox

\* ... and what was read is saved with the error; the command stays.
SaveError ==
  /\ phase = "error"
  /\ manifest' = [held EXCEPT !.status = "error"]
  /\ CommandAfterError
  /\ NextCommand
  /\ UNCHANGED <<submitted, submitting, serverVars, faults>>

-----------------------------------------------------------------------------
(* The environment *)

\* The activity's own commands reach the server (DeviceSync): they bring it
\* into service ...
Proceed ==
  /\ \E op \in {"arrive", "start_service"} :
       activity = Transition[op][1] /\ activity' = Transition[op][2]
  /\ UNCHANGED <<storeVars, submitted, submitting, appVars, rows, expired, proof, faults>>

\* ... or the driver fails it, also with evidence on its way already.
FailActivity ==
  /\ activity \in FailureAllowed
  /\ activity' = "FAILED"
  /\ UNCHANGED <<storeVars, submitted, submitting, appVars, rows, expired, proof, faults>>

\* A URL expires, 900 s after it was issued.
Expire(row) ==
  /\ row \notin expired /\ ~rows[row].confirmed
  /\ Fault
  /\ expired' = expired \cup {row}
  /\ UNCHANGED <<storeVars, submitted, submitting, appVars, rows, activity, proof>>

\* The app is closed; what is in SQLite stays.
Crash ==
  /\ Fault
  /\ submitting' = "no"
  /\ phase' = "idle" /\ todo' = {} /\ held' = None /\ attempt' = 1
  /\ UNCHANGED <<storeVars, submitted, serverVars>>

-----------------------------------------------------------------------------

Synchronize ==
  \/ StartSync \/ Load
  \/ Initiate \/ Upload \/ UploadRefused \/ Confirm
  \/ Finish \/ FinishRefused
  \/ Acknowledge \/ ReadFailed \/ SaveError

Next ==
  \/ Submit \/ CheckQueued \/ SaveQueued \/ AddCommand
  \/ Synchronize \/ RequestFails
  \/ Proceed \/ FailActivity
  \/ \E row \in DOMAIN rows : Expire(row)
  \/ Crash

\* The driver keeps synchronising, and brings the activity into service.
Fairness ==
  /\ WF_vars(Synchronize) /\ WF_vars(CheckQueued \/ SaveQueued \/ AddCommand) /\ WF_vars(Proceed)

Spec == Init /\ [][Next]_vars /\ Fairness

-----------------------------------------------------------------------------
(* Safety *)

\* A completed activity has a proof with evidence of every required kind, all
\* of it in the object store, whichever answers were lost on the way.
ProofBacked ==
  activity = "COMPLETED" =>
    /\ proof # None
    /\ \A r \in proof : rows[r].object
    /\ \A k \in Kinds : \E r \in proof : rows[r].kind = k

\* What the phone records of a file's progress the server has seen happen,
\* also in a manifest that a stale copy has overwritten.
ProgressIsTrue ==
  manifest # None => \A k \in Kinds :
    LET file == manifest.files[k]
    IN /\ file.stage = "none" \/ rows[file.row].submission = manifest.submission
       /\ file.stage \in {"uploaded", "confirmed"} => rows[file.row].object
       /\ file.stage = "confirmed" => rows[file.row].confirmed

(* Action properties *)

\* A request for upload leaves the outbox only for a completed activity.
DroppedWhenCompleted ==
  [][\A n \in outbox : n \notin outbox' => activity = "COMPLETED"]_vars

\* A file whose confirmation the server has recorded and the phone has saved
\* is not started over, whatever is interrupted (synchronizer.test.ts:9).
NotRepeated ==
  [][\A r \in DOMAIN rows' \ DOMAIN rows :
       ~ /\ manifest.submission = rows'[r].submission
         /\ manifest.files[rows'[r].kind].stage = "confirmed"]_vars

(* Liveness *)

\* Unless a URL expires or the driver fails the activity, after which its
\* completion is refused for ever (evidence.service.ts:153), every request for
\* upload is done with in the end.
UploadsFinish ==
  [](expired = {} /\ activity # "FAILED") => \A n \in Submissions : n \in outbox ~> n \notin outbox

-----------------------------------------------------------------------------
(* What the repository says and the code does not keep *)

\* No evidence is lost because the app is closed while it synchronises
\* (architecture.md:301): with a URL that expires meanwhile, it never arrives,
\* though the activity does not fail.
EvidenceArrives == \A n \in Submissions : n \in outbox ~> activity \in Final
=============================================================================
