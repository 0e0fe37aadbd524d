--------------------------- MODULE EvidenceProofs ---------------------------
(***************************************************************************)
(* The safety of EvidenceUpload, for any number of submissions, attempts   *)
(* and faults.                                                             *)
(*                                                                         *)
(* What the phone holds is in two places, the manifest in SQLite and the   *)
(* copy a synchronisation works on, and either may overwrite the other.    *)
(* The invariants of the manifest are therefore stated of both             *)
(* (TruthInv, AcknowledgedInv), with one thing that relates them: a copy   *)
(* in work is not behind the manifest it was made of (AheadInv).           *)
(***************************************************************************)
EXTENDS EvidenceUpload, TLAPS

\* There is a manifest for whoever reads it, and a copy for whoever saves it.
StageInv ==
  /\ submitted # 0 => manifest # None
  /\ submitting # "no" => submitted # 0
  /\ phase # "idle" => manifest # None
  /\ phase \in {"files", "error"} => held # None

\* The server has seen the progress that m records.
True(m, known) ==
  m # None => \A k \in Kinds :
    /\ m.files[k].stage # "none" =>
         /\ m.files[k].row \in DOMAIN known
         /\ known[m.files[k].row].submission = m.submission
    /\ m.files[k].stage \in {"uploaded", "confirmed"} => known[m.files[k].row].object
    /\ m.files[k].stage = "confirmed" => known[m.files[k].row].confirmed

TruthInv == True(manifest, rows) /\ True(held, rows)

\* Only an object that exists is confirmed.
RowsInv == \A r \in DOMAIN rows : rows[r].confirmed => rows[r].object

AcknowledgedInv ==
  /\ manifest # None /\ manifest.status = "acknowledged" => activity = "COMPLETED"
  /\ held # None /\ held.status = "acknowledged" => activity = "COMPLETED"
  /\ phase = "acknowledge" => activity = "COMPLETED"

ProofInv == ProofBacked /\ (proof # None => proof \subseteq DOMAIN rows)

\* A file confirmed in the manifest is confirmed in the copy in work, if both
\* are of one submission.
AheadInv ==
  phase = "files" /\ manifest.submission = held.submission =>
    \A k \in Kinds : manifest.files[k].stage = "confirmed" =>
                     held.files[k].stage = "confirmed"

TypeInv == TypeOK /\ StageInv

IInv == TypeInv /\ TruthInv /\ RowsInv /\ AcknowledgedInv /\ ProofInv /\ AheadInv

-----------------------------------------------------------------------------
(* Manifests *)

LEMMA Bounds == MaxRows \in Nat /\ MaxSubmissions \in Nat /\ Submissions \subseteq Nat \ {0}
  BY EvidenceAssumption DEF MaxRows, Submissions

LEMMA FreshManifest ==
  ASSUME NEW n \in Submissions, NEW m, m = Fresh(n) \/ m = [Fresh(n) EXCEPT !.status = "queued"]
  PROVE  /\ m \in Manifest /\ m # None
         /\ m.status # "acknowledged"
         /\ \A k \in Kinds : m.files[k].stage = "none"
  <1>1. 0 \in 0..MaxRows
    BY Bounds
  <1>2. [k \in Kinds |-> [stage |-> "none", row |-> 0]]
          \in [Kinds -> [stage : Stages, row : 0..MaxRows]]
    BY <1>1 DEF Stages
  <1>3. m.status \in {"local", "queued"}
    BY DEF Fresh
  <1>4. /\ m = [submission |-> n, status |-> m.status,
                files |-> [k \in Kinds |-> [stage |-> "none", row |-> 0]]]
    BY DEF Fresh
  <1>5. m \in Manifest
    BY <1>2, <1>3, <1>4 DEF Manifest
  <1>6. \A k \in Kinds : m.files[k].stage = "none"
    BY <1>4
  <1> QED
    BY <1>3, <1>5, <1>6, EvidenceAssumption

LEMMA FileIsKind == File \in Kinds
  BY DEF File, Kinds

LEMMA SavedFile ==
  ASSUME held \in Manifest, NEW stage \in Stages, NEW row \in 0..MaxRows,
         SaveFile(stage, row)
  PROVE  /\ manifest' = held' /\ held' \in Manifest /\ held' # None
         /\ held'.submission = held.submission /\ held'.status = "queued"
         /\ held'.files[File] = [stage |-> stage, row |-> row]
         /\ \A k \in Kinds \ {File} : held'.files[k] = held.files[k]
  <1> DEFINE entry == [stage |-> stage, row |-> row]
             new == [submission |-> held.submission, status |-> "queued",
                     files |-> [held.files EXCEPT ![File] = entry]]
             between == [held EXCEPT !.status = "queued"]
  <1>1. held.files \in [Kinds -> [stage : Stages, row : 0..MaxRows]]
    BY DEF Manifest
  <1>2. entry \in [stage : Stages, row : 0..MaxRows]
    OBVIOUS
  <1>3. between = [submission |-> held.submission, status |-> "queued", files |-> held.files]
    BY DEF Manifest
  <1>4. held' = [between EXCEPT !.files[File] = entry]
    BY DEF SaveFile
  <1>5. held' = new
    <2> HIDE DEF entry
    <2>1. [between EXCEPT !.files[File] = entry]
            = [between EXCEPT !.files = [between.files EXCEPT ![File] = entry]]
      OBVIOUS
    <2> QED
      BY <1>3, <1>4, <2>1
  <1> HIDE DEF between, entry
  <1>6. [held.files EXCEPT ![File] = entry] \in [Kinds -> [stage : Stages, row : 0..MaxRows]]
    BY <1>1, <1>2
  <1>7. held' \in Manifest
    BY <1>5, <1>6 DEF Manifest
  <1>8. held'.files[File] = entry /\ \A k \in Kinds \ {File} : held'.files[k] = held.files[k]
    BY <1>1, <1>5, FileIsKind
  <1> QED
    BY <1>5, <1>7, <1>8, EvidenceAssumption DEF SaveFile, entry

LEMMA WithStatus ==
  ASSUME NEW m \in Manifest, NEW status \in {"local", "queued", "acknowledged", "error"}
  PROVE  LET new == [m EXCEPT !.status = status]
         IN /\ new \in Manifest /\ new # None /\ new.status = status
            /\ new.submission = m.submission /\ new.files = m.files
  BY EvidenceAssumption DEF Manifest

-----------------------------------------------------------------------------
(* Rows *)

\* Nothing the server has recorded is taken back.
Grown(old, new) ==
  /\ DOMAIN old \subseteq DOMAIN new
  /\ \A r \in DOMAIN old :
       /\ new[r].submission = old[r].submission /\ new[r].kind = old[r].kind
       /\ old[r].object => new[r].object
       /\ old[r].confirmed => new[r].confirmed

LEMMA TruthGrows ==
  ASSUME NEW m, NEW old, NEW new, True(m, old), Grown(old, new)
  PROVE  True(m, new)
  BY DEF True, Grown

LEMMA AppendedRow ==
  ASSUME TypeOK, Len(rows) < MaxRows, NEW row \in Row, rows' = Append(rows, row)
  PROVE  /\ rows' \in Seq(Row) /\ Len(rows') <= MaxRows /\ Len(rows') \in 1..MaxRows
         /\ Len(rows') \in DOMAIN rows' /\ rows'[Len(rows')] = row
         /\ DOMAIN rows' = DOMAIN rows \cup {Len(rows')}
         /\ \A r \in DOMAIN rows : rows'[r] = rows[r]
         /\ Grown(rows, rows')
  <1>1. rows \in Seq(Row) /\ Len(rows) \in Nat
    BY DEF TypeOK
  <1>2. rows' \in Seq(Row) /\ Len(rows') = Len(rows) + 1
    BY <1>1
  <1>3. rows'[Len(rows')] = row /\ \A r \in 1..Len(rows) : rows'[r] = rows[r]
    BY <1>1, <1>2
  <1>4. DOMAIN rows = 1..Len(rows) /\ DOMAIN rows' = 1..Len(rows')
    BY <1>1, <1>2
  <1>5. Len(rows') <= MaxRows /\ Len(rows') \in 1..MaxRows
    BY <1>1, <1>2, Bounds
  <1>6. 1..Len(rows') = 1..Len(rows) \cup {Len(rows')}
    BY <1>1, <1>2
  <1>7. Grown(rows, rows')
    BY <1>3, <1>4, <1>6 DEF Grown
  <1> QED
    BY <1>2, <1>3, <1>4, <1>5, <1>6, <1>7

LEMMA ChangedRow ==
  ASSUME TypeOK, NEW row \in DOMAIN rows, NEW new \in Row,
         new.kind = rows[row].kind, new.submission = rows[row].submission,
         rows[row].object => new.object, rows[row].confirmed => new.confirmed,
         rows' = [rows EXCEPT ![row] = new]
  PROVE  /\ rows' \in Seq(Row) /\ Len(rows') = Len(rows)
         /\ DOMAIN rows' = DOMAIN rows /\ rows'[row] = new
         /\ \A r \in DOMAIN rows \ {row} : rows'[r] = rows[r]
         /\ Grown(rows, rows')
  <1>1. rows \in Seq(Row) /\ row \in 1..Len(rows)
    BY DEF TypeOK
  <1>2. rows' \in Seq(Row) /\ Len(rows') = Len(rows) /\ DOMAIN rows' = DOMAIN rows
    BY <1>1
  <1>3. rows'[row] = new /\ \A r \in DOMAIN rows \ {row} : rows'[r] = rows[r]
    BY <1>1
  <1> QED
    BY <1>2, <1>3 DEF Grown

LEMMA WithObject ==
  ASSUME TypeOK, NEW row \in DOMAIN rows, rows' = [rows EXCEPT ![row].object = TRUE]
  PROVE  /\ rows' \in Seq(Row) /\ Len(rows') = Len(rows) /\ DOMAIN rows' = DOMAIN rows
         /\ rows'[row].object
         /\ \A r \in DOMAIN rows : rows'[r].confirmed = rows[r].confirmed
         /\ Grown(rows, rows')
  <1> DEFINE new == [rows[row] EXCEPT !.object = TRUE]
  <1>1. rows[row] \in Row
    BY DEF TypeOK
  <1>2. new \in Row
    BY <1>1 DEF Row
  <1>3. /\ new.kind = rows[row].kind /\ new.submission = rows[row].submission
        /\ new.object /\ new.confirmed = rows[row].confirmed
    BY <1>1 DEF Row
  <1>4. rows' = [rows EXCEPT ![row] = new]
    OBVIOUS
  <1> HIDE DEF new
  <1> QED
    BY <1>2, <1>3, <1>4, ChangedRow

LEMMA WithConfirmed ==
  ASSUME TypeOK, NEW row \in DOMAIN rows, rows' = [rows EXCEPT ![row].confirmed = TRUE]
  PROVE  /\ rows' \in Seq(Row) /\ Len(rows') = Len(rows) /\ DOMAIN rows' = DOMAIN rows
         /\ rows'[row].confirmed /\ rows'[row].object = rows[row].object
         /\ \A r \in DOMAIN rows \ {row} : rows'[r] = rows[r]
         /\ Grown(rows, rows')
  <1> DEFINE new == [rows[row] EXCEPT !.confirmed = TRUE]
  <1>1. rows[row] \in Row
    BY DEF TypeOK
  <1>2. new \in Row
    BY <1>1 DEF Row
  <1>3. /\ new.kind = rows[row].kind /\ new.submission = rows[row].submission
        /\ new.object = rows[row].object /\ new.confirmed
    BY <1>1 DEF Row
  <1>4. rows' = [rows EXCEPT ![row] = new]
    OBVIOUS
  <1> HIDE DEF new
  <1> QED
    BY <1>2, <1>3, <1>4, ChangedRow

-----------------------------------------------------------------------------
(* Init *)

LEMMA InitIInv == Init => IInv
  <1> SUFFICES ASSUME Init PROVE IInv
    OBVIOUS
  <1>1. TypeOK
    <2>1. rows \in Seq(Row) /\ Len(rows) = 0 /\ DOMAIN rows = {}
      BY DEF Init
    <2>2. 1 \in 1..Attempts /\ 0 \in 0..MaxSubmissions /\ 0 \in 0..MaxFaults
      BY Bounds, EvidenceAssumption
    <2>3. outbox \subseteq 1..submitted /\ todo \subseteq Submissions
      BY DEF Init
    <2>4. Len(rows) <= MaxRows /\ expired \subseteq DOMAIN rows
      BY <2>1, Bounds DEF Init
    <2> QED
      BY <2>1, <2>2, <2>3, <2>4 DEF Init, TypeOK
  <1>2. StageInv
    BY DEF Init, StageInv
  <1>3. TruthInv /\ RowsInv
    BY DEF Init, TruthInv, True, RowsInv
  <1>4. AcknowledgedInv /\ ProofInv /\ AheadInv
    BY DEF Init, AcknowledgedInv, ProofInv, ProofBacked, AheadInv, UnderWay
  <1> QED
    BY <1>1, <1>2, <1>3, <1>4 DEF IInv, TypeInv

-----------------------------------------------------------------------------
(* Steps that leave the server alone *)

\* What the invariants of the server's state depend on.
LEMMA ServerUnchanged ==
  ASSUME IInv, UNCHANGED serverVars
  PROVE  RowsInv' /\ ProofInv'
  BY DEF IInv, RowsInv, ProofInv, ProofBacked, serverVars

\* A new manifest claims nothing.
LEMMA FreshClaimsNothing ==
  ASSUME IInv, UNCHANGED <<phase, held, serverVars>>,
         NEW n \in Submissions,
         manifest' = Fresh(n) \/ manifest' = [Fresh(n) EXCEPT !.status = "queued"]
  PROVE  /\ manifest' \in Manifest /\ manifest' # None
         /\ TruthInv' /\ RowsInv' /\ AcknowledgedInv' /\ ProofInv' /\ AheadInv'
  <1>1. /\ manifest' \in Manifest /\ manifest' # None /\ manifest'.status # "acknowledged"
        /\ \A k \in Kinds : manifest'.files[k].stage = "none"
    BY FreshManifest
  <1>2. TruthInv'
    BY <1>1 DEF IInv, TruthInv, True, serverVars
  <1>3. AcknowledgedInv'
    BY <1>1 DEF IInv, AcknowledgedInv, serverVars
  <1>4. AheadInv'
    BY <1>1 DEF AheadInv
  <1> QED
    BY <1>1, <1>2, <1>3, <1>4, ServerUnchanged

LEMMA SubmitStep == ASSUME IInv, Submit PROVE IInv'
  <1>1. submitted + 1 \in Submissions /\ submitted' = submitted + 1
    BY Bounds DEF IInv, TypeInv, TypeOK, Submit, Submissions
  <1>2. /\ manifest' \in Manifest /\ manifest' # None
        /\ TruthInv' /\ RowsInv' /\ AcknowledgedInv' /\ ProofInv' /\ AheadInv'
    BY <1>1, FreshClaimsNothing DEF Submit, appVars
  <1>3. outbox' \subseteq 1..submitted' /\ submitted' \in 0..MaxSubmissions /\ submitted' # 0
    BY <1>1, Bounds DEF IInv, TypeInv, TypeOK, Submit, Submissions
  <1>4. TypeOK'
    BY <1>2, <1>3 DEF IInv, TypeInv, TypeOK, Submit, appVars, serverVars
  <1>5. StageInv'
    BY <1>2, <1>3 DEF IInv, TypeInv, StageInv, Submit, appVars
  <1> QED
    BY <1>2, <1>4, <1>5 DEF IInv, TypeInv

LEMMA CheckQueuedStep == ASSUME IInv, CheckQueued PROVE IInv'
  <1>1. TypeInv'
    BY DEF IInv, TypeInv, TypeOK, StageInv, CheckQueued, storeVars, appVars, serverVars
  <1>2. TruthInv' /\ AcknowledgedInv' /\ AheadInv'
    BY DEF IInv, TruthInv, True, AcknowledgedInv, AheadInv, CheckQueued, storeVars, appVars,
           serverVars
  <1> QED
    BY <1>1, <1>2, ServerUnchanged DEF IInv, CheckQueued

LEMMA SaveQueuedStep == ASSUME IInv, SaveQueued PROVE IInv'
  <1>1. submitted \in Submissions
    BY Bounds DEF IInv, TypeInv, TypeOK, StageInv, SaveQueued, Submissions
  <1>2. /\ manifest' \in Manifest /\ manifest' # None
        /\ TruthInv' /\ RowsInv' /\ AcknowledgedInv' /\ ProofInv' /\ AheadInv'
    BY <1>1, FreshClaimsNothing DEF SaveQueued, appVars
  <1>3. TypeOK'
    BY <1>2 DEF IInv, TypeInv, TypeOK, SaveQueued, appVars, serverVars
  <1>4. StageInv'
    BY <1>2 DEF IInv, TypeInv, StageInv, SaveQueued, appVars
  <1> QED
    BY <1>2, <1>3, <1>4 DEF IInv, TypeInv

LEMMA AddCommandStep == ASSUME IInv, AddCommand PROVE IInv'
  <1>1. submitted \in 1..submitted
    BY Bounds DEF IInv, TypeInv, TypeOK, StageInv, AddCommand
  <1>2. TypeInv'
    BY <1>1 DEF IInv, TypeInv, TypeOK, StageInv, AddCommand, appVars, serverVars
  <1>3. TruthInv' /\ AcknowledgedInv' /\ AheadInv'
    BY DEF IInv, TruthInv, True, AcknowledgedInv, AheadInv, AddCommand, appVars, serverVars
  <1> QED
    BY <1>2, <1>3, ServerUnchanged DEF IInv, AddCommand

LEMMA StartSyncStep == ASSUME IInv, StartSync PROVE IInv'
  <1>1. outbox \subseteq Submissions /\ submitted # 0 /\ 1 \in 1..Attempts
    <2>1. PICK n : n \in outbox
      BY DEF StartSync
    <2>2. outbox \subseteq 1..submitted /\ submitted \in 0..MaxSubmissions
      BY DEF IInv, TypeInv, TypeOK
    <2>3. n \in 1..submitted
      BY <2>1, <2>2
    <2>4. submitted # 0
      BY <2>2, <2>3
    <2>5. 1..submitted \subseteq Submissions
      BY <2>2, Bounds DEF Submissions
    <2> QED
      BY <2>2, <2>4, <2>5, EvidenceAssumption
  <1>2. TypeInv'
    BY <1>1 DEF IInv, TypeInv, TypeOK, StageInv, StartSync, storeVars, serverVars
  <1>3. TruthInv' /\ AcknowledgedInv' /\ AheadInv'
    BY DEF IInv, TruthInv, True, AcknowledgedInv, AheadInv, StartSync, storeVars, serverVars
  <1> QED
    BY <1>2, <1>3, ServerUnchanged DEF IInv, StartSync

LEMMA LoadStep == ASSUME IInv, Load PROVE IInv'
  <1>1. manifest # None /\ held' = manifest
    BY DEF IInv, TypeInv, StageInv, Load, Copy
  <1>2. TypeInv'
    BY <1>1 DEF IInv, TypeInv, TypeOK, StageInv, Load, storeVars, serverVars
  <1>3. TruthInv' /\ AcknowledgedInv'
    BY <1>1 DEF IInv, TruthInv, True, AcknowledgedInv, Load, storeVars, serverVars
  <1>4. AheadInv'
    BY <1>1 DEF AheadInv, Load, storeVars
  <1> QED
    BY <1>2, <1>3, <1>4, ServerUnchanged DEF IInv, Load

-----------------------------------------------------------------------------
(* Requests *)

\* What a request leaves of the server, whichever it is.
ServerTyped ==
  /\ rows' \in Seq(Row) /\ Len(rows') <= MaxRows /\ Grown(rows, rows')
  /\ UNCHANGED expired
  /\ activity' \in UnderWay \cup Final
  /\ activity = "COMPLETED" => activity' = "COMPLETED"
  /\ proof' \in (SUBSET (1..MaxRows)) \cup {None}

\* The answer is lost, or was an error: the phone knows what it knew.
LEMMA FailedRequest ==
  ASSUME IInv, phase = "files", Fail, ServerTyped, faults' \in 0..MaxFaults,
         UNCHANGED <<storeVars, submitted, submitting, todo, held>>
  PROVE  TypeInv' /\ TruthInv' /\ AcknowledgedInv' /\ AheadInv'
  <1>1. attempt' \in 1..Attempts /\ phase' \in {"load", "failed"}
    BY EvidenceAssumption DEF IInv, TypeInv, TypeOK, Fail, MayRetry
  <1>2. expired' \subseteq DOMAIN rows'
    BY DEF IInv, TypeInv, TypeOK, ServerTyped, Grown
  <1>3. TypeOK'
    BY <1>1, <1>2 DEF IInv, TypeInv, TypeOK, ServerTyped, storeVars
  <1>4. StageInv'
    BY <1>1 DEF IInv, TypeInv, StageInv, storeVars
  <1>5. TruthInv'
    BY TruthGrows DEF IInv, TruthInv, ServerTyped, storeVars
  <1>6. AcknowledgedInv' /\ AheadInv'
    BY <1>1 DEF IInv, AcknowledgedInv, AheadInv, ServerTyped, storeVars
  <1> QED
    BY <1>3, <1>4, <1>5, <1>6 DEF TypeInv

\* The answer arrives, and the copy is saved with the file's new stage.
LEMMA SavedProgress ==
  ASSUME IInv, phase = "files", ServerTyped, Answered,
         NEW stage \in Stages \ {"none"}, NEW row \in 1..MaxRows, SaveFile(stage, row),
         row \in DOMAIN rows', rows'[row].submission = held.submission,
         stage \in {"uploaded", "confirmed"} => rows'[row].object,
         stage = "confirmed" => rows'[row].confirmed
  PROVE  TypeInv' /\ TruthInv' /\ AcknowledgedInv' /\ AheadInv'
  <1>1. held \in Manifest /\ row \in 0..MaxRows
    BY Bounds DEF IInv, TypeInv, TypeOK, StageInv
  <1>2. /\ manifest' = held' /\ held' \in Manifest /\ held' # None
        /\ held'.submission = held.submission /\ held'.status = "queued"
        /\ held'.files[File] = [stage |-> stage, row |-> row]
        /\ \A k \in Kinds \ {File} : held'.files[k] = held.files[k]
    BY <1>1, SavedFile
  <1>3. expired' \subseteq DOMAIN rows'
    BY DEF IInv, TypeInv, TypeOK, ServerTyped, Grown
  <1>4. TypeOK'
    BY <1>2, <1>3 DEF IInv, TypeInv, TypeOK, ServerTyped, Answered
  <1>5. StageInv'
    BY <1>2 DEF IInv, TypeInv, StageInv, Answered
  <1>6. True(held', rows')
    <2>1. True(held, rows')
      BY TruthGrows DEF IInv, TruthInv, ServerTyped
    <2>2. held # None
      BY DEF IInv, TypeInv, StageInv
    <2> SUFFICES ASSUME NEW k \in Kinds
                 PROVE  LET file == held'.files[k]
                        IN /\ file.stage # "none" =>
                                /\ file.row \in DOMAIN rows'
                                /\ rows'[file.row].submission = held'.submission
                           /\ file.stage \in {"uploaded", "confirmed"} => rows'[file.row].object
                           /\ file.stage = "confirmed" => rows'[file.row].confirmed
      BY DEF True
    <2>3. CASE k = File
      BY <1>2, <2>3
    <2>4. CASE k # File
      BY <1>2, <2>1, <2>2, <2>4 DEF True
    <2> QED
      BY <2>3, <2>4
  <1>7. TruthInv'
    BY <1>2, <1>6 DEF TruthInv
  <1>8. AcknowledgedInv' /\ AheadInv'
    BY <1>2 DEF AcknowledgedInv, AheadInv, Answered
  <1> QED
    BY <1>4, <1>5, <1>7, <1>8 DEF TypeInv

\* Rows that grow keep the proof of a completed activity.
LEMMA ProofKept ==
  ASSUME IInv, Grown(rows, rows'), UNCHANGED <<activity, proof>>
  PROVE  ProofInv'
  BY DEF IInv, ProofInv, ProofBacked, Grown

LEMMA FaultTyped == ASSUME IInv, Fault PROVE faults' \in 0..MaxFaults
  BY EvidenceAssumption DEF IInv, TypeInv, TypeOK, Fault

LEMMA FileKnown ==
  ASSUME IInv, phase = "files", held.files[File].stage # "none"
  PROVE  LET row == held.files[File].row
         IN /\ row \in DOMAIN rows /\ row \in 1..MaxRows
            /\ rows[row].submission = held.submission
            /\ held.files[File].stage = "uploaded" => rows[row].object
  <1>1. held # None /\ held.files[File].row \in DOMAIN rows
    BY FileIsKind DEF IInv, TypeInv, StageInv, TruthInv, True
  <1>2. DOMAIN rows = 1..Len(rows) /\ Len(rows) \in Nat /\ Len(rows) <= MaxRows
    BY DEF IInv, TypeInv, TypeOK
  <1>3. held.files[File].row \in 1..MaxRows
    BY <1>1, <1>2, Bounds
  <1> QED
    BY <1>1, <1>3, FileIsKind DEF IInv, TruthInv, True

LEMMA InitiateStep == ASSUME IInv, Initiate PROVE IInv'
  <1> DEFINE new == [kind |-> File, submission |-> held.submission,
                     object |-> FALSE, confirmed |-> FALSE]
             row == Len(rows')
  <1>1. held \in Manifest /\ phase = "files"
    BY DEF IInv, TypeInv, TypeOK, StageInv, Initiate, At
  <1>2. new \in Row
    BY <1>1, FileIsKind DEF Row, Manifest
  <1>3. rows' = Append(rows, new) /\ Len(rows) < MaxRows
    BY DEF Initiate
  <1>4. /\ new.submission = held.submission /\ ~new.confirmed
    OBVIOUS
  <1> HIDE DEF new
  <1>5. /\ rows' \in Seq(Row) /\ Len(rows') <= MaxRows /\ row \in 1..MaxRows
        /\ row \in DOMAIN rows' /\ rows'[row] = new
        /\ DOMAIN rows' = DOMAIN rows \cup {row}
        /\ \A r \in DOMAIN rows : rows'[r] = rows[r]
        /\ Grown(rows, rows')
    BY <1>2, <1>3, AppendedRow DEF IInv, TypeInv
  <1> HIDE DEF row
  <1>6. RowsInv' /\ ProofInv'
    <2>1. RowsInv'
      BY <1>4, <1>5 DEF IInv, RowsInv
    <2> QED
      BY <2>1, <1>5, ProofKept DEF Initiate
  <1>7. ServerTyped
    BY <1>5 DEF IInv, TypeInv, TypeOK, ServerTyped, Initiate
  <1>8. CASE Answered /\ SaveFile("initiated", row)
    BY <1>1, <1>4, <1>5, <1>6, <1>7, <1>8, SavedProgress DEF IInv, Stages
  <1>9. CASE Lost
    BY <1>1, <1>6, <1>7, <1>9, FailedRequest, FaultTyped DEF IInv, Lost
  <1> QED
    BY <1>8, <1>9 DEF Initiate, row

LEMMA UploadStep == ASSUME IInv, Upload PROVE IInv'
  <1> DEFINE row == held.files[File].row
  <1>1. phase = "files" /\ held.files[File].stage = "initiated"
    BY DEF Upload, At
  <1>2. /\ row \in DOMAIN rows /\ row \in 1..MaxRows
        /\ rows[row].submission = held.submission
    BY <1>1, FileKnown
  <1>3. rows' = [rows EXCEPT ![row].object = TRUE]
    BY DEF Upload
  <1> HIDE DEF row
  <1>4. /\ rows' \in Seq(Row) /\ Len(rows') = Len(rows) /\ DOMAIN rows' = DOMAIN rows
        /\ rows'[row].object
        /\ \A r \in DOMAIN rows : rows'[r].confirmed = rows[r].confirmed
        /\ Grown(rows, rows')
    BY <1>2, <1>3, WithObject DEF IInv, TypeInv
  <1>5. RowsInv'
    BY <1>4 DEF IInv, RowsInv, Grown
  <1>6. ProofInv'
    BY <1>4, ProofKept DEF Upload
  <1>7. ServerTyped
    BY <1>4 DEF IInv, TypeInv, TypeOK, ServerTyped, Upload
  <1>8. rows'[row].submission = held.submission
    BY <1>2, <1>4 DEF Grown
  <1>9. CASE Answered /\ SaveFile("uploaded", row)
    BY <1>1, <1>2, <1>4, <1>5, <1>6, <1>7, <1>8, <1>9, SavedProgress DEF IInv, Stages
  <1>10. CASE Lost
    BY <1>1, <1>5, <1>6, <1>7, <1>10, FailedRequest, FaultTyped DEF IInv, Lost
  <1> QED
    BY <1>9, <1>10 DEF Upload, row

LEMMA ConfirmStep == ASSUME IInv, Confirm PROVE IInv'
  <1> DEFINE row == held.files[File].row
  <1>1. phase = "files" /\ held.files[File].stage = "uploaded"
    BY DEF Confirm, At
  <1>2. /\ row \in DOMAIN rows /\ row \in 1..MaxRows
        /\ rows[row].submission = held.submission /\ rows[row].object
    BY <1>1, FileKnown
  <1>3. rows' = [rows EXCEPT ![row].confirmed = TRUE]
    BY DEF Confirm
  <1> HIDE DEF row
  <1>4. /\ rows' \in Seq(Row) /\ Len(rows') = Len(rows) /\ DOMAIN rows' = DOMAIN rows
        /\ rows'[row].confirmed /\ rows'[row].object = rows[row].object
        /\ \A r \in DOMAIN rows \ {row} : rows'[r] = rows[r]
        /\ Grown(rows, rows')
    BY <1>2, <1>3, WithConfirmed DEF IInv, TypeInv
  <1>5. RowsInv'
    BY <1>2, <1>4 DEF IInv, RowsInv
  <1>6. ProofInv'
    BY <1>4, ProofKept DEF Confirm
  <1>7. ServerTyped
    BY <1>4 DEF IInv, TypeInv, TypeOK, ServerTyped, Confirm
  <1>8. rows'[row].submission = held.submission /\ rows'[row].object
    BY <1>2, <1>4 DEF Grown
  <1>9. CASE Answered /\ SaveFile("confirmed", row)
    BY <1>1, <1>2, <1>4, <1>5, <1>6, <1>7, <1>8, <1>9, SavedProgress DEF IInv, Stages
  <1>10. CASE Lost
    BY <1>1, <1>5, <1>6, <1>7, <1>10, FailedRequest, FaultTyped DEF IInv, Lost
  <1> QED
    BY <1>9, <1>10 DEF Confirm, row

\* A request that changes nothing on the server.
LEMMA NothingServed ==
  ASSUME IInv, UNCHANGED serverVars
  PROVE  ServerTyped /\ RowsInv' /\ ProofInv'
  <1>1. Grown(rows, rows)
    BY DEF Grown
  <1>2. ServerTyped
    BY <1>1 DEF IInv, TypeInv, TypeOK, ServerTyped, serverVars
  <1> QED
    BY <1>2, ServerUnchanged

LEMMA RefusedStep ==
  ASSUME IInv, UploadRefused \/ FinishRefused \/ RequestFails
  PROVE  IInv'
  <1>1. /\ phase = "files" /\ Fail /\ UNCHANGED serverVars
        /\ UNCHANGED <<storeVars, submitted, submitting, todo, held>>
    BY DEF UploadRefused, FinishRefused, RequestFails, Lost, At
  <1>2. faults' \in 0..MaxFaults
    BY FaultTyped DEF IInv, TypeInv, TypeOK, UploadRefused, FinishRefused, RequestFails, Lost
  <1> QED
    BY <1>1, <1>2, FailedRequest, NothingServed DEF IInv

LEMMA FinishStep == ASSUME IInv, Finish PROVE IInv'
  <1>1. phase = "files" /\ held \in Manifest /\ held # None
    BY DEF IInv, TypeInv, TypeOK, StageInv, Finish
  <1>2. UNCHANGED <<rows, expired>> /\ Grown(rows, rows')
    BY DEF Finish, Grown
  <1>3. Confirmed \subseteq DOMAIN rows /\ Confirmed \in SUBSET (1..MaxRows)
    BY Bounds DEF IInv, TypeInv, TypeOK, Confirmed
  <1>4. activity' = "COMPLETED"
    BY DEF Finish, AlreadyCompleted
  <1>5. ServerTyped /\ RowsInv' /\ ProofInv'
    <2>1. CASE AlreadyCompleted /\ UNCHANGED <<activity, proof>>
      BY <1>2, <2>1, NothingServed DEF serverVars
    <2>2. CASE Completable /\ activity' = "COMPLETED" /\ proof' = Confirmed
      <3>1. ServerTyped
        BY <1>2, <1>3, <2>2 DEF IInv, TypeInv, TypeOK, ServerTyped, Final
      <3>2. RowsInv'
        BY <1>2 DEF IInv, RowsInv
      <3>3. proof' # None
        BY <1>3, <2>2, EvidenceAssumption
      <3>4. \A r \in proof' : rows'[r].object
        BY <1>2, <2>2 DEF IInv, RowsInv, Confirmed
      <3>5. \A k \in Kinds : \E r \in proof' : rows'[r].kind = k
        BY <1>2, <2>2 DEF Completable, EvidenceSuffices
      <3>6. proof' \subseteq DOMAIN rows'
        BY <1>2, <1>3, <2>2
      <3> QED
        BY <3>1, <3>2, <3>3, <3>4, <3>5, <3>6 DEF ProofInv, ProofBacked
    <2> QED
      BY <2>1, <2>2 DEF Finish
  <1>6. CASE /\ held' = [held EXCEPT !.status = "acknowledged"]
             /\ manifest' = held'
             /\ phase' = "acknowledge"
             /\ UNCHANGED <<outbox, submitted, submitting, todo, attempt, faults>>
    <2>1. /\ held' \in Manifest /\ held' # None /\ held'.files = held.files
          /\ held'.submission = held.submission
      BY <1>1, <1>6, WithStatus
    <2>2. TypeOK'
      BY <1>2, <1>5, <1>6, <2>1 DEF IInv, TypeInv, TypeOK, ServerTyped
    <2>3. StageInv'
      BY <1>6, <2>1 DEF IInv, TypeInv, StageInv
    <2>4. TruthInv'
      BY <1>1, <1>2, <1>6, <2>1 DEF IInv, TruthInv, True
    <2>5. AcknowledgedInv' /\ AheadInv'
      BY <1>4, <1>6 DEF AcknowledgedInv, AheadInv
    <2> QED
      BY <1>5, <2>2, <2>3, <2>4, <2>5 DEF IInv, TypeInv
  <1>7. CASE Lost
    BY <1>1, <1>5, <1>7, FailedRequest, FaultTyped DEF IInv, Lost
  <1> QED
    BY <1>6, <1>7 DEF Finish

-----------------------------------------------------------------------------
(* The end of a command, and the environment *)

LEMMA AcknowledgeStep == ASSUME IInv, Acknowledge PROVE IInv'
  <1>1. 1 \in 1..Attempts
    BY EvidenceAssumption
  <1>2. TypeInv'
    BY <1>1 DEF IInv, TypeInv, TypeOK, StageInv, Acknowledge, NextCommand, serverVars
  <1>3. TruthInv' /\ AcknowledgedInv' /\ AheadInv'
    BY DEF IInv, TruthInv, True, AcknowledgedInv, AheadInv, Acknowledge, NextCommand, serverVars
  <1> QED
    BY <1>2, <1>3, ServerUnchanged DEF IInv, Acknowledge

LEMMA ReadFailedStep == ASSUME IInv, ReadFailed PROVE IInv'
  <1>1. manifest # None
    BY DEF IInv, TypeInv, StageInv, ReadFailed
  <1>2. TypeInv'
    BY <1>1 DEF IInv, TypeInv, TypeOK, StageInv, ReadFailed, storeVars, serverVars
  <1>3. TruthInv' /\ AcknowledgedInv' /\ AheadInv'
    BY DEF IInv, TruthInv, True, AcknowledgedInv, AheadInv, ReadFailed, storeVars, serverVars
  <1> QED
    BY <1>2, <1>3, ServerUnchanged DEF IInv, ReadFailed

LEMMA SaveErrorStep == ASSUME IInv, SaveError PROVE IInv'
  <1>1. held \in Manifest /\ held # None
    BY DEF IInv, TypeInv, TypeOK, StageInv, SaveError
  <1>2. /\ manifest' \in Manifest /\ manifest' # None /\ manifest'.status = "error"
        /\ manifest'.submission = held.submission /\ manifest'.files = held.files
    BY <1>1, WithStatus DEF SaveError
  <1>3. 1 \in 1..Attempts
    BY EvidenceAssumption
  <1>4. TypeInv'
    BY <1>2, <1>3 DEF IInv, TypeInv, TypeOK, StageInv, SaveError, CommandAfterError,
                      NextCommand, serverVars
  <1>5. TruthInv'
    BY <1>1, <1>2 DEF IInv, TruthInv, True, SaveError, NextCommand, serverVars
  <1>6. AcknowledgedInv' /\ AheadInv'
    BY <1>2 DEF AcknowledgedInv, AheadInv, SaveError, NextCommand
  <1> QED
    BY <1>4, <1>5, <1>6, ServerUnchanged DEF IInv, SaveError

\* Neither takes a completed activity anywhere, nor completes one.
LEMMA OwnCommandStep == ASSUME IInv, Proceed \/ FailActivity PROVE IInv'
  <1>1. /\ activity' \in UnderWay \cup Final
        /\ activity # "COMPLETED" /\ activity' # "COMPLETED"
        /\ UNCHANGED <<storeVars, submitted, submitting, appVars, rows, expired, proof, faults>>
    <2>1. CASE Proceed
      BY <2>1 DEF Proceed, Transition, UnderWay
    <2>2. CASE FailActivity
      BY <2>2 DEF FailActivity, FailureAllowed, Final
    <2> QED
      BY <2>1, <2>2
  <1>2. TypeInv'
    BY <1>1 DEF IInv, TypeInv, TypeOK, StageInv, storeVars, appVars
  <1>3. TruthInv' /\ RowsInv' /\ AcknowledgedInv' /\ AheadInv'
    BY <1>1 DEF IInv, TruthInv, True, RowsInv, AcknowledgedInv, AheadInv, storeVars, appVars
  <1>4. ProofInv'
    BY <1>1 DEF IInv, ProofInv, ProofBacked
  <1> QED
    BY <1>2, <1>3, <1>4 DEF IInv

LEMMA ExpireStep == ASSUME IInv, NEW row \in DOMAIN rows, Expire(row) PROVE IInv'
  <1>1. TypeInv'
    BY FaultTyped DEF IInv, TypeInv, TypeOK, StageInv, Expire, storeVars, appVars
  <1>2. TruthInv' /\ RowsInv' /\ AcknowledgedInv' /\ AheadInv'
    BY DEF IInv, TruthInv, True, RowsInv, AcknowledgedInv, AheadInv, Expire, storeVars, appVars
  <1>3. ProofInv'
    BY DEF IInv, ProofInv, ProofBacked, Expire
  <1> QED
    BY <1>1, <1>2, <1>3 DEF IInv

LEMMA CrashStep == ASSUME IInv, Crash PROVE IInv'
  <1>1. 1 \in 1..Attempts
    BY EvidenceAssumption
  <1>2. TypeInv'
    BY <1>1, FaultTyped DEF IInv, TypeInv, TypeOK, StageInv, Crash, storeVars, serverVars
  <1>3. TruthInv' /\ AcknowledgedInv' /\ AheadInv'
    BY DEF IInv, TruthInv, True, AcknowledgedInv, AheadInv, Crash, storeVars, serverVars
  <1> QED
    BY <1>2, <1>3, ServerUnchanged DEF IInv, Crash

LEMMA Unchanged == ASSUME IInv, UNCHANGED vars PROVE IInv'
  <1>1. TypeInv'
    BY DEF IInv, TypeInv, TypeOK, StageInv, vars, storeVars, appVars, serverVars
  <1>2. TruthInv' /\ AcknowledgedInv' /\ AheadInv'
    BY DEF IInv, TruthInv, True, AcknowledgedInv, AheadInv, vars, storeVars, appVars, serverVars
  <1> QED
    BY <1>1, <1>2, ServerUnchanged DEF IInv, vars

-----------------------------------------------------------------------------
(* The theorems *)

\* Every reachable state satisfies the inductive invariant (EvidenceUpload as a
\* whole: uploadQueue.ts, synchronizer.ts, coordinator.ts, evidence.service.ts).
THEOREM Invariance == Spec => []IInv
  <1>1. IInv /\ [Next]_vars => IInv'
    <2> SUFFICES ASSUME IInv, [Next]_vars PROVE IInv'
      OBVIOUS
    <2>1. CASE Submit \/ CheckQueued \/ SaveQueued \/ AddCommand
      BY <2>1, SubmitStep, CheckQueuedStep, SaveQueuedStep, AddCommandStep
    <2>2. CASE StartSync \/ Load
      BY <2>2, StartSyncStep, LoadStep
    <2>3. CASE Initiate \/ Upload \/ Confirm \/ Finish
      BY <2>3, InitiateStep, UploadStep, ConfirmStep, FinishStep
    <2>4. CASE UploadRefused \/ FinishRefused \/ RequestFails
      BY <2>4, RefusedStep
    <2>5. CASE Acknowledge \/ ReadFailed \/ SaveError
      BY <2>5, AcknowledgeStep, ReadFailedStep, SaveErrorStep
    <2>6. CASE Proceed \/ FailActivity \/ Crash
      BY <2>6, OwnCommandStep, CrashStep
    <2>7. CASE \E row \in DOMAIN rows : Expire(row)
      BY <2>7, ExpireStep
    <2>8. CASE UNCHANGED vars
      BY <2>8, Unchanged
    <2> QED
      BY <2>1, <2>2, <2>3, <2>4, <2>5, <2>6, <2>7, <2>8 DEF Next, Synchronize
  <1> QED
    BY <1>1, InitIInv, PTL DEF Spec

\* Every variable of EvidenceUpload keeps its type.
THEOREM TypeCorrect == Spec => []TypeOK
  <1>1. IInv => TypeOK
    BY DEF IInv, TypeInv
  <1> QED
    BY <1>1, Invariance, PTL

\* A completed activity has a proof whose evidence is of every required kind and
\* in the object store (evidence.service.ts, completeActivity).
THEOREM ProofHolds == Spec => []ProofBacked
  <1>1. IInv => ProofBacked
    BY DEF IInv, ProofInv
  <1> QED
    BY <1>1, Invariance, PTL

\* The progress the manifest records has happened on the server
\* (synchronizer.ts, saveFile; coordinator.ts:95).
THEOREM ProgressHolds == Spec => []ProgressIsTrue
  <1>1. IInv => ProgressIsTrue
    BY DEF IInv, TruthInv, True, ProgressIsTrue
  <1> QED
    BY <1>1, Invariance, PTL

\* A request for upload leaves the outbox only for a completed activity
\* (coordinator.ts:92).
THEOREM DroppedHolds == Spec => DroppedWhenCompleted
  <1>1. IInv /\ [Next]_vars =>
          [\A n \in outbox : n \notin outbox' => activity = "COMPLETED"]_vars
    <2> SUFFICES ASSUME IInv, Next, NEW n \in outbox, n \notin outbox'
                 PROVE  activity = "COMPLETED"
      OBVIOUS
    <2>1. Acknowledge
      BY DEF Next, Synchronize, Submit, CheckQueued, SaveQueued, AddCommand, StartSync, Load,
             Initiate, Upload, UploadRefused, Confirm, Finish, FinishRefused, RequestFails,
             ReadFailed, SaveError, CommandAfterError, Proceed, FailActivity, Expire, Crash, Answered, Lost,
             storeVars
    <2> QED
      BY <2>1 DEF IInv, AcknowledgedInv, Acknowledge
  <1> QED
    BY <1>1, Invariance, PTL DEF Spec, DroppedWhenCompleted

\* A row is created only for a file that the manifest does not hold confirmed
\* (synchronizer.ts:7).
THEOREM NotRepeatedHolds == Spec => NotRepeated
  <1>1. IInv /\ [Next]_vars =>
          [\A r \in DOMAIN rows' \ DOMAIN rows :
             ~ /\ manifest.submission = rows'[r].submission
               /\ manifest.files[rows'[r].kind].stage = "confirmed"]_vars
    <2> SUFFICES ASSUME IInv, Next, NEW r \in DOMAIN rows' \ DOMAIN rows,
                        manifest.submission = rows'[r].submission
                 PROVE  manifest.files[rows'[r].kind].stage # "confirmed"
      OBVIOUS
    <2>1. rows # rows'
      OBVIOUS
    <2>2. Initiate \/ Upload \/ Confirm
      BY <2>1 DEF Next, Synchronize, Submit, CheckQueued, SaveQueued, AddCommand, StartSync, Load,
             UploadRefused, Finish, FinishRefused, RequestFails,
             Acknowledge, ReadFailed, SaveError, Proceed, FailActivity, Expire, Crash,
             serverVars
    <2>3. Initiate
      BY <2>2 DEF Upload, Confirm, IInv, TypeInv, TypeOK
    <2> DEFINE new == [kind |-> File, submission |-> held.submission,
                       object |-> FALSE, confirmed |-> FALSE]
    <2>4. rows' = Append(rows, new) /\ Len(rows) < MaxRows
      BY <2>3 DEF Initiate
    <2>5. held \in Manifest /\ phase = "files" /\ held.files[File].stage = "none"
      BY <2>3 DEF IInv, TypeInv, TypeOK, StageInv, Initiate, At
    <2>6. new \in Row /\ new.kind = File /\ new.submission = held.submission
      BY <2>5, FileIsKind DEF Row, Manifest
    <2> HIDE DEF new
    <2>7. rows'[r] = new
      BY <2>4, <2>6, AppendedRow DEF IInv, TypeInv
    <2> QED
      BY <2>5, <2>6, <2>7, FileIsKind DEF IInv, AheadInv
  <1> QED
    BY <1>1, Invariance, PTL DEF Spec, NotRepeated
=============================================================================
