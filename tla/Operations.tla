----------------------------- MODULE Operations -----------------------------
(***************************************************************************)
(* The operations page of the dashboard (web/app/operacoes/page.tsx) in    *)
(* one browser: its rows, the dialogs that create an activity and assign   *)
(* one to a driver, and the requests they leave behind.                    *)
(*                                                                         *)
(* A dialog can be closed while its request is under way and another one   *)
(* opened: the flag that disables the button belongs to the dialog, the    *)
(* request keeps the activity it was confirmed for, and a success closes   *)
(* the dialog of its kind that is open by then.                            *)
(***************************************************************************)
EXTENDS Office

CONSTANTS
  Requests,  \* bound: requests of the dialogs under way, as slots
  Reads      \* bound: loads the page may have under way, as slots

VARIABLES
  rows,          \* activities the page shows with the Atribuir button
  dialog,        \* the open dialog: an activity to assign, "create", or None
  busy,          \* the dialog's saving flag
  requests,      \* what the dialogs have asked for, per slot
  refreshing,    \* the page's loading flag
  reads,         \* the loads under way, and the rows they read
  confirmed      \* history: the pairs of activity and driver confirmed

operationsFree == <<rows, dialog, busy, requests, refreshing, reads>>

operationsVars == <<operationsFree, confirmed>>

Request == [activity : Activities \cup {"create"}, driver : Drivers \cup {None},
            stage : {"sent", "done", "failed", "stray"}, ofDialog : BOOLEAN]

Read == [answered : BOOLEAN, rows : SUBSET Activities]

OperationsTypeOK ==
  /\ rows \subseteq Activities
  /\ dialog \in Activities \cup {"create", None}
  /\ {busy, refreshing} \subseteq BOOLEAN
  /\ requests \in [Requests -> Request \cup {None}]
  /\ reads \in [Reads -> Read \cup {None}]
  /\ confirmed \subseteq Activities \X Drivers

OperationsInit ==
  /\ rows = Awaiting
  /\ dialog = None /\ busy = FALSE
  /\ requests = [q \in Requests |-> None]
  /\ refreshing = FALSE /\ reads = [l \in Reads |-> None]
  /\ confirmed = {}

-----------------------------------------------------------------------------
(* load *)

BeginRead(l) ==
  /\ reads[l] = None /\ l = CHOOSE k \in Reads : reads[k] = None
  /\ reads' = [reads EXCEPT ![l] = [answered |-> FALSE, rows |-> {}]]
  /\ refreshing' = TRUE

\* The buttons that refresh are disabled while the page is loading.  Bound:
\* they leave a slot for the load of a success.
PressRevalidate(l) ==
  /\ ~refreshing
  /\ \E k \in Reads \ {l} : reads[k] = None
  /\ BeginRead(l)
  /\ UNCHANGED <<officeVars, faults, rows, dialog, busy, requests, confirmed>>

ReadRows(l) ==
  /\ reads[l] # None /\ ~reads[l].answered
  /\ reads' = [reads EXCEPT ![l] = [answered |-> TRUE, rows |-> Awaiting]]
  /\ UNCHANGED <<officeVars, faults, rows, dialog, busy, requests, refreshing, confirmed>>

RowsArrive(l) ==
  /\ reads[l] # None /\ reads[l].answered
  /\ rows' = reads[l].rows
  /\ reads' = [reads EXCEPT ![l] = None]
  /\ refreshing' = FALSE
  /\ UNCHANGED <<officeVars, faults, dialog, busy, requests, confirmed>>

RowsFail(l) ==
  /\ reads[l] # None
  /\ Fault
  /\ reads' = [reads EXCEPT ![l] = None]
  /\ refreshing' = FALSE
  /\ UNCHANGED <<officeVars, rows, dialog, busy, requests, confirmed>>

-----------------------------------------------------------------------------
(* The dialogs *)

\* Atribuir on a row, or Nova atividade.
OpenDialog(subject) ==
  /\ dialog = None
  /\ subject \in rows \cup {"create"}
  /\ dialog' = subject /\ busy' = FALSE
  /\ UNCHANGED <<officeVars, faults, rows, requests, refreshing, reads, confirmed>>

\* No dialog stays open: nothing its requests do from now on shows in one.
Detached == [q \in Requests |-> IF requests[q] = None THEN None
                               ELSE [requests[q] EXCEPT !.ofDialog = FALSE]]

\* Cancelar, or a click beside the dialog, is possible while it is saving.
CloseDialog ==
  /\ dialog # None
  /\ dialog' = None /\ busy' = FALSE
  /\ requests' = Detached
  /\ UNCHANGED <<officeVars, faults, rows, refreshing, reads, confirmed>>

Ask(q, activity, driver) ==
  /\ ~busy /\ requests[q] = None
  /\ busy' = TRUE
  /\ requests' = [requests EXCEPT ![q] = [activity |-> activity, driver |-> driver,
                                        stage |-> "sent", ofDialog |-> TRUE]]
  /\ UNCHANGED <<officeVars, faults, rows, dialog, refreshing, reads>>

\* Confirmar atribuicao: the request is for the activity of this dialog.
ConfirmAssign(q, d) ==
  /\ dialog \in Activities
  /\ Ask(q, dialog, d)
  /\ confirmed' = confirmed \cup {<<dialog, d>>}

\* Bound: an id is left for the activity.
ConfirmCreate(q) ==
  /\ dialog = "create"
  /\ \E a \in Activities : status[a] = "none"
  /\ \A p \in Requests : requests[p] # None => requests[p].activity # "create"
  /\ Ask(q, "create", None)
  /\ UNCHANGED confirmed

RequestIs(q, stage) == requests' = [requests EXCEPT ![q].stage = stage]

\* Assigns whatever the page shows by now (mutant of Subject).
SubjectShown(q) == IF dialog \in Activities THEN dialog ELSE requests[q].activity

\* The activity a request is about.
Subject(q) == requests[q].activity

\* The API answers a request; nobody learns of the answer to a stray one.
Answered(q, accepted) ==
  requests' = [requests EXCEPT ![q] =
    IF @.stage = "stray" THEN None
    ELSE [@ EXCEPT !.stage = IF accepted THEN "done" ELSE "failed"]]

ServeRequest(q) ==
  /\ requests[q] # None /\ requests[q].stage \in {"sent", "stray"}
  /\ \/ /\ Subject(q) = "create"
        /\ \E a \in Activities : CreateActivity(a)
        /\ Answered(q, TRUE)
     \/ /\ Subject(q) # "create" /\ MayAssign(Subject(q))
        /\ AssignActivity(Subject(q), requests[q].driver)
        /\ Answered(q, TRUE)
     \/ /\ Subject(q) # "create" /\ ~MayAssign(Subject(q))
        /\ Answered(q, FALSE)
        /\ UNCHANGED officeVars
  /\ UNCHANGED <<faults, rows, dialog, busy, refreshing, reads, confirmed>>

\* The request does not arrive, or its answer does not ...
RequestLost(q) ==
  /\ requests[q] # None /\ requests[q].stage \in {"sent", "done"}
  /\ Fault
  /\ RequestIs(q, "failed")
  /\ UNCHANGED <<officeVars, rows, dialog, busy, refreshing, reads, confirmed>>

\* Leaves the button disabled (mutant of Released).
ReleasedNever(q) == busy

\* finally: the flag of the dialog the request came from, if it is open still.
Released(q) == IF requests[q].ofDialog THEN FALSE ELSE busy

\* ... or the page gives it up before it arrives.
RequestStrays(q) ==
  /\ requests[q] # None /\ requests[q].stage = "sent"
  /\ Fault
  /\ requests' = [requests EXCEPT ![q].stage = "stray", ![q].ofDialog = FALSE]
  /\ busy' = Released(q)
  /\ UNCHANGED <<officeVars, rows, dialog, refreshing, reads, confirmed>>

OfKind(subject, q) == (subject = "create") = (Subject(q) = "create")

\* setAssigning(undefined) or setCreating(false), whichever dialog of the kind
\* that closes, the banner, and a load.
RequestSucceeds(q, l) ==
  /\ requests[q] # None /\ requests[q].stage = "done"
  /\ IF dialog # None /\ OfKind(dialog, q)
       THEN /\ dialog' = None /\ busy' = FALSE
            /\ requests' = [Detached EXCEPT ![q] = None]
       ELSE /\ UNCHANGED <<dialog, busy>>
            /\ requests' = [requests EXCEPT ![q] = None]
  /\ BeginRead(l)
  /\ UNCHANGED <<officeVars, faults, rows, confirmed>>

RequestRefused(q) ==
  /\ requests[q] # None /\ requests[q].stage = "failed"
  /\ busy' = Released(q)
  /\ requests' = [requests EXCEPT ![q] = None]
  /\ UNCHANGED <<officeVars, faults, rows, dialog, refreshing, reads, confirmed>>

-----------------------------------------------------------------------------

Operator ==
  \/ \E l \in Reads : PressRevalidate(l)
  \/ \E subject \in Activities \cup {"create"} : OpenDialog(subject)
  \/ CloseDialog
  \/ \E q \in Requests : ConfirmCreate(q) \/ \E d \in Drivers : ConfirmAssign(q, d)

RequestAnswer(q) ==
  ServeRequest(q) \/ RequestRefused(q) \/ \E l \in Reads : RequestSucceeds(q, l)

ReadAnswer(l) == ReadRows(l) \/ RowsArrive(l)

OperationsNext ==
  \/ Operator
  \/ \E q \in Requests : RequestAnswer(q) \/ RequestLost(q) \/ RequestStrays(q)
  \/ \E l \in Reads : ReadAnswer(l) \/ RowsFail(l)
=============================================================================
