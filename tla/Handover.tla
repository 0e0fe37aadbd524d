------------------------------ MODULE Handover ------------------------------
(***************************************************************************)
(* What the phone promises of whatever it records for the API, without     *)
(* requests, batches or retries: an item is made and held, it is settled   *)
(* at most once and for good, and the phone lets go of it only when it has *)
(* been settled.                                                           *)
(***************************************************************************)
CONSTANTS
  Items,
  Outcomes,  \* what an item may be settled with
  None       \* not settled

VARIABLES
  made,    \* the items recorded so far
  held,    \* those the phone still has
  outcome  \* what the other side settled each with

handoverVars == <<made, held, outcome>>

Init == made = {} /\ held = {} /\ outcome = [i \in Items |-> None]

Make(i) ==
  /\ i \notin made
  /\ made' = made \cup {i} /\ held' = held \cup {i}
  /\ UNCHANGED outcome

\* Only what is held can be settled: nothing is let go of before, and nothing
\* reaches the other side that was never made.
Settle(i, result) ==
  /\ i \in held /\ outcome[i] = None
  /\ outcome' = [outcome EXCEPT ![i] = result]
  /\ UNCHANGED <<made, held>>

Release(items) ==
  /\ \A i \in items : outcome[i] # None
  /\ held' = held \ items
  /\ UNCHANGED <<made, outcome>>

Next ==
  \/ \E i \in Items : Make(i)
  \/ \E i \in Items, result \in Outcomes : Settle(i, result)
  \/ \E items \in SUBSET held : Release(items)

Safe == Init /\ [][Next]_handoverVars
=============================================================================
