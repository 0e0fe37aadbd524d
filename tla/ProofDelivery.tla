--------------------------- MODULE ProofDelivery ----------------------------
(***************************************************************************)
(* What the proof pipeline promises, without events, queues, retries or    *)
(* callbacks: a proof that was requested is archived in the object store,  *)
(* only then announced as ready, and every requested proof gets there,     *)
(* unless it is abandoned, which takes trouble more than once.             *)
(***************************************************************************)
CONSTANT Proofs

VARIABLES
  stage,     \* of each proof: "none", "requested", "archived", "ready"
  troubled,  \* proofs the work on which has failed since it was begun
  abandoned  \* proofs nobody works on any more unless they are requested anew

vars == <<stage, troubled, abandoned>>

Init ==
  /\ stage = [p \in Proofs |-> "none"]
  /\ troubled = {} /\ abandoned = {}

Advance(p, from, to) ==
  /\ stage[p] = from
  /\ stage' = [stage EXCEPT ![p] = to]
  /\ UNCHANGED <<troubled, abandoned>>

Request(p) == Advance(p, "none", "requested")
Archive(p) == Advance(p, "requested", "archived")
Announce(p) == Advance(p, "archived", "ready")

\* The work fails, and is tried again ...
Trouble(p) ==
  /\ stage[p] # "none"
  /\ troubled' = troubled \cup {p}
  /\ UNCHANGED <<stage, abandoned>>

\* ... or begun anew ...
Restart(p) ==
  /\ stage[p] # "none"
  /\ troubled' = troubled \ {p}
  /\ UNCHANGED <<stage, abandoned>>

\* ... or, not for the first time, given up.
Abandon(p) ==
  /\ p \in troubled
  /\ abandoned' = abandoned \cup {p}
  /\ UNCHANGED <<stage, troubled>>

Next ==
  \E p \in Proofs :
    \/ Request(p) \/ Archive(p) \/ Announce(p)
    \/ Trouble(p) \/ Restart(p) \/ Abandon(p)

Fairness ==
  \A p \in Proofs : WF_vars(p \notin abandoned /\ (Archive(p) \/ Announce(p)))

Safe == Init /\ [][Next]_vars

Spec == Safe /\ Fairness
=============================================================================
