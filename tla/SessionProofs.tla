--------------------------- MODULE SessionProofs ---------------------------
(***************************************************************************)
(* The safety of Session, for any number of synchronisations, tokens and   *)
(* faults.                                                                 *)
(*                                                                         *)
(* StoredAccepted needs to know that what an answer or a login brings to   *)
(* the store is accepted, or has been ended, and stays so whatever the     *)
(* provider replaces meanwhile (ComingInv): nobody asks with a token that  *)
(* has not been stored yet.  LeftStaysOut needs to know that nothing which *)
(* could save a token survives a quiet logout (OutInv).                    *)
(* ThrownOutForAReason needs to know what a synchronisation that nothing   *)
(* overlapped asks with: the token of the store (AloneInv), which by       *)
(* StoredAccepted is accepted or lost.                                     *)
(***************************************************************************)
EXTENDS Session, TLAPS

\* A login is only under way on the login screen, and a logout is on it alone.
ScreenInv ==
  /\ login # None => screen = "login"
  /\ leaving # "no" => screen = "login" /\ login = None

\* Nothing is under way that could save a token before the next login does.
OutInv ==
  out => /\ vault = None /\ Alone /\ screen = "login"
         /\ login = None \/ login.stage = "exchanged"

Holds(s) == At(s, "discover") \/ At(s, "ask")

\* What has been exchanged for a code and is not in the store yet.
Exchanged == login # None /\ login.stage = "exchanged"

\* Nobody asks with it, and it is not in the store.
Untaken(token) ==
  /\ vault # None => vault.refresh # token
  /\ \A k \in Syncs : syncs[k] # None => syncs[k].refresh # token

\* What is on its way to the store is accepted, or was ended ...
ComingAccepted ==
  rotation # "sometimes" =>
    /\ \A s \in Syncs : At(s, "granted") => syncs[s].brought \in valid \cup lost
    /\ Exchanged => login.refresh \in valid \cup lost

\* ... and the provider does not replace it before it gets there.
ComingFresh ==
  rotation = "always" =>
    /\ \A s \in Syncs : At(s, "granted") => Untaken(syncs[s].brought)
    /\ \A s \in Syncs : \A k \in Syncs \ {s} :
         At(s, "granted") /\ At(k, "granted") => syncs[s].brought # syncs[k].brought
    /\ Exchanged => Untaken(login.refresh)
    /\ \A s \in Syncs : At(s, "granted") /\ Exchanged => syncs[s].brought # login.refresh

ComingInv == ComingAccepted /\ ComingFresh

\* A synchronisation that nothing overlapped is alone, and asks with the token
\* of the store; if it is refused, that token was lost.
AloneInv ==
  \A s \in Syncs :
    syncs[s] # None /\ syncs[s].alone =>
      /\ \A k \in Syncs \ {s} : syncs[k] = None
      /\ login = None /\ leaving = "no"
      /\ Holds(s) => vault # None /\ vault.refresh = syncs[s].refresh
      /\ At(s, "refused") /\ rotation # "sometimes" => syncs[s].refresh \in lost

\* What a refresh asks with, or brings, is a token.
TokensHeld ==
  \A s \in Syncs :
    /\ Holds(s) \/ At(s, "granted") => syncs[s].refresh \in Tokens
    /\ At(s, "granted") => syncs[s].brought \in Tokens

TypeInv == TypeOK /\ TokensHeld

IInv == TypeInv /\ StoredAccepted /\ ComingInv /\ ScreenInv /\ OutInv /\ AloneInv

-----------------------------------------------------------------------------
(* What the updates of `syncs' do *)

LEMMA NoneIsNone == \A x \in Sync : x # None
  BY SessionAssumption

LEMMA ToMoves ==
  ASSUME TypeOK, NEW s \in Syncs, syncs[s] # None, NEW stage \in Stages, To(s, stage)
  PROVE  /\ syncs' \in [Syncs -> Sync \cup {None}]
         /\ syncs'[s] # None
         /\ syncs'[s] = [syncs[s] EXCEPT !.stage = stage]
         /\ syncs'[s].stage = stage /\ syncs'[s].alone = syncs[s].alone
         /\ syncs'[s].refresh = syncs[s].refresh /\ syncs'[s].brought = syncs[s].brought
         /\ \A k \in Syncs \ {s} : syncs'[k] = syncs[k]
  <1>1. syncs \in [Syncs -> Sync \cup {None}] /\ syncs[s] \in Sync
    BY DEF TypeOK
  <1>2. syncs' = [syncs EXCEPT ![s] = [syncs[s] EXCEPT !.stage = stage]]
    BY DEF To
  <1>3. [syncs[s] EXCEPT !.stage = stage] \in Sync
    BY <1>1 DEF Sync
  <1>4. /\ [syncs[s] EXCEPT !.stage = stage].stage = stage
        /\ [syncs[s] EXCEPT !.stage = stage].alone = syncs[s].alone
        /\ [syncs[s] EXCEPT !.stage = stage].refresh = syncs[s].refresh
        /\ [syncs[s] EXCEPT !.stage = stage].brought = syncs[s].brought
    BY <1>1 DEF Sync
  <1>5. syncs'[s] = [syncs[s] EXCEPT !.stage = stage]
    BY <1>1, <1>2
  <1> QED
    BY <1>1, <1>2, <1>3, <1>4, <1>5, NoneIsNone

Takes(s, stage, token) ==
  syncs' = [syncs EXCEPT ![s].stage = stage, ![s].refresh = token]

LEMMA TakesMoves ==
  ASSUME TypeOK, NEW s \in Syncs, syncs[s] # None, NEW stage \in Stages,
         NEW token \in Tokens, Takes(s, stage, token)
  PROVE  /\ syncs' \in [Syncs -> Sync \cup {None}]
         /\ syncs'[s] # None
         /\ syncs'[s].stage = stage /\ syncs'[s].alone = syncs[s].alone
         /\ syncs'[s].refresh = token
         /\ \A k \in Syncs \ {s} : syncs'[k] = syncs[k]
  <1> DEFINE new == [stage |-> stage, refresh |-> token, brought |-> syncs[s].brought,
                     alone |-> syncs[s].alone]
  <1>1. syncs \in [Syncs -> Sync \cup {None}] /\ syncs[s] \in Sync
    BY DEF TypeOK
  <1>2. new \in Sync
    BY <1>1 DEF Sync
  <1>3. syncs' = [syncs EXCEPT ![s] = new]
    <2> DEFINE between == [syncs EXCEPT ![s].stage = stage]
    <2>1. between[s] = [stage |-> stage, refresh |-> syncs[s].refresh,
                        brought |-> syncs[s].brought, alone |-> syncs[s].alone]
      BY <1>1 DEF Sync
    <2>2. between \in [Syncs -> Sync \cup {None}]
      BY <1>1, <2>1 DEF Sync
    <2>3. syncs' = [between EXCEPT ![s].refresh = token]
      BY DEF Takes
    <2>4. [between[s] EXCEPT !.refresh = token] = new
      BY <2>1
    <2>5. syncs' = [between EXCEPT ![s] = new]
      BY <2>3, <2>4
    <2> QED
      BY <1>1, <2>5
  <1>4. syncs'[s] = new
    BY <1>1, <1>3
  <1> HIDE DEF new
  <1>5. /\ syncs' \in [Syncs -> Sync \cup {None}] /\ syncs'[s] # None
        /\ \A k \in Syncs \ {s} : syncs'[k] = syncs[k]
    BY <1>1, <1>2, <1>3, <1>4, NoneIsNone
  <1> QED
    BY <1>4, <1>5 DEF new

Brings(s, token) ==
  syncs' = [syncs EXCEPT ![s].stage = "granted", ![s].brought = token]

LEMMA BringsMoves ==
  ASSUME TypeOK, NEW s \in Syncs, syncs[s] # None, NEW token \in Tokens,
         Brings(s, token)
  PROVE  /\ syncs' \in [Syncs -> Sync \cup {None}]
         /\ syncs'[s] # None
         /\ At(s, "granted")' /\ syncs'[s].alone = syncs[s].alone
         /\ syncs'[s].refresh = syncs[s].refresh /\ syncs'[s].brought = token
         /\ \A k \in Syncs \ {s} : syncs'[k] = syncs[k]
  <1> DEFINE new == [stage |-> "granted", refresh |-> syncs[s].refresh, brought |-> token,
                     alone |-> syncs[s].alone]
  <1>1. syncs \in [Syncs -> Sync \cup {None}] /\ syncs[s] \in Sync
    BY DEF TypeOK
  <1>2. new \in Sync
    BY <1>1 DEF Sync, Stages
  <1>3. syncs' = [syncs EXCEPT ![s] = new]
    <2> DEFINE between == [syncs EXCEPT ![s].stage = "granted"]
    <2>1. between[s] = [stage |-> "granted", refresh |-> syncs[s].refresh,
                        brought |-> syncs[s].brought, alone |-> syncs[s].alone]
      BY <1>1 DEF Sync
    <2>2. between \in [Syncs -> Sync \cup {None}]
      BY <1>1, <2>1 DEF Sync, Stages
    <2>3. syncs' = [between EXCEPT ![s].brought = token]
      BY DEF Brings
    <2>4. [between[s] EXCEPT !.brought = token] = new
      BY <2>1
    <2>5. syncs' = [between EXCEPT ![s] = new]
      BY <2>3, <2>4
    <2> QED
      BY <1>1, <2>5
  <1>4. syncs'[s] = new
    BY <1>1, <1>3
  <1> HIDE DEF new
  <1>5. /\ syncs' \in [Syncs -> Sync \cup {None}] /\ syncs'[s] # None
        /\ \A k \in Syncs \ {s} : syncs'[k] = syncs[k]
    BY <1>1, <1>2, <1>3, <1>4, NoneIsNone
  <1> QED
    BY <1>4, <1>5 DEF new, At

\* A refresh that is granted brings a token: its own, or a new one.
LEMMA GrantBrings ==
  ASSUME TypeOK, NEW s \in Syncs, Grant(s)
  PROVE  \E token \in Tokens :
           /\ Brings(s, token)
           /\ \/ rotation # "always" /\ token = syncs[s].refresh /\ UNCHANGED <<valid, lost>>
              \/ rotation # "never" /\ token \notin InUse /\ Issue(token, {syncs[s].refresh})
  <1>1. CASE rotation # "always" /\ Brings(s, syncs[s].refresh) /\ UNCHANGED <<valid, lost>>
    BY <1>1 DEF Grant, TypeOK
  <1>2. CASE rotation # "never" /\ \E token \in Tokens \ InUse :
                Issue(token, {syncs[s].refresh}) /\ Brings(s, token)
    BY <1>2
  <1> QED
    BY <1>1, <1>2 DEF Grant, Brings

LEMMA CrowdedCrowds ==
  ASSUME TypeOK
  PROVE  /\ Crowded \in [Syncs -> Sync \cup {None}]
         /\ \A k \in Syncs : Crowded[k] = None <=> syncs[k] = None
         /\ \A k \in Syncs : syncs[k] # None =>
              /\ Crowded[k].stage = syncs[k].stage /\ ~Crowded[k].alone
              /\ Crowded[k].refresh = syncs[k].refresh /\ Crowded[k].brought = syncs[k].brought
  <1>1. syncs \in [Syncs -> Sync \cup {None}]
    BY DEF TypeOK
  <1> SUFFICES ASSUME NEW k \in Syncs
               PROVE  /\ Crowded[k] \in Sync \cup {None}
                      /\ Crowded[k] = None <=> syncs[k] = None
                      /\ syncs[k] # None =>
                           /\ Crowded[k].stage = syncs[k].stage /\ ~Crowded[k].alone
                           /\ Crowded[k].refresh = syncs[k].refresh
                           /\ Crowded[k].brought = syncs[k].brought
    BY DEF Crowded
  <1>2. CASE syncs[k] = None
    BY <1>2 DEF Crowded
  <1>3. CASE syncs[k] # None
    <2>1. syncs[k] \in Sync /\ Crowded[k] = [syncs[k] EXCEPT !.alone = FALSE]
      BY <1>1, <1>3 DEF Crowded
    <2>2. Crowded[k] \in Sync
      BY <2>1 DEF Sync
    <2>3. /\ Crowded[k].stage = syncs[k].stage /\ ~Crowded[k].alone
          /\ Crowded[k].refresh = syncs[k].refresh /\ Crowded[k].brought = syncs[k].brought
      BY <2>1 DEF Sync
    <2> QED
      BY <1>3, <2>2, <2>3, NoneIsNone
  <1> QED
    BY <1>2, <1>3

LEMMA EndEnds ==
  ASSUME TypeOK, NEW s \in Syncs, End(s)
  PROVE  /\ syncs' \in [Syncs -> Sync \cup {None}]
         /\ syncs'[s] = None
         /\ \A k \in Syncs \ {s} : syncs'[k] = syncs[k]
  BY DEF TypeOK, End

-----------------------------------------------------------------------------
(* The types *)

LEMMA InitType == Init => TypeInv
  <1> SUFFICES ASSUME Init PROVE TypeInv
    OBVIOUS
  <1>1. TypeOK
    <2>1. {running, signedIn, syncing, drawn, told, out} \subseteq BOOLEAN
      BY DEF Init
    <2>2. 0 \in 0..MaxFaults
      BY SessionAssumption
    <2> QED
      BY <2>1, <2>2 DEF Init, TypeOK, Quiet
  <1>2. TokensHeld
    BY DEF Init, Quiet, TokensHeld, Holds, At
  <1> QED
    BY <1>1, <1>2 DEF TypeInv

LEMMA FaultCounts == TypeOK /\ Fault => faults' \in 0..MaxFaults
  BY SessionAssumption DEF TypeOK, Fault

\* A step that moves one synchronisation keeps the tokens of the others.
LEMMA OthersHold ==
  ASSUME TokensHeld, NEW s \in Syncs, \A k \in Syncs \ {s} : syncs'[k] = syncs[k],
         (Holds(s) \/ At(s, "granted"))' => syncs'[s].refresh \in Tokens,
         At(s, "granted")' => syncs'[s].brought \in Tokens
  PROVE  TokensHeld'
  BY DEF TokensHeld, Holds, At

LEMMA SyncType ==
  ASSUME TypeInv, NEW s \in Syncs,
         \/ Press(s) \/ LoadTokens(s) \/ Discover(s) \/ Grant(s) \/ Refuse(s) \/ SaveTokens(s)
         \/ ClearTokens(s) \/ Expire(s) \/ Finish(s) \/ Unreachable(s)
  PROVE  TypeInv'
  <1>a. TypeOK /\ TokensHeld
    BY DEF TypeInv
  <1>1. CASE Press(s)
    <2> DEFINE new == [stage |-> "load", refresh |-> None, brought |-> None,
                       alone |-> Alone /\ login = None /\ leaving = "no"]
    <2>1. new \in Sync
      BY DEF Sync, Stages, Alone
    <2>2. syncs' = [Crowded EXCEPT ![s] = new] /\ new.stage = "load"
      BY <1>1 DEF Press
    <2> HIDE DEF new
    <2>3. /\ syncs' \in [Syncs -> Sync \cup {None}] /\ syncs'[s] = new
          /\ \A k \in Syncs \ {s} : syncs'[k] = Crowded[k]
      BY <1>a, <2>1, <2>2, CrowdedCrowds
    <2>4. faults' \in 0..MaxFaults
      BY <1>1, <1>a, FaultCounts DEF Press, TypeOK, providerVars
    <2>5. TypeOK'
      BY <1>1, <1>a, <2>3, <2>4 DEF Press, TypeOK, providerVars
    <2>6. ASSUME NEW k \in Syncs, (Holds(k) \/ At(k, "granted"))'
          PROVE  /\ k # s /\ syncs[k] # None /\ syncs'[k].stage = syncs[k].stage
                 /\ syncs'[k].refresh = syncs[k].refresh
                 /\ syncs'[k].brought = syncs[k].brought
      BY <1>a, <2>2, <2>3, <2>6, CrowdedCrowds DEF Holds, At
    <2>7. TokensHeld'
      BY <1>a, <2>6 DEF TokensHeld, Holds, At
    <2> QED
      BY <2>5, <2>7 DEF TypeInv
  <1>2. CASE LoadTokens(s)
    <2>1. CASE vault # None /\ ~vault.fresh
               /\ Takes(s, "discover", vault.refresh)
      <3>1. vault.refresh \in Tokens
        BY <1>a, <2>1 DEF TypeOK, providerVars, TokenSet
      <3> QED
        BY <1>2, <1>a, <2>1, <3>1, TakesMoves, OthersHold
        DEF LoadTokens, At, Stages, TypeOK, providerVars, TypeInv
    <2>2. CASE \E stage \in {"missing", "use"} : To(s, stage)
      <3>1. syncs[s] # None
        BY <1>2 DEF LoadTokens, At
      <3>2. PICK stage \in {"missing", "use"} : To(s, stage)
        BY <2>2
      <3>3. /\ syncs' \in [Syncs -> Sync \cup {None}]
            /\ syncs'[s].stage = stage
            /\ \A k \in Syncs \ {s} : syncs'[k] = syncs[k]
        BY <1>a, <3>1, <3>2, ToMoves DEF Stages
      <3>4. TokensHeld'
        BY <1>a, <3>2, <3>3, OthersHold DEF Holds, At
      <3> QED
        BY <1>2, <1>a, <3>3, <3>4 DEF LoadTokens, TypeOK, providerVars, TypeInv
    <2> QED
      BY <1>2, <2>1, <2>2 DEF LoadTokens, Takes
  <1>3. CASE Discover(s)
    <2>1. /\ syncs' \in [Syncs -> Sync \cup {None}]
          /\ syncs'[s].refresh = syncs[s].refresh
          /\ \A k \in Syncs \ {s} : syncs'[k] = syncs[k]
      BY <1>3, <1>a, ToMoves DEF Discover, At, Stages
    <2>2. syncs'[s].refresh \in Tokens
      BY <1>3, <1>a, <2>1 DEF Discover, TokensHeld, Holds
    <2>3. TokensHeld'
      BY <1>3, <1>a, <2>1, <2>2, ToMoves, OthersHold DEF Discover, At, Stages
    <2> QED
      BY <1>3, <1>a, <2>1, <2>3 DEF Discover, TypeOK, providerVars, TypeInv
  <1>4. CASE Grant(s)
    <2>1. PICK token \in Tokens :
             /\ Brings(s, token)
             /\ \/ rotation # "always" /\ token = syncs[s].refresh /\ UNCHANGED <<valid, lost>>
                \/ rotation # "never" /\ token \notin InUse
                   /\ Issue(token, {syncs[s].refresh})
      BY <1>4, <1>a, GrantBrings
    <2>2. /\ syncs' \in [Syncs -> Sync \cup {None}]
          /\ syncs'[s].refresh = syncs[s].refresh /\ syncs'[s].brought = token
          /\ \A k \in Syncs \ {s} : syncs'[k] = syncs[k]
      BY <1>4, <1>a, <2>1, BringsMoves DEF Grant, At
    <2>3. valid' \subseteq Tokens /\ lost' \subseteq Tokens
      BY <1>a, <2>1 DEF Issue, TypeOK, providerVars
    <2>4. syncs'[s].refresh \in Tokens
      BY <1>4, <1>a, <2>2 DEF Grant, TypeOK, providerVars
    <2>5. TokensHeld'
      BY <1>a, <2>2, <2>4, OthersHold
    <2> QED
      BY <1>4, <1>a, <2>2, <2>3, <2>5 DEF Grant, TypeOK, providerVars, TypeInv
  <1>5. CASE Refuse(s)
    <2>1. /\ syncs' \in [Syncs -> Sync \cup {None}] /\ syncs'[s].stage \in {"refused", "erred"}
          /\ \A k \in Syncs \ {s} : syncs'[k] = syncs[k]
      BY <1>5, <1>a, ToMoves DEF Refuse, At, Stages
    <2>2. faults' \in 0..MaxFaults
      BY <1>5, <1>a, FaultCounts DEF Refuse, TypeOK, providerVars
    <2>3. TokensHeld'
      BY <1>a, <2>1, OthersHold DEF Holds, At
    <2> QED
      BY <1>5, <1>a, <2>1, <2>2, <2>3 DEF Refuse, TypeOK, providerVars, TypeInv
  <1>6. CASE SaveTokens(s)
    <2>1. /\ syncs' \in [Syncs -> Sync \cup {None}] /\ syncs'[s].stage = "use"
          /\ \A k \in Syncs \ {s} : syncs'[k] = syncs[k]
      BY <1>6, <1>a, ToMoves DEF SaveTokens, At, Stages
    <2>2. vault' \in TokenSet
      BY <1>6, <1>a DEF SaveTokens, TokensHeld, TokenSet
    <2>3. TokensHeld'
      BY <1>a, <2>1, OthersHold DEF Holds, At
    <2> QED
      BY <1>6, <1>a, <2>1, <2>2, <2>3 DEF SaveTokens, TypeOK, providerVars, TypeInv
  <1>7. CASE ClearTokens(s)
    <2>1. /\ syncs' \in [Syncs -> Sync \cup {None}] /\ syncs'[s].stage = "expired"
          /\ \A k \in Syncs \ {s} : syncs'[k] = syncs[k]
      BY <1>7, <1>a, ToMoves DEF ClearTokens, At, Stages
    <2>2. TokensHeld'
      BY <1>a, <2>1, OthersHold DEF Holds, At
    <2> QED
      BY <1>7, <1>a, <2>1, <2>2 DEF ClearTokens, TypeOK, providerVars, TypeInv
  <1>8. CASE Expire(s)
    <2>1. TokensHeld'
      BY <1>8, <1>a, EndEnds, OthersHold DEF Expire, Holds, At
    <2> QED
      BY <1>8, <1>a, <2>1, EndEnds DEF Expire, End, TypeOK, providerVars, TypeInv
  <1>9. CASE Finish(s)
    <2>1. TokensHeld'
      BY <1>9, <1>a, EndEnds, OthersHold DEF Finish, Holds, At
    <2>2. told' \in BOOLEAN
      BY <1>9 DEF Finish, At
    <2> QED
      BY <1>9, <1>a, <2>1, <2>2, EndEnds DEF Finish, End, TypeOK, providerVars, TypeInv
  <1>10. CASE Unreachable(s)
    <2>1. /\ syncs' \in [Syncs -> Sync \cup {None}] /\ syncs'[s].stage = "failed"
          /\ \A k \in Syncs \ {s} : syncs'[k] = syncs[k]
      BY <1>10, <1>a, ToMoves DEF Unreachable, At, Stages
    <2>2. faults' \in 0..MaxFaults /\ lost' \subseteq Tokens
      BY <1>10, <1>a, FaultCounts DEF Unreachable, At, TypeOK, providerVars, ReplacedBy, TokensHeld
    <2>3. TokensHeld'
      BY <1>a, <2>1, OthersHold DEF Holds, At
    <2> QED
      BY <1>10, <1>a, <2>1, <2>2, <2>3 DEF Unreachable, TypeOK, providerVars, TypeInv
  <1> QED
    BY <1>1, <1>2, <1>3, <1>4, <1>5, <1>6, <1>7, <1>8, <1>9, <1>10

\* Company changes neither what a synchronisation asks with nor its stage.
LEMMA CrowdedHold ==
  ASSUME TypeInv, syncs' = Crowded
  PROVE  syncs' \in [Syncs -> Sync \cup {None}] /\ TokensHeld'
  <1>1. TypeOK /\ TokensHeld
    BY DEF TypeInv
  <1>2. ASSUME NEW k \in Syncs, (Holds(k) \/ At(k, "granted"))'
        PROVE  /\ syncs[k] # None /\ syncs'[k].stage = syncs[k].stage
               /\ syncs'[k].refresh = syncs[k].refresh
               /\ syncs'[k].brought = syncs[k].brought
    BY <1>1, <1>2, CrowdedCrowds DEF Holds, At
  <1> QED
    BY <1>1, <1>2, CrowdedCrowds DEF TokensHeld, Holds, At

LEMMA OtherType ==
  ASSUME TypeInv,
         \/ LoginSaves \/ LoginShows \/ LogoutClears \/ LogoutShows \/ Redraw
         \/ Exchange \/ PressLogout \/ Kill \/ Start \/ Age \/ SessionEnds
  PROVE  TypeInv'
  <1>a. TypeOK /\ TokensHeld
    BY DEF TypeInv
  <1>b. UNCHANGED syncs => TokensHeld'
    BY <1>a DEF TokensHeld, Holds, At
  <1>1. CASE LoginSaves
    <2>1. vault' \in TokenSet /\ login' \in [stage : {"exchanged", "saved"}, refresh : Tokens]
      BY <1>1, <1>a DEF LoginSaves, TypeOK, providerVars, TokenSet
    <2>2. out' \in BOOLEAN
      BY <1>1 DEF LoginSaves
    <2> QED
      BY <1>1, <1>a, <1>b, <2>1, <2>2 DEF LoginSaves, TypeOK, providerVars, TypeInv
  <1>2. CASE LoginShows
    BY <1>2, <1>a, <1>b DEF LoginShows, TypeOK, providerVars, TypeInv
  <1>3. CASE LogoutClears
    BY <1>3, <1>a, <1>b DEF LogoutClears, TypeOK, providerVars, TypeInv, Alone
  <1>4. CASE LogoutShows
    BY <1>4, <1>a, <1>b DEF LogoutShows, TypeOK, providerVars, TypeInv
  <1>5. CASE Redraw
    BY <1>5, <1>a, <1>b DEF Redraw, TypeOK, providerVars, TypeInv
  <1>6. CASE Exchange
    <2>1. login' \in [stage : {"exchanged", "saved"}, refresh : Tokens]
          /\ {valid', lost'} \subseteq SUBSET Tokens
      BY <1>6, <1>a DEF Exchange, Issue, TypeOK, providerVars
    <2>2. syncs' \in [Syncs -> Sync \cup {None}] /\ TokensHeld'
      BY <1>6, CrowdedHold DEF Exchange
    <2> QED
      BY <1>6, <1>a, <2>1, <2>2 DEF Exchange, TypeOK, providerVars, TypeInv
  <1>7. CASE PressLogout
    <2>1. faults' \in 0..MaxFaults
      BY <1>7, <1>a, FaultCounts DEF PressLogout, TypeOK, providerVars
    <2>2. syncs' \in [Syncs -> Sync \cup {None}] /\ TokensHeld'
      BY <1>7, CrowdedHold DEF PressLogout
    <2> QED
      BY <1>7, <1>a, <2>1, <2>2 DEF PressLogout, TypeOK, providerVars, TypeInv
  <1>8. CASE Kill
    <2>1. faults' \in 0..MaxFaults
      BY <1>8, <1>a, FaultCounts DEF Kill
    <2>2. lost' \subseteq Tokens
      BY <1>8, <1>a DEF Kill, TypeOK, providerVars, At, ReplacedBy, TokensHeld
    <2>3. TokensHeld'
      BY <1>8 DEF Kill, TokensHeld, Holds, At
    <2> QED
      BY <1>8, <1>a, <2>1, <2>2, <2>3 DEF Kill, TypeOK, providerVars, TypeInv
  <1>9. CASE Start
    BY <1>9, <1>a, <1>b DEF Start, TypeOK, providerVars, TypeInv
  <1>10. CASE Age
    <2>1. vault' \in TokenSet
      BY <1>10, <1>a DEF Age, TypeOK, providerVars, TokenSet
    <2> QED
      BY <1>10, <1>a, <1>b, <2>1 DEF Age, appVars, TypeOK, providerVars, TypeInv
  <1>11. CASE SessionEnds
    <2>1. faults' \in 0..MaxFaults
      BY <1>11, <1>a, FaultCounts DEF SessionEnds
    <2> QED
      BY <1>11, <1>a, <1>b, <2>1 DEF SessionEnds, appVars, TypeOK, providerVars, TypeInv
  <1> QED
    BY <1>1, <1>2, <1>3, <1>4, <1>5, <1>6, <1>7, <1>8, <1>9, <1>10, <1>11

-----------------------------------------------------------------------------
(* The token in the store, and what is on its way to it *)

\* A step that brings nothing nearer to the store.
LEMMA SameComing ==
  ASSUME TypeInv, StoredAccepted, ComingInv,
         \A k \in Syncs :
           /\ At(k, "granted")' <=> At(k, "granted")
           /\ At(k, "granted") => /\ syncs'[k].refresh = syncs[k].refresh
                                  /\ syncs'[k].brought = syncs[k].brought
           /\ syncs'[k] # None => \/ syncs[k] # None /\ syncs'[k].refresh = syncs[k].refresh
                                  \/ syncs'[k].refresh = None,
         vault' # None => vault # None /\ vault'.refresh = vault.refresh,
         Exchanged' => Exchanged /\ login'.refresh = login.refresh,
         UNCHANGED rotation, valid \cup lost \subseteq valid' \cup lost'
  PROVE  StoredAccepted' /\ ComingInv'
  <1>1. TypeOK /\ TokensHeld
    BY DEF TypeInv
  <1>2. StoredAccepted'
    BY DEF StoredAccepted, Replacing
  <1>3. ComingAccepted'
    BY DEF ComingInv, ComingAccepted
  <1>4. ASSUME NEW token \in Tokens, Untaken(token)
        PROVE  Untaken(token)'
    BY <1>4, SessionAssumption DEF Untaken
  <1>5. Exchanged => login.refresh \in Tokens
    BY <1>1 DEF Exchanged, TypeOK
  <1>6. \A k \in Syncs : At(k, "granted") => syncs[k].brought \in Tokens
    BY <1>1 DEF TokensHeld
  <1>7. ComingFresh'
    BY <1>4, <1>5, <1>6 DEF ComingInv, ComingFresh
  <1> QED
    BY <1>2, <1>3, <1>7 DEF ComingInv

\* One synchronisation moves, without an answer in hand afterwards; one it had
\* is lost.
LEMMA LeavesComing ==
  ASSUME TypeInv, StoredAccepted, ComingInv, NEW s \in Syncs,
         \A k \in Syncs \ {s} : syncs'[k] = syncs[k],
         ~At(s, "granted")',
         syncs'[s] # None => \/ syncs[s] # None /\ syncs'[s].refresh = syncs[s].refresh
                             \/ vault # None /\ syncs'[s].refresh = vault.refresh,
         vault' = vault \/ vault' = None,
         UNCHANGED <<rotation, valid, login>>,
         lost \cup ReplacedBy({s}) \subseteq lost'
  PROVE  StoredAccepted' /\ ComingInv'
  <1>1. ComingAccepted'
    BY DEF ComingInv, ComingAccepted, At, Exchanged
  <1>2. ASSUME vault' # None, rotation # "sometimes"
        PROVE  vault'.refresh \in valid' \cup lost' \cup Replacing'
    <2>1. vault' = vault /\ vault.refresh \in valid \cup lost \cup Replacing
      BY <1>2 DEF StoredAccepted
    <2>2. CASE vault.refresh \in valid \cup lost
      BY <2>1, <2>2
    <2>3. CASE vault.refresh \in Replacing
      <3>1. PICK k \in Syncs : At(k, "granted") /\ vault.refresh = syncs[k].refresh
        BY <2>3 DEF Replacing
      <3>2. CASE k # s
        BY <2>1, <3>1, <3>2 DEF Replacing, At
      <3>3. CASE k = s /\ syncs[s].brought # syncs[s].refresh
        BY <2>1, <3>1, <3>3 DEF ReplacedBy
      <3>4. CASE k = s /\ syncs[s].brought = syncs[s].refresh
        BY <1>2, <2>1, <3>1, <3>4 DEF ComingInv, ComingAccepted
      <3> QED
        BY <3>2, <3>3, <3>4
    <2> QED
      BY <2>1, <2>2, <2>3
  <1>3. StoredAccepted'
    BY <1>2 DEF StoredAccepted
  <1>4. \A token : Untaken(token) => Untaken(token)'
    BY DEF Untaken
  <1>5. \A k \in Syncs : At(k, "granted")' => At(k, "granted") /\ syncs'[k] = syncs[k]
    BY DEF At
  <1>6. Exchanged' <=> Exchanged
    BY DEF Exchanged
  <1>7. ComingFresh'
    BY <1>4, <1>5, <1>6 DEF ComingInv, ComingFresh
  <1> QED
    BY <1>1, <1>3, <1>7 DEF ComingInv

\* What a provider that always replaces takes out of use is on its way nowhere.
LEMMA GrantComing ==
  ASSUME TypeInv, StoredAccepted, ComingInv, NEW s \in Syncs, Grant(s)
  PROVE  StoredAccepted' /\ ComingInv'
  <1>a. TypeOK /\ TokensHeld
    BY DEF TypeInv
  <1>1. PICK token \in Tokens :
           /\ Brings(s, token)
           /\ \/ rotation # "always" /\ token = syncs[s].refresh /\ UNCHANGED <<valid, lost>>
              \/ rotation # "never" /\ token \notin InUse /\ Issue(token, {syncs[s].refresh})
    BY <1>a, GrantBrings
  <1>2. /\ syncs[s] # None /\ ~At(s, "granted") /\ syncs[s].refresh \in valid
        /\ UNCHANGED <<vault, rotation, login>>
    BY DEF Grant, At
  <1>3. /\ At(s, "granted")' /\ syncs'[s].refresh = syncs[s].refresh
        /\ syncs'[s].brought = token
        /\ \A k \in Syncs \ {s} : syncs'[k] = syncs[k]
    BY <1>a, <1>1, <1>2, BringsMoves
  <1>4. /\ Replacing \cup {syncs[s].refresh} \subseteq Replacing'
        /\ \A k \in Syncs \ {s} : At(k, "granted")' <=> At(k, "granted")
    <2>1. \A k \in Syncs \ {s} : At(k, "granted")' <=> At(k, "granted")
      BY <1>3 DEF At
    <2>2. \A k \in Syncs : At(k, "granted") => At(k, "granted")' /\ syncs'[k].refresh = syncs[k].refresh
      BY <1>2, <1>3, <2>1
    <2> QED
      BY <1>3, <2>1, <2>2 DEF Replacing
  <1>5. Exchanged' <=> Exchanged
    BY <1>2 DEF Exchanged
  <1>6. CASE rotation = "sometimes"
    BY <1>2, <1>6 DEF StoredAccepted, ComingInv, ComingAccepted, ComingFresh
  <1>7. CASE rotation = "never"
    <2>1. token = syncs[s].refresh /\ UNCHANGED <<valid, lost>>
      BY <1>1, <1>7
    <2>2. StoredAccepted'
      BY <1>2, <1>4, <2>1 DEF StoredAccepted
    <2>3. ComingAccepted'
      BY <1>2, <1>3, <1>4, <1>5, <2>1 DEF ComingInv, ComingAccepted
    <2> QED
      BY <1>2, <1>7, <2>2, <2>3 DEF ComingInv, ComingFresh
  <1>8. CASE rotation = "always"
    <2>1. /\ token \notin InUse /\ lost' = lost \cap InUse
          /\ valid' = ((valid \cap InUse) \ {syncs[s].refresh}) \cup {token}
      BY <1>1, <1>8 DEF Issue
    <2>2. /\ vault # None => vault.refresh \in InUse
          /\ login # None => login.refresh \in InUse
          /\ \A k \in Syncs : syncs[k] # None => syncs[k].refresh \in InUse
                                               /\ syncs[k].brought \in InUse
      BY DEF InUse
    <2>3. StoredAccepted'
      BY <1>2, <1>4, <2>1, <2>2 DEF StoredAccepted
    <2>4. \A x \in InUse : x \in valid \cup lost /\ x # syncs[s].refresh => x \in valid' \cup lost'
      BY <2>1
    <2>5. ASSUME NEW k \in Syncs \ {s}, At(k, "granted")
          PROVE  /\ syncs[k].brought \in InUse /\ syncs[k].brought # syncs[s].refresh
                 /\ syncs[k].brought \in valid \cup lost
      BY <1>2, <1>8, <2>2, <2>5 DEF ComingInv, ComingAccepted, ComingFresh, Untaken, At
    <2>6. ASSUME Exchanged
          PROVE  /\ login.refresh \in InUse /\ login.refresh # syncs[s].refresh
                 /\ login.refresh \in valid \cup lost
      BY <1>2, <1>8, <2>2, <2>6 DEF ComingInv, ComingAccepted, ComingFresh, Untaken, Exchanged
    <2>7. ComingAccepted'
      BY <1>2, <1>3, <1>4, <1>5, <2>1, <2>4, <2>5, <2>6 DEF ComingAccepted
    <2>8. Untaken(token)'
      BY <1>2, <1>3, <2>1, <2>2 DEF Untaken
    <2>9. \A x : Untaken(x) => Untaken(x)'
      BY <1>2, <1>3 DEF Untaken
    <2>10. ComingFresh'
      BY <1>2, <1>3, <1>4, <1>5, <1>8, <2>1, <2>5, <2>6, <2>8, <2>9 DEF ComingInv, ComingFresh
    <2> QED
      BY <2>3, <2>7, <2>10 DEF ComingInv
  <1> QED
    BY <1>a, <1>6, <1>7, <1>8 DEF TypeOK, Rotations

LEMMA SaveComing ==
  ASSUME TypeInv, StoredAccepted, ComingInv, NEW s \in Syncs, SaveTokens(s)
  PROVE  StoredAccepted' /\ ComingInv'
  <1>1. /\ syncs[s] # None /\ At(s, "granted") /\ UNCHANGED <<providerVars, login>>
        /\ vault' # None /\ vault'.refresh = syncs[s].brought
    <2>1. vault' \in TokenSet /\ vault'.refresh = syncs[s].brought
      BY DEF SaveTokens, TypeInv, TokensHeld, TokenSet
    <2> QED
      BY <2>1, SessionAssumption DEF SaveTokens, At
  <1>2. /\ ~At(s, "granted")' /\ syncs'[s] # None /\ syncs'[s].refresh = syncs[s].refresh
        /\ \A k \in Syncs \ {s} : syncs'[k] = syncs[k]
    BY <1>1, ToMoves DEF SaveTokens, TypeInv, Stages, At
  <1>3. StoredAccepted'
    BY <1>1 DEF StoredAccepted, ComingInv, ComingAccepted, providerVars
  <1>4. Exchanged' <=> Exchanged
    BY <1>1 DEF Exchanged
  <1>5. \A k \in Syncs : At(k, "granted")' => /\ k # s /\ At(k, "granted") /\ syncs'[k] = syncs[k]
    BY <1>2 DEF At
  <1>6. ComingAccepted'
    BY <1>1, <1>4, <1>5 DEF ComingInv, ComingAccepted, providerVars
  <1>7. \A x : Untaken(x) /\ x # syncs[s].brought => Untaken(x)'
    BY <1>1, <1>2 DEF Untaken
  <1>8. ASSUME rotation' = "always"
        PROVE  /\ \A k \in Syncs : At(k, "granted")' => Untaken(syncs[k].brought)'
               /\ Exchanged => Untaken(login.refresh)'
    BY <1>1, <1>5, <1>7, <1>8 DEF ComingInv, ComingFresh, providerVars
  <1>9. ComingFresh'
    BY <1>1, <1>4, <1>5, <1>8 DEF ComingInv, ComingFresh, providerVars
  <1> QED
    BY <1>3, <1>6, <1>9 DEF ComingInv

LEMMA SyncStored ==
  ASSUME TypeInv, StoredAccepted, ComingInv, NEW s \in Syncs,
         \/ Press(s) \/ LoadTokens(s) \/ Discover(s) \/ Grant(s) \/ Refuse(s) \/ SaveTokens(s)
         \/ ClearTokens(s) \/ Expire(s) \/ Finish(s) \/ Unreachable(s)
  PROVE  StoredAccepted' /\ ComingInv'
  <1>a. TypeOK
    BY DEF TypeInv
  <1>1. CASE Press(s)
    <2> DEFINE new == [stage |-> "load", refresh |-> None, brought |-> None,
                       alone |-> Alone /\ login = None /\ leaving = "no"]
    <2>1. /\ syncs' = [Crowded EXCEPT ![s] = new] /\ new.stage = "load" /\ new.refresh = None
          /\ syncs[s] = None
      BY <1>1 DEF Press
    <2> HIDE DEF new
    <2>2. syncs'[s] = new /\ \A k \in Syncs \ {s} : syncs'[k] = Crowded[k]
      BY <1>a, <2>1, CrowdedCrowds
    <2>3. \A k \in Syncs :
            /\ At(k, "granted")' <=> At(k, "granted")
            /\ At(k, "granted") => /\ syncs'[k].refresh = syncs[k].refresh
                                   /\ syncs'[k].brought = syncs[k].brought
            /\ syncs'[k] # None => \/ syncs[k] # None /\ syncs'[k].refresh = syncs[k].refresh
                                   \/ syncs'[k].refresh = None
      BY <1>a, <2>1, <2>2, CrowdedCrowds DEF At
    <2>4. UNCHANGED <<vault, rotation, valid, lost, login>>
      BY <1>1 DEF Press, providerVars
    <2>5. Exchanged' => Exchanged /\ login'.refresh = login.refresh
      BY <2>4 DEF Exchanged
    <2> QED
      BY <2>3, <2>4, <2>5, SameComing
  <1>2. CASE LoadTokens(s)
    <2>1. CASE vault # None /\ ~vault.fresh /\ Takes(s, "discover", vault.refresh)
      <3>1. vault.refresh \in Tokens
        BY <1>a, <2>1 DEF TypeOK, TokenSet
      <3>2. /\ ~At(s, "granted")' /\ ~At(s, "granted") /\ syncs'[s].refresh = vault.refresh
            /\ \A k \in Syncs \ {s} : syncs'[k] = syncs[k]
        BY <1>2, <1>a, <2>1, <3>1, TakesMoves DEF LoadTokens, At, Stages
      <3> QED
        BY <1>2, <2>1, <3>2, LeavesComing DEF LoadTokens, providerVars, ReplacedBy
    <2>2. CASE \E stage \in {"missing", "use"} : To(s, stage)
      <3>1. PICK stage \in {"missing", "use"} : To(s, stage)
        BY <2>2
      <3>2. /\ ~At(s, "granted")' /\ ~At(s, "granted") /\ syncs[s] # None
            /\ syncs'[s].refresh = syncs[s].refresh
            /\ \A k \in Syncs \ {s} : syncs'[k] = syncs[k]
        BY <1>2, <1>a, <3>1, ToMoves DEF LoadTokens, At, Stages
      <3> QED
        BY <1>2, <3>2, LeavesComing DEF LoadTokens, providerVars, ReplacedBy
    <2> QED
      BY <1>2, <2>1, <2>2 DEF LoadTokens, Takes
  <1>3. CASE Discover(s) \/ Refuse(s) \/ ClearTokens(s)
    <2>1. PICK stage \in {"ask", "refused", "erred", "expired"} : To(s, stage)
      BY <1>3 DEF Discover, Refuse, ClearTokens
    <2>2. syncs[s] # None /\ ~At(s, "granted")
      BY <1>3 DEF Discover, Refuse, ClearTokens, At
    <2>3. /\ ~At(s, "granted")' /\ syncs'[s].refresh = syncs[s].refresh
          /\ \A k \in Syncs \ {s} : syncs'[k] = syncs[k]
      BY <1>a, <2>1, <2>2, ToMoves DEF At, Stages
    <2>4. /\ UNCHANGED <<rotation, valid, lost, login>>
          /\ vault' = vault \/ vault' = None
      BY <1>3 DEF Discover, Refuse, ClearTokens, providerVars
    <2>5. ReplacedBy({s}) = {}
      BY <2>2 DEF ReplacedBy
    <2> QED
      BY <2>2, <2>3, <2>4, <2>5, LeavesComing
  <1>4. CASE Grant(s)
    BY <1>4, GrantComing
  <1>6. CASE SaveTokens(s)
    BY <1>6, SaveComing
  <1>8. CASE Expire(s) \/ Finish(s)
    <2>1. /\ ~At(s, "granted") /\ ~At(s, "granted")' /\ syncs'[s] = None
          /\ \A k \in Syncs \ {s} : syncs'[k] = syncs[k]
      BY <1>8, <1>a, EndEnds DEF Expire, Finish, At
    <2>2. UNCHANGED <<vault, rotation, valid, lost, login>>
      BY <1>8 DEF Expire, Finish, providerVars
    <2>3. ReplacedBy({s}) = {}
      BY <2>1 DEF ReplacedBy
    <2> QED
      BY <2>1, <2>2, <2>3, LeavesComing
  <1>10. CASE Unreachable(s)
    <2>1. syncs[s] # None
      BY <1>10 DEF Unreachable, At
    <2>2. /\ ~At(s, "granted")' /\ syncs'[s].refresh = syncs[s].refresh
          /\ \A k \in Syncs \ {s} : syncs'[k] = syncs[k]
      BY <1>10, <1>a, <2>1, ToMoves DEF Unreachable, At, Stages
    <2> QED
      BY <1>10, <2>1, <2>2, LeavesComing DEF Unreachable
  <1> QED
    BY <1>1, <1>2, <1>3, <1>4, <1>6, <1>8, <1>10

LEMMA ExchangeComing ==
  ASSUME TypeInv, StoredAccepted, ComingInv, Exchange
  PROVE  StoredAccepted' /\ ComingInv'
  <1>a. TypeOK /\ TokensHeld
    BY DEF TypeInv
  <1>1. PICK token \in Tokens \ InUse :
           Issue(token, {}) /\ login' = [stage |-> "exchanged", refresh |-> token]
    BY DEF Exchange
  <1>2. /\ login = None /\ UNCHANGED <<vault, rotation>> /\ syncs' = Crowded
        /\ login'.refresh = token
    BY <1>1 DEF Exchange
  <1>3. \A k \in Syncs :
          /\ At(k, "granted")' <=> At(k, "granted")
          /\ syncs'[k] = None <=> syncs[k] = None
          /\ syncs[k] # None => /\ syncs'[k].refresh = syncs[k].refresh
                                /\ syncs'[k].brought = syncs[k].brought
    BY <1>a, <1>2, CrowdedCrowds DEF At
  <1>4. /\ vault # None => vault.refresh \in InUse
        /\ \A k \in Syncs : syncs[k] # None => syncs[k].refresh \in InUse
                                             /\ syncs[k].brought \in InUse
    BY DEF InUse
  <1>5. \A x \in InUse : x \in valid \cup lost => x \in valid' \cup lost'
    BY <1>1 DEF Issue
  <1>6. \A k \in Syncs : At(k, "granted") => syncs[k] # None
    BY DEF At
  <1>7. Replacing' = Replacing
    BY <1>3, <1>6 DEF Replacing
  <1>8. StoredAccepted'
    BY <1>2, <1>4, <1>5, <1>7 DEF StoredAccepted
  <1>9. ComingAccepted'
    <2>1. token \in valid'
      BY <1>1 DEF Issue
    <2> QED
      BY <1>2, <1>3, <1>4, <1>5, <1>6, <2>1 DEF ComingInv, ComingAccepted
  <1>10. Untaken(token)'
    BY <1>1, <1>2, <1>3, <1>4 DEF Untaken
  <1>11. \A x : Untaken(x) => Untaken(x)'
    BY <1>2, <1>3 DEF Untaken
  <1>12. ComingFresh'
    BY <1>1, <1>2, <1>3, <1>4, <1>6, <1>10, <1>11 DEF ComingInv, ComingFresh
  <1> QED
    BY <1>8, <1>9, <1>12 DEF ComingInv

LEMMA LoginComing ==
  ASSUME TypeInv, StoredAccepted, ComingInv, LoginSaves
  PROVE  StoredAccepted' /\ ComingInv'
  <1>1. /\ Exchanged /\ vault'.refresh = login.refresh /\ UNCHANGED <<rotation, valid, lost, syncs>>
    BY DEF LoginSaves, Exchanged, providerVars
  <1>2. ~Exchanged'
    <2>1. login'.stage = "saved"
      BY DEF LoginSaves, TypeInv, TypeOK
    <2> QED
      BY <2>1 DEF Exchanged
  <1>3. StoredAccepted'
    BY <1>1 DEF StoredAccepted, ComingInv, ComingAccepted
  <1>4. \A k \in Syncs : At(k, "granted")' <=> At(k, "granted")
    BY <1>1 DEF At
  <1>5. ComingAccepted'
    BY <1>1, <1>2, <1>4 DEF ComingInv, ComingAccepted
  <1>6. \A x : Untaken(x) /\ x # login.refresh => Untaken(x)'
    BY <1>1 DEF Untaken
  <1>7. ASSUME rotation = "always", NEW k \in Syncs, At(k, "granted")
        PROVE  Untaken(syncs[k].brought)'
    BY <1>1, <1>6, <1>7 DEF ComingInv, ComingFresh
  <1>8. ComingFresh'
    BY <1>1, <1>2, <1>4, <1>7 DEF ComingInv, ComingFresh
  <1> QED
    BY <1>3, <1>5, <1>8 DEF ComingInv

\* The app takes the answers and the login it has in hand with it.
LEMMA KillComing ==
  ASSUME TypeInv, StoredAccepted, ComingInv, Kill
  PROVE  StoredAccepted' /\ ComingInv'
  <1>1. /\ \A k \in Syncs : ~At(k, "granted")'
        /\ ~Exchanged' /\ UNCHANGED <<vault, rotation, valid>>
        /\ lost' = lost \cup ReplacedBy(Syncs)
    BY DEF Kill, At, Exchanged
  <1>2. rotation # "sometimes" => Replacing \subseteq valid \cup lost'
    BY <1>1 DEF Replacing, ReplacedBy, ComingInv, ComingAccepted
  <1>3. StoredAccepted'
    BY <1>1, <1>2 DEF StoredAccepted
  <1> QED
    BY <1>1, <1>3 DEF ComingInv, ComingAccepted, ComingFresh

LEMMA OtherStored ==
  ASSUME TypeInv, StoredAccepted, ComingInv,
         \/ LoginSaves \/ LoginShows \/ LogoutClears \/ LogoutShows \/ Redraw
         \/ Exchange \/ PressLogout \/ Kill \/ Start \/ Age \/ SessionEnds
  PROVE  StoredAccepted' /\ ComingInv'
  <1>a. TypeOK
    BY DEF TypeInv
  <1>1. CASE LoginSaves
    BY <1>1, LoginComing
  <1>2. CASE Exchange
    BY <1>2, ExchangeComing
  <1>3. CASE Kill
    BY <1>3, KillComing
  <1>4. CASE \/ LoginShows \/ LogoutClears \/ LogoutShows \/ Redraw
             \/ PressLogout \/ Start \/ Age \/ SessionEnds
    <2>1. \A k \in Syncs :
            /\ At(k, "granted")' <=> At(k, "granted")
            /\ At(k, "granted") => /\ syncs'[k].refresh = syncs[k].refresh
                                   /\ syncs'[k].brought = syncs[k].brought
            /\ syncs'[k] # None => syncs[k] # None /\ syncs'[k].refresh = syncs[k].refresh
      <3>1. CASE UNCHANGED syncs
        BY <3>1 DEF At
      <3>2. CASE syncs' = Crowded
        BY <1>a, <3>2, CrowdedCrowds DEF At
      <3> QED
        BY <1>4, <3>1, <3>2 DEF LoginShows, LogoutClears, LogoutShows, Redraw, PressLogout, Start,
                                Age, SessionEnds, appVars
    <2>2. vault' # None => vault # None /\ vault'.refresh = vault.refresh
      <3>1. CASE Age
        BY <1>a, <3>1 DEF Age, TypeOK, TokenSet
      <3> QED
        BY <1>4, <3>1 DEF LoginShows, LogoutClears, LogoutShows, Redraw, PressLogout, Start,
                          SessionEnds
    <2>3. Exchanged' => Exchanged /\ login'.refresh = login.refresh
      BY <1>4 DEF LoginShows, LogoutClears, LogoutShows, Redraw, PressLogout, Start,
                  Age, SessionEnds, appVars, Exchanged
    <2>4. UNCHANGED rotation /\ valid \cup lost \subseteq valid' \cup lost'
      BY <1>4 DEF LoginShows, LogoutClears, LogoutShows, Redraw, PressLogout, Start,
                  Age, SessionEnds, providerVars
    <2> QED
      BY <2>1, <2>2, <2>3, <2>4, SameComing
  <1> QED
    BY <1>1, <1>2, <1>3, <1>4

-----------------------------------------------------------------------------
(* Who has left *)

LEMMA SyncOut ==
  ASSUME TypeInv, ScreenInv, OutInv, NEW s \in Syncs,
         \/ Press(s) \/ LoadTokens(s) \/ Discover(s) \/ Grant(s) \/ Refuse(s) \/ SaveTokens(s)
         \/ ClearTokens(s) \/ Expire(s) \/ Finish(s) \/ Unreachable(s)
  PROVE  ScreenInv' /\ OutInv'
  <1>1. UNCHANGED <<screen, login, leaving, out>>
    BY DEF Press, LoadTokens, Discover, Grant, Refuse, SaveTokens, ClearTokens, Expire,
           Finish, Unreachable
  <1>2. ScreenInv'
    BY <1>1 DEF ScreenInv
  <1>3. ~out
    <2>1. CASE Press(s)
      BY <2>1 DEF Press, OutInv
    <2>2. CASE ~Press(s)
      <3>1. syncs[s] # None
        BY <2>2 DEF LoadTokens, Discover, Grant, Refuse, SaveTokens, ClearTokens, Expire,
                    Finish, Unreachable, At
      <3> QED
        BY <3>1 DEF OutInv, Alone
    <2> QED
      BY <2>1, <2>2
  <1> QED
    BY <1>1, <1>2, <1>3 DEF OutInv

LEMMA OtherOut ==
  ASSUME TypeInv, ScreenInv, OutInv,
         \/ LoginSaves \/ LoginShows \/ LogoutClears \/ LogoutShows \/ Redraw
         \/ Exchange \/ PressLogout \/ Kill \/ Start \/ Age \/ SessionEnds
  PROVE  ScreenInv' /\ OutInv'
  <1>a. TypeOK
    BY DEF TypeInv
  <1>b. ASSUME UNCHANGED <<vault, syncs, screen, login, leaving, out>>
        PROVE  ScreenInv' /\ OutInv'
    BY <1>b DEF ScreenInv, OutInv, Alone
  <1>1. CASE LoginSaves
    BY <1>1 DEF LoginSaves, ScreenInv, OutInv
  <1>2. CASE LoginShows
    BY <1>2 DEF LoginShows, ScreenInv, OutInv
  <1>3. CASE LogoutClears
    <2>1. leaving # "no" /\ screen = "login" /\ login = None
      BY <1>3 DEF LogoutClears, ScreenInv
    <2> QED
      BY <1>3, <2>1 DEF LogoutClears, ScreenInv, OutInv, Alone
  <1>4. CASE LogoutShows
    BY <1>4 DEF LogoutShows, ScreenInv, OutInv, Alone
  <1>5. CASE Redraw
    BY <1>5, <1>b DEF Redraw
  <1>6. CASE Exchange
    <2>1. Alone => Alone'
      BY <1>6, <1>a, CrowdedCrowds DEF Exchange, Alone
    <2>2. login'.stage = "exchanged" /\ UNCHANGED <<vault, screen, leaving, out>>
      BY <1>6 DEF Exchange
    <2> QED
      BY <1>6, <2>1, <2>2 DEF Exchange, ScreenInv, OutInv
  <1>7. CASE PressLogout
    <2>1. login = None
      BY <1>7 DEF PressLogout, ScreenInv
    <2>2. ~out
      BY <1>7 DEF PressLogout, OutInv
    <2> QED
      BY <1>7, <2>1, <2>2 DEF PressLogout, ScreenInv, OutInv
  <1>8. CASE Kill
    BY <1>8 DEF Kill, ScreenInv, OutInv, Alone
  <1>9. CASE Start
    BY <1>9 DEF Start, ScreenInv, OutInv, Alone
  <1>10. CASE Age
    BY <1>10 DEF Age, appVars, ScreenInv, OutInv, Alone
  <1>11. CASE SessionEnds
    BY <1>11, <1>b DEF SessionEnds, appVars
  <1> QED
    BY <1>1, <1>2, <1>3, <1>4, <1>5, <1>6, <1>7, <1>8, <1>9, <1>10, <1>11

-----------------------------------------------------------------------------
(* A synchronisation that nothing overlapped *)

\* What AloneInv says of one of them.
AloneKnows(s) ==
  syncs[s] # None /\ syncs[s].alone =>
    /\ \A k \in Syncs \ {s} : syncs[k] = None
    /\ login = None /\ leaving = "no"
    /\ Holds(s) => vault # None /\ vault.refresh = syncs[s].refresh
    /\ At(s, "refused") /\ rotation # "sometimes" => syncs[s].refresh \in lost

LEMMA AloneEach == AloneInv <=> \A s \in Syncs : AloneKnows(s)
  BY DEF AloneInv, AloneKnows

\* Another one under way is in company as long as this one is.
LEMMA OthersKnow ==
  ASSUME AloneInv, NEW s \in Syncs, NEW k \in Syncs \ {s}, syncs[s] # None,
         syncs'[k] = syncs[k]
  PROVE  AloneKnows(k)'
  BY DEF AloneInv, AloneKnows

LEMMA CrowdedKnow ==
  ASSUME TypeOK, syncs' = Crowded
  PROVE  AloneInv'
  BY CrowdedCrowds DEF AloneInv

LEMMA SyncAlone ==
  ASSUME TypeInv, StoredAccepted, AloneInv, NEW s \in Syncs,
         \/ Press(s) \/ LoadTokens(s) \/ Discover(s) \/ Grant(s) \/ Refuse(s) \/ SaveTokens(s)
         \/ ClearTokens(s) \/ Expire(s) \/ Finish(s) \/ Unreachable(s)
  PROVE  AloneInv'
  <1>a. TypeOK
    BY DEF TypeInv
  <1>b. ASSUME AloneKnows(s)', syncs[s] # None, \A k \in Syncs \ {s} : syncs'[k] = syncs[k]
        PROVE  AloneInv'
    <2>1. \A k \in Syncs \ {s} : AloneKnows(k)'
      BY <1>b, OthersKnow
    <2> QED
      BY <1>b, <2>1 DEF AloneInv, AloneKnows
  <1>1. CASE Press(s)
    <2> DEFINE new == [stage |-> "load", refresh |-> None, brought |-> None,
                       alone |-> Alone /\ login = None /\ leaving = "no"]
    <2>1. /\ syncs' = [Crowded EXCEPT ![s] = new] /\ new.stage = "load"
          /\ new.alone <=> Alone /\ login = None /\ leaving = "no"
      BY <1>1 DEF Press
    <2> HIDE DEF new
    <2>2. syncs'[s] = new /\ \A k \in Syncs \ {s} : syncs'[k] = Crowded[k]
      BY <1>a, <2>1, CrowdedCrowds
    <2>3. AloneKnows(s)'
      <3>1. ~Holds(s)' /\ ~At(s, "refused")'
        BY <2>1, <2>2 DEF Holds, At
      <3>2. Alone => \A k \in Syncs \ {s} : syncs'[k] = None
        BY <1>a, <2>2, CrowdedCrowds DEF Alone
      <3>3. UNCHANGED <<login, leaving>>
        BY <1>1 DEF Press
      <3> QED
        BY <2>1, <2>2, <3>1, <3>2, <3>3 DEF AloneKnows
    <2>4. \A k \in Syncs \ {s} : AloneKnows(k)'
      BY <1>a, <2>2, CrowdedCrowds DEF AloneKnows
    <2> QED
      BY <2>3, <2>4 DEF AloneInv, AloneKnows
  <1>2. CASE LoadTokens(s)
    <2>1. syncs[s] # None /\ UNCHANGED <<vault, login, leaving>>
      BY <1>2 DEF LoadTokens, At
    <2>2. CASE vault # None /\ ~vault.fresh
               /\ Takes(s, "discover", vault.refresh)
      <3>1. vault.refresh \in Tokens
        BY <1>a, <2>2 DEF TypeOK, TokenSet
      <3>2. /\ syncs'[s].stage = "discover" /\ syncs'[s].alone = syncs[s].alone
            /\ syncs'[s].refresh = vault.refresh
            /\ \A k \in Syncs \ {s} : syncs'[k] = syncs[k]
        BY <1>a, <2>1, <2>2, <3>1, TakesMoves DEF Stages
      <3>3. AloneKnows(s)'
        BY <2>1, <2>2, <3>2 DEF AloneInv, AloneKnows, Holds, At
      <3> QED
        BY <1>b, <2>1, <3>2, <3>3
    <2>3. CASE \E stage \in {"missing", "use"} : To(s, stage)
      <3>1. PICK stage \in {"missing", "use"} : To(s, stage)
        BY <2>3
      <3>2. /\ syncs'[s].stage = stage /\ syncs'[s].alone = syncs[s].alone
            /\ \A k \in Syncs \ {s} : syncs'[k] = syncs[k]
        BY <1>a, <2>1, <3>1, ToMoves DEF Stages
      <3>3. AloneKnows(s)'
        BY <2>1, <3>1, <3>2 DEF AloneInv, AloneKnows, Holds, At
      <3> QED
        BY <1>b, <2>1, <3>2, <3>3
    <2> QED
      BY <1>2, <2>2, <2>3 DEF LoadTokens, Takes
  <1>3. CASE Discover(s)
    <2>1. syncs[s] # None /\ Holds(s) /\ UNCHANGED <<vault, login, leaving>>
      BY <1>3 DEF Discover, Holds, At
    <2>2. /\ syncs'[s].stage = "ask" /\ syncs'[s].alone = syncs[s].alone
          /\ syncs'[s].refresh = syncs[s].refresh
          /\ \A k \in Syncs \ {s} : syncs'[k] = syncs[k]
      BY <1>3, <1>a, <2>1, ToMoves DEF Discover, Stages
    <2>3. AloneKnows(s)'
      BY <2>1, <2>2 DEF AloneInv, AloneKnows, Holds, At
    <2> QED
      BY <1>b, <2>1, <2>2, <2>3
  <1>4. CASE Grant(s)
    <2>1. syncs[s] # None /\ UNCHANGED <<vault, login, leaving>>
      BY <1>4 DEF Grant, At
    <2>2. PICK token \in Tokens : Brings(s, token)
      BY <1>4, <1>a, GrantBrings
    <2>3. /\ At(s, "granted")' /\ syncs'[s].alone = syncs[s].alone
          /\ \A k \in Syncs \ {s} : syncs'[k] = syncs[k]
      BY <1>a, <2>1, <2>2, BringsMoves
    <2>4. AloneKnows(s)'
      BY <2>1, <2>3 DEF AloneInv, AloneKnows, Holds, At
    <2> QED
      BY <1>b, <2>1, <2>3, <2>4
  <1>5. CASE Refuse(s)
    <2>1. /\ syncs[s] # None /\ At(s, "ask")
          /\ UNCHANGED <<vault, rotation, valid, lost, login, leaving>>
      BY <1>5 DEF Refuse, At, providerVars
    <2>2. PICK stage \in {"refused", "erred"} :
             /\ To(s, stage)
             /\ stage = "refused" => syncs[s].refresh \notin valid
      BY <1>5 DEF Refuse
    <2>3. /\ syncs'[s].stage = stage /\ syncs'[s].alone = syncs[s].alone
          /\ syncs'[s].refresh = syncs[s].refresh
          /\ \A k \in Syncs \ {s} : syncs'[k] = syncs[k]
      BY <1>a, <2>1, <2>2, ToMoves DEF Stages
    <2>4. ASSUME syncs[s].alone, stage = "refused", rotation # "sometimes"
          PROVE  syncs[s].refresh \in lost
      <3>1. Replacing = {}
        BY <2>1, <2>4 DEF AloneInv, Replacing, At
      <3>2. vault # None /\ vault.refresh = syncs[s].refresh
        BY <2>1, <2>4 DEF AloneInv, Holds
      <3> QED
        BY <2>2, <2>4, <3>1, <3>2 DEF StoredAccepted
    <2>5. AloneKnows(s)'
      BY <2>1, <2>2, <2>3, <2>4 DEF AloneInv, AloneKnows, Holds, At
    <2> QED
      BY <1>b, <2>1, <2>3, <2>5
  <1>6. CASE SaveTokens(s)
    <2>1. syncs[s] # None /\ UNCHANGED <<login, leaving>>
      BY <1>6 DEF SaveTokens, At
    <2>2. /\ syncs'[s].stage = "use" /\ syncs'[s].alone = syncs[s].alone
          /\ \A k \in Syncs \ {s} : syncs'[k] = syncs[k]
      BY <1>6, <1>a, <2>1, ToMoves DEF SaveTokens, Stages
    <2>3. AloneKnows(s)'
      BY <2>1, <2>2 DEF AloneInv, AloneKnows, Holds, At
    <2> QED
      BY <1>b, <2>1, <2>2, <2>3
  <1>7. CASE ClearTokens(s)
    <2>1. syncs[s] # None /\ UNCHANGED <<login, leaving>>
      BY <1>7 DEF ClearTokens, At
    <2>2. /\ syncs'[s].stage = "expired" /\ syncs'[s].alone = syncs[s].alone
          /\ \A k \in Syncs \ {s} : syncs'[k] = syncs[k]
      BY <1>7, <1>a, <2>1, ToMoves DEF ClearTokens, Stages
    <2>3. AloneKnows(s)'
      BY <2>1, <2>2 DEF AloneInv, AloneKnows, Holds, At
    <2> QED
      BY <1>b, <2>1, <2>2, <2>3
  <1>8. CASE Expire(s) \/ Finish(s)
    <2>1. syncs[s] # None /\ End(s)
      BY <1>8 DEF Expire, Finish, At
    <2>2. syncs'[s] = None /\ \A k \in Syncs \ {s} : syncs'[k] = syncs[k]
      BY <1>a, <2>1, EndEnds
    <2>3. AloneKnows(s)'
      BY <2>2 DEF AloneKnows
    <2> QED
      BY <1>b, <2>1, <2>2, <2>3
  <1>9. CASE Unreachable(s)
    <2>1. syncs[s] # None /\ UNCHANGED <<login, leaving>>
      BY <1>9 DEF Unreachable, At
    <2>2. /\ syncs'[s].stage = "failed" /\ syncs'[s].alone = syncs[s].alone
          /\ \A k \in Syncs \ {s} : syncs'[k] = syncs[k]
      BY <1>9, <1>a, <2>1, ToMoves DEF Unreachable, Stages
    <2>3. AloneKnows(s)'
      BY <2>1, <2>2 DEF AloneInv, AloneKnows, Holds, At
    <2> QED
      BY <1>b, <2>1, <2>2, <2>3
  <1> QED
    BY <1>1, <1>2, <1>3, <1>4, <1>5, <1>6, <1>7, <1>8, <1>9

LEMMA OtherAlone ==
  ASSUME TypeInv, AloneInv,
         \/ LoginSaves \/ LoginShows \/ LogoutClears \/ LogoutShows \/ Redraw
         \/ Exchange \/ PressLogout \/ Kill \/ Start \/ Age \/ SessionEnds
  PROVE  AloneInv'
  <1>a. TypeOK
    BY DEF TypeInv
  <1>b. ASSUME UNCHANGED <<syncs, login, leaving>>, vault # None => vault' # None,
               vault # None => vault'.refresh = vault.refresh,
               UNCHANGED rotation, lost \subseteq lost'
        PROVE  AloneInv'
    BY <1>b DEF AloneInv, Holds, At
  <1>c. ASSUME UNCHANGED syncs, login # None \/ leaving # "no"
        PROVE  AloneInv'
    BY <1>c DEF AloneInv
  <1>1. CASE LoginSaves \/ LoginShows \/ LogoutClears \/ LogoutShows
    BY <1>1, <1>c DEF LoginSaves, LoginShows, LogoutClears, LogoutShows
  <1>2. CASE Redraw \/ Start
    BY <1>2, <1>b DEF Redraw, Start, providerVars
  <1>3. CASE Exchange \/ PressLogout
    BY <1>3, <1>a, CrowdedKnow DEF Exchange, PressLogout
  <1>4. CASE Kill
    BY <1>4 DEF Kill, AloneInv
  <1>5. CASE Age
    <2>1. vault' # None /\ vault'.refresh = vault.refresh
      <3>1. vault' \in TokenSet /\ vault'.refresh = vault.refresh
        BY <1>5, <1>a DEF Age, TypeOK, TokenSet
      <3> QED
        BY <3>1, SessionAssumption
    <2> QED
      BY <1>5, <1>b, <2>1 DEF Age, appVars, providerVars
  <1>6. CASE SessionEnds
    BY <1>6, <1>b DEF SessionEnds, appVars
  <1> QED
    BY <1>1, <1>2, <1>3, <1>4, <1>5, <1>6

-----------------------------------------------------------------------------

LEMMA InitInv == Init => IInv
  <1> SUFFICES ASSUME Init PROVE IInv
    OBVIOUS
  <1>1. StoredAccepted /\ ComingInv /\ ScreenInv /\ OutInv /\ AloneInv
    BY DEF Init, Quiet, StoredAccepted, ComingInv, ComingAccepted, ComingFresh, Exchanged, At,
           ScreenInv, OutInv, AloneInv
  <1> QED
    BY <1>1, InitType DEF IInv

LEMMA NextInv == IInv /\ [Next]_vars => IInv'
  <1> SUFFICES ASSUME IInv, [Next]_vars PROVE IInv'
    OBVIOUS
  <1> USE DEF IInv
  <1>1. ASSUME NEW s \in Syncs, Press(s) \/ SyncStep(s) \/ Unreachable(s)
        PROVE  IInv'
    BY <1>1, SyncType, SyncStored, SyncOut, SyncAlone DEF SyncStep
  <1>2. CASE AppStep \/ Exchange \/ PressLogout \/ Kill \/ Start \/ Age \/ SessionEnds
    BY <1>2, OtherType, OtherStored, OtherOut, OtherAlone DEF AppStep
  <1>3. CASE UNCHANGED vars
    BY <1>3 DEF vars, appVars, providerVars, TypeInv, TypeOK, TokensHeld, StoredAccepted, Replacing,
                ComingInv, ComingAccepted, ComingFresh, Untaken, Exchanged, ScreenInv, OutInv,
                Alone, AloneInv, Holds, At
  <1> QED
    BY <1>1, <1>2, <1>3 DEF Next

\* The inductive invariant holds in every reachable state.
THEOREM Invariance == Spec => []IInv
  BY InitInv, NextInv, PTL DEF Spec

\* Every variable keeps its type: in particular what a refresh brings to the
\* store is a token (sessionManager.ts:14).
THEOREM TypeCorrect == Spec => []TypeOK
  <1>1. IInv => TypeOK
    BY DEF IInv, TypeInv
  <1> QED
    BY <1>1, Invariance, PTL

\* The stored token is one the provider accepts, unless its replacement is on
\* its way or was lost, or the session was ended, for any number of
\* synchronisations and logins that overlap (sessionManager.ts:14).
THEOREM StoredHolds == Spec => []StoredAccepted
  <1>1. IInv => StoredAccepted
    BY DEF IInv
  <1> QED
    BY <1>1, Invariance, PTL

\* What a synchronisation that nothing overlaps is refused was ended at the
\* provider, or replaced in an answer that was lost (sessionManager.ts:13).
THEOREM ReasonHolds == Spec => []ThrownOutForAReason
  <1>1. IInv => ThrownOutForAReason
    BY DEF IInv, AloneInv, ThrownOutForAReason, At
  <1> QED
    BY <1>1, Invariance, PTL

\* Who has left stays out (AppContext.tsx:106).
THEOREM LeftHolds == Spec => []LeftStaysOut
  <1>1. IInv => LeftStaysOut
    BY DEF IInv, OutInv, LeftStaysOut
  <1> QED
    BY <1>1, Invariance, PTL
=============================================================================
