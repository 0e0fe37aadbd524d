------------------------------ MODULE Session -------------------------------
(***************************************************************************)
(* The session of a driver on the phone (mobile/src/auth,                  *)
(* session/AppContext.tsx): the tokens in the secure store, the refresh    *)
(* that each synchronisation may start, login and logout, and the screen   *)
(* he is on.  The app can be killed at any await; the secure store and the *)
(* identity provider remain.                                               *)
(*                                                                         *)
(* The provider is external.  It may replace a refresh token when it is    *)
(* used ("o refresh token e substituido quando o provedor fizer rotacao",  *)
(* mobile/README.md:17), always, never or as it likes: it then refuses the *)
(* old one.  Time is abstracted to whether the stored access token still   *)
(* has 60 seconds.  What a synchronisation does with its token is          *)
(* DeviceSync's matter.                                                    *)
(***************************************************************************)
EXTENDS Naturals

CONSTANTS
  Syncs,      \* bound: synchronisations under way at once
  Tokens,     \* refresh tokens; one that nobody has any more is issued again
  MaxFaults,  \* bound: answers lost, refusals for no reason, apps killed, sessions ended
  None

VARIABLES
  vault,    \* the token set in the secure store
  rotation, \* whether the provider replaces a refresh token when it is used
  valid,    \* refresh tokens the provider accepts
  running,  \* the app is up
  screen,
  signedIn,
  syncing,  \* the state of the app ...
  drawn,    \* ... and as the function behind the button on the screen read it
  syncs,    \* synchronisations under way
  login,    \* the login under way: the token set it brings
  leaving,  \* the logout under way
  told,     \* the driver has been told since he last left that he has no session
  lost,     \* history: tokens the provider ended, or replaced in an answer that never
            \* reached the store
  out,      \* history: the driver has left, and nothing was under way when he did
  faults

appVars == <<running, screen, signedIn, syncing, drawn, syncs, login, leaving, told>>
providerVars == <<rotation, valid, lost>>
vars == <<vault, providerVars, appVars, out, faults>>

TokenSet == [refresh : Tokens, fresh : BOOLEAN]

Stages == {"load", "discover", "ask", "granted", "refused", "erred", "expired", "use",
           "failed", "missing"}

\* The refresh token it asks with and the one it is granted.
Sync == [stage : Stages, refresh : Tokens \cup {None}, brought : Tokens \cup {None},
         alone : BOOLEAN]

Rotations == {"never", "always", "sometimes"}

ASSUME SessionAssumption ==
  /\ None \notin Tokens \cup TokenSet \cup Sync
  /\ MaxFaults \in Nat

TypeOK ==
  /\ vault \in TokenSet \cup {None}
  /\ rotation \in Rotations
  /\ {valid, lost} \subseteq SUBSET Tokens
  /\ {running, signedIn, syncing, drawn, told, out} \subseteq BOOLEAN
  /\ screen \in {"login", "journey"}
  /\ syncs \in [Syncs -> Sync \cup {None}]
  /\ login \in [stage : {"exchanged", "saved"}, refresh : Tokens] \cup {None}
  /\ leaving \in {"no", "clearing", "cleared"}
  /\ faults \in 0..MaxFaults

Quiet == syncs = [s \in Syncs |-> None] /\ login = None /\ leaving = "no"

\* The app has just been installed and opened.
Init ==
  /\ vault = None /\ valid = {} /\ rotation \in Rotations
  /\ running = TRUE /\ screen = "login" /\ signedIn = FALSE
  /\ syncing = FALSE /\ drawn = FALSE
  /\ Quiet
  /\ told = FALSE
  /\ lost = {} /\ out = FALSE /\ faults = 0

Fault == faults < MaxFaults /\ faults' = faults + 1

-----------------------------------------------------------------------------
(* The provider *)

\* The tokens the phone has, or is about to have.
InUse ==
  LET under == {k \in Syncs : syncs[k] # None}
  IN {v.refresh : v \in {vault, login} \ {None}}
       \cup {syncs[s].refresh : s \in under} \cup {syncs[s].brought : s \in under}

\* The provider accepts a new token.  What nobody has any more is forgotten.
Issue(token, replaced) ==
  /\ token = CHOOSE t \in Tokens : t \notin InUse
  /\ valid' = ((valid \cap InUse) \ replaced) \cup {token}
  /\ lost' = lost \cap InUse

\* The session ends at the provider: by its age, or by an administrator.
SessionEnds ==
  /\ Fault
  /\ valid # {} /\ valid' = {}
  /\ lost' = lost \cup valid
  /\ UNCHANGED <<vault, rotation, appVars, out>>

-----------------------------------------------------------------------------
(* synchronize and getValidAccessToken *)

At(s, stage) == syncs[s] # None /\ syncs[s].stage = stage

To(s, stage) == syncs' = [syncs EXCEPT ![s].stage = stage]

\* Every synchronisation under way has company from now on.
Crowded == [s \in Syncs |-> IF syncs[s] = None THEN None ELSE [syncs[s] EXCEPT !.alone = FALSE]]

Alone == \A s \in Syncs : syncs[s] = None

\* The button is never disabled; the function behind it reads `syncing' as it
\* was when the screen was drawn.  Bound: a press beside another one counts as
\* a fault.
Press(s) ==
  /\ running /\ screen = "journey" /\ ~drawn
  /\ IF Alone THEN UNCHANGED faults ELSE Fault
  /\ syncs[s] = None
  /\ syncing' = TRUE
  /\ syncs' = [Crowded EXCEPT ![s] = [stage |-> "load", refresh |-> None, brought |-> None,
                                    alone |-> Alone /\ login = None /\ leaving = "no"]]
  /\ UNCHANGED <<vault, providerVars, running, screen, signedIn, drawn, login, leaving,
                 told, out>>

Redraw ==
  /\ running /\ drawn # syncing
  /\ drawn' = syncing
  /\ UNCHANGED <<vault, providerVars, running, screen, signedIn, syncing, syncs, login,
                 leaving, told, out, faults>>

\* The tokens are read and their expiry judged.
LoadTokens(s) ==
  /\ At(s, "load")
  /\ \/ vault = None /\ To(s, "missing")
     \/ vault # None /\ vault.fresh /\ To(s, "use")
     \/ vault # None /\ ~vault.fresh
        /\ syncs' = [syncs EXCEPT ![s].stage = "discover", ![s].refresh = vault.refresh]
  /\ UNCHANGED <<vault, providerVars, running, screen, signedIn, syncing, drawn, login,
                 leaving, told, out, faults>>

Discover(s) ==
  /\ At(s, "discover")
  /\ To(s, "ask")
  /\ UNCHANGED <<vault, providerVars, running, screen, signedIn, syncing, drawn, login,
                 leaving, told, out, faults>>

\* Takes an answer without a refresh token at its word (mutant of Grant).
GrantUnkept(s) ==
  /\ At(s, "ask") /\ syncs[s].refresh \in valid
  /\ To(s, "granted")
  /\ UNCHANGED <<vault, providerVars, running, screen, signedIn, syncing, drawn, login,
                 leaving, told, out, faults>>

\* The provider grants a token it accepts, replacing it or not (without a new
\* one the phone keeps its own), and refuses any other; an error of its own (a
\* 503) is taken like a refusal.
Grant(s) ==
  /\ At(s, "ask") /\ syncs[s].refresh \in valid
  /\ \/ rotation # "always"
        /\ syncs' = [syncs EXCEPT ![s].stage = "granted", ![s].brought = syncs[s].refresh]
        /\ UNCHANGED <<valid, lost>>
     \/ rotation # "never"
        /\ \E token \in Tokens \ InUse :
             /\ Issue(token, {syncs[s].refresh})
             /\ syncs' = [syncs EXCEPT ![s].stage = "granted", ![s].brought = token]
  /\ UNCHANGED <<vault, rotation, running, screen, signedIn, syncing, drawn, login,
                 leaving, told, out, faults>>

Refuse(s) ==
  /\ At(s, "ask")
  /\ \/ syncs[s].refresh \notin valid /\ To(s, "refused") /\ UNCHANGED faults
     \/ syncs[s].refresh \in valid /\ Fault /\ To(s, "erred")
  /\ UNCHANGED <<vault, providerVars, running, screen, signedIn, syncing, drawn, login,
                 leaving, told, out>>

\* The tokens of answers that replaced them and do not reach the store.
ReplacedBy(answered) ==
  LET replaced == {k \in answered : At(k, "granted") /\ syncs[k].brought # syncs[k].refresh}
  IN {syncs[s].refresh : s \in replaced}

\* No network, before the provider or behind it: the request throws and the
\* tokens stay.  A token granted meanwhile is lost.
Unreachable(s) ==
  /\ \E stage \in {"discover", "ask", "granted", "refused"} : At(s, stage)
  /\ Fault
  /\ lost' = lost \cup ReplacedBy({s})
  /\ To(s, "failed")
  /\ UNCHANGED <<vault, rotation, valid, running, screen, signedIn, syncing, drawn, login,
                 leaving, told, out>>

\* Keeps the refresh token it has asked with (mutant of SaveTokens).
SaveTokensOld(s) ==
  /\ At(s, "granted")
  /\ vault' = [refresh |-> syncs[s].refresh, fresh |-> TRUE]
  /\ To(s, "use")
  /\ UNCHANGED <<providerVars, running, screen, signedIn, syncing, drawn, login, leaving,
                 told, out, faults>>

\* The rotated token set replaces whatever is in the store.
SaveTokens(s) ==
  /\ At(s, "granted")
  /\ vault' = [refresh |-> syncs[s].brought, fresh |-> TRUE]
  /\ To(s, "use")
  /\ UNCHANGED <<providerVars, running, screen, signedIn, syncing, drawn, login, leaving,
                 told, out, faults>>

\* "Sessao expirada" also clears whatever is in the store by now ...
ClearTokens(s) ==
  /\ At(s, "refused") \/ At(s, "erred")
  /\ vault' = None
  /\ To(s, "expired")
  /\ UNCHANGED <<providerVars, running, screen, signedIn, syncing, drawn, login, leaving,
                 told, out, faults>>

\* Resets the flag after a success only (mutant of End).
EndOnSuccess(s) ==
  /\ syncs' = [syncs EXCEPT ![s] = None]
  /\ syncing' = (syncing /\ ~At(s, "use"))

\* finally: `syncing' is reset though another one may be running.
End(s) ==
  /\ syncs' = [syncs EXCEPT ![s] = None]
  /\ syncing' = FALSE

\* ... and the driver is told; he stays on the screen he is on.
Expire(s) ==
  /\ At(s, "expired")
  /\ signedIn' = FALSE /\ told' = TRUE
  /\ End(s)
  /\ UNCHANGED <<vault, providerVars, running, screen, drawn, login, leaving, out,
                 faults>>

\* The synchronisation has done its work, or failed otherwise.
Finish(s) ==
  /\ \E stage \in {"use", "failed", "missing"} : At(s, stage)
  /\ told' = At(s, "missing")
  /\ End(s)
  /\ UNCHANGED <<vault, providerVars, running, screen, signedIn, drawn, login, leaving,
                 out, faults>>

\* Time passes: the access token is used up.
Age ==
  /\ vault # None /\ vault.fresh
  /\ vault' = [vault EXCEPT !.fresh = FALSE]
  /\ UNCHANGED <<providerVars, appVars, out, faults>>

-----------------------------------------------------------------------------
(* Login, logout, and the app's life *)

\* The driver authenticates in the browser and the code is exchanged.  That
\* takes longer than an access to the store, though not than a refresh.
Exchange ==
  /\ running /\ screen = "login" /\ login = None
  /\ leaving = "no" /\ \A s \in Syncs : ~At(s, "load")
  /\ \E token \in Tokens \ InUse :
       /\ Issue(token, {})
       /\ login' = [stage |-> "exchanged", refresh |-> token]
  /\ syncs' = Crowded
  /\ UNCHANGED <<vault, rotation, running, screen, signedIn, syncing, drawn, leaving,
                 told, out, faults>>

\* completeOidcLogin.
LoginSaves ==
  /\ login # None /\ login.stage = "exchanged"
  /\ vault' = [refresh |-> login.refresh, fresh |-> TRUE]
  /\ out' = FALSE
  /\ login' = [login EXCEPT !.stage = "saved"]
  /\ UNCHANGED <<providerVars, running, screen, signedIn, syncing, drawn, syncs, leaving,
                 told, faults>>

LoginShows ==
  /\ login # None /\ login.stage = "saved"
  /\ signedIn' = TRUE /\ screen' = "journey"
  /\ login' = None
  /\ UNCHANGED <<vault, providerVars, running, syncing, drawn, syncs, leaving, told, out,
                 faults>>

\* Sair: the screen changes at once.  The session at the provider stays.
\* Bound: leaving counts as a fault, except for a driver who has been told to
\* and leaves nothing under way.
PressLogout ==
  /\ running /\ screen = "journey" /\ leaving = "no"
  /\ IF told /\ Alone THEN UNCHANGED faults ELSE Fault
  /\ told' = FALSE
  /\ screen' = "login" /\ leaving' = "clearing"
  /\ syncs' = Crowded
  /\ UNCHANGED <<vault, providerVars, running, signedIn, syncing, drawn, login, out>>

\* Forgets only that the driver is signed in (mutant of LogoutClears).
LogoutKeeps ==
  /\ leaving = "clearing" /\ leaving' = "cleared"
  /\ out' = (Alone /\ login = None)
  /\ UNCHANGED <<vault, providerVars, running, screen, signedIn, syncing, drawn, syncs,
                 login, told, faults>>

LogoutClears ==
  /\ leaving = "clearing" /\ leaving' = "cleared"
  /\ vault' = None
  /\ out' = (Alone /\ login = None)
  /\ UNCHANGED <<providerVars, running, screen, signedIn, syncing, drawn, syncs, login,
                 told, faults>>

LogoutShows ==
  /\ leaving = "cleared" /\ leaving' = "no"
  /\ signedIn' = FALSE
  /\ UNCHANGED <<vault, providerVars, running, screen, syncing, drawn, syncs, login, told,
                 out, faults>>

Kill ==
  /\ running /\ running' = FALSE
  /\ Fault
  /\ lost' = lost \cup ReplacedBy(Syncs)
  /\ syncs' = [s \in Syncs |-> None] /\ login' = None /\ leaving' = "no"
  /\ syncing' = FALSE /\ drawn' = FALSE /\ signedIn' = FALSE /\ told' = FALSE
  /\ UNCHANGED <<vault, rotation, valid, screen, out>>

\* The first screen redirects as `signedIn' is before the tokens are read: to
\* the login, which does not look at it again.
Start ==
  /\ ~running /\ running' = TRUE
  /\ screen' = "login"
  /\ signedIn' = (vault # None)
  /\ UNCHANGED <<vault, providerVars, syncing, drawn, syncs, login, leaving, told, out,
                 faults>>

-----------------------------------------------------------------------------

SyncStep(s) ==
  \/ LoadTokens(s) \/ Discover(s) \/ Grant(s) \/ Refuse(s)
  \/ SaveTokens(s) \/ ClearTokens(s) \/ Expire(s) \/ Finish(s)

AppStep == LoginSaves \/ LoginShows \/ LogoutClears \/ LogoutShows \/ Redraw

Next ==
  \/ \E s \in Syncs : Press(s) \/ SyncStep(s) \/ Unreachable(s)
  \/ AppStep
  \/ Exchange \/ PressLogout \/ Kill \/ Start
  \/ Age \/ SessionEnds

\* The app, the provider and the store do not stall.
SystemFairness ==
  /\ \A s \in Syncs : WF_vars(SyncStep(s))
  /\ WF_vars(LoginSaves \/ LoginShows)
  /\ WF_vars(LogoutClears \/ LogoutShows)
  /\ WF_vars(Redraw)

\* The driver opens the app, logs in where he is asked to, goes on pressing
\* Sincronizar, and presses Sair when he is told that he has no session.
DriverFairness ==
  /\ WF_vars(Start) /\ WF_vars(Exchange)
  /\ SF_vars(\E s \in Syncs : Press(s))
  /\ SF_vars(told /\ Alone /\ PressLogout)

Spec == Init /\ [][Next]_vars /\ SystemFairness /\ DriverFairness

-----------------------------------------------------------------------------
(* Safety *)

\* What replaces these tokens is on its way to the store.
Replacing == {syncs[s].refresh : s \in {k \in Syncs : At(k, "granted")}}

\* However synchronisations, logins and logouts overlap, the refresh token in the
\* store is one the provider still accepts, unless its replacement is on its
\* way to the store or was lost, with an answer or with the app, or the provider
\* has ended the session: no superseded token is saved over a newer one
\* (sessionManager.ts:14).  A provider that replaces a token at one use of it and
\* not at another, which overlaps the first, has no such session.
StoredAccepted ==
  vault # None /\ rotation # "sometimes" => vault.refresh \in valid \cup lost \cup Replacing

\* A driver is thrown out only for a reason: of a synchronisation that nothing
\* overlaps the provider refuses the token only if that very token was ended, or
\* replaced in an answer that was lost, whatever overlapped before
\* (sessionManager.ts:13).
ThrownOutForAReason ==
  \A s \in Syncs :
    At(s, "refused") /\ syncs[s].alone /\ rotation # "sometimes" => syncs[s].refresh \in lost

\* Who has left while nothing was under way stays out, through restarts and
\* whatever the provider answers, until he logs in (AppContext.tsx:106).
LeftStaysOut == out => vault = None

(* Liveness *)

\* A driver who logs in again when he is told to comes to synchronise again,
\* whatever was lost, refused, cleared or killed: no token and no flag left
\* behind keeps him from it (AppContext.tsx:111 and 156).
ComesToSynchronise == []<>(\E s \in Syncs : At(s, "use"))
=============================================================================
