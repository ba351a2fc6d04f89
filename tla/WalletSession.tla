--------------------------- MODULE WalletSession ---------------------------
(***************************************************************************)
(* The wallet context of the browser (WalletProvider) and the provider      *)
(* objects MidnightProvidersProvider builds on the connected wallet.        *)
(*                                                                         *)
(* connect is a chain of awaits on an extension that may answer late, fail *)
(* or never answer; connect, disconnect and the periodic check of the       *)
(* connection may start while earlier ones are still waiting.  An attempt's *)
(* number stands for the connected API object it obtains.                   *)
(***************************************************************************)
EXTENDS Naturals

CONSTANTS MaxAttempts   \* bound: calls of connect and disconnect

ASSUME WalletAssumption == MaxAttempts \in Nat

Attempts == 1..MaxAttempts
NoApi == 0

VARIABLES
    attempt,     \* connectionAttempt
    status,      \* status of the wallet state
    api,         \* connectedApi of the wallet state
    ref,         \* connectedApiRef
    conn,        \* where each call of connect stands
    checks,      \* the APIs whose connection status has been asked for
    hints,       \* the APIs that have been asked for action permissions
    granted,     \* the API that granted them (actionPermissionsGranted), or none
    build,       \* where the construction of providers on each API stands
    providers,   \* the API the direct providers were built on
    sponsored,   \* the API the sponsored runtime was built on
    mode         \* executionMode

wvars == <<attempt, status, api, ref, conn, checks, hints, granted, build, providers, sponsored, mode>>

Statuses == {"disconnected", "connecting", "connected", "reconnecting", "wrong-network", "error"}

WTypeOK ==
    /\ attempt \in 0..MaxAttempts /\ status \in Statuses
    /\ api \in 0..MaxAttempts /\ ref \in 0..MaxAttempts
    /\ conn \in [Attempts -> {"none", "wallet", "status", "addresses", "over"}]
    /\ checks \subseteq Attempts /\ hints \subseteq Attempts /\ granted \in 0..MaxAttempts
    /\ build \in [Attempts -> {"none", "direct", "sponsored", "over"}]
    /\ providers \in 0..MaxAttempts /\ sponsored \in 0..MaxAttempts
    /\ mode \in {"direct", "sponsored"}

WInit ==
    /\ attempt = 0 /\ status = "disconnected" /\ api = NoApi /\ ref = NoApi
    /\ conn = [a \in Attempts |-> "none"]
    /\ checks = {} /\ hints = {} /\ granted = NoApi
    /\ build = [a \in Attempts |-> "none"]
    /\ providers = NoApi /\ sponsored = NoApi /\ mode = "direct"

\* setState, the assignment of the ref that goes with it, and the effect of
\* MidnightProvidersProvider on it: without a connected wallet the providers go.
Shows(s, a) ==
    /\ status' = s /\ api' = a /\ ref' = a /\ granted' = NoApi
    /\ IF a # NoApi
       THEN build' = [build EXCEPT ![a] = "direct"] /\ UNCHANGED <<providers, sponsored, mode>>
       ELSE providers' = NoApi /\ sponsored' = NoApi /\ mode' = "direct" /\ UNCHANGED build

-----------------------------------------------------------------------------
\* discoverCompatibleWallets and findWallet: whether a usable wallet is injected.
Found == BOOLEAN

\* connect and reconnect: the newest attempt is the one that counts.
Connect ==
    /\ attempt < MaxAttempts
    /\ attempt' = attempt + 1
    /\ \E found \in Found :
          /\ Shows(IF found THEN "connecting" ELSE "error", NoApi)
          /\ conn' = [conn EXCEPT ![attempt + 1] = IF found THEN "wallet" ELSE "over"]
    /\ UNCHANGED <<checks, hints>>

Disconnect ==
    /\ attempt < MaxAttempts
    /\ attempt' = attempt + 1
    /\ Shows("disconnected", NoApi)
    /\ UNCHANGED <<conn, checks, hints>>

Current(a) == a = attempt

Ends(a) == conn' = [conn EXCEPT ![a] = "over"]

\* An answer of the wallet to an attempt: the next question, or the end of it.
WalletAnswers(a) ==
    /\ \/ conn[a] = "wallet" /\ conn' = [conn EXCEPT ![a] = "status"]
       \/ conn[a] = "status" /\ conn' = [conn EXCEPT ![a] = "addresses"]
    /\ UNCHANGED <<attempt, status, api, ref, checks, hints, granted, build, providers, sponsored, mode>>

Connected(a) ==
    /\ conn[a] = "addresses" /\ Ends(a)
    /\ IF Current(a) THEN Shows("connected", a)
       ELSE UNCHANGED <<status, api, ref, granted, build, providers, sponsored, mode>>
    /\ UNCHANGED <<attempt, checks, hints>>

\* A wallet on another network, an error of the connector, or a lost connection.
ConnectFails(a) ==
    /\ conn[a] \in {"wallet", "status", "addresses"} /\ Ends(a)
    /\ IF Current(a)
       THEN \/ conn[a] = "status" /\ Shows("wrong-network", NoApi)
            \/ Shows("error", NoApi)
            \/ Shows("reconnecting", NoApi)
       ELSE UNCHANGED <<status, api, ref, granted, build, providers, sponsored, mode>>
    /\ UNCHANGED <<attempt, checks, hints>>

\* checkConnection, every 15 s while connected, and what its answer does.
CheckConnection ==
    /\ status = "connected" /\ ref = api
    /\ checks' = checks \cup {api}
    /\ UNCHANGED <<attempt, status, api, ref, conn, hints, granted, build, providers, sponsored, mode>>

Still(a) == ref = a

\* A wallet that left takes the session down; the attempt counter moves with it.
Lost(a, statuses) ==
    /\ Still(a) /\ attempt < MaxAttempts
    /\ attempt' = attempt + 1
    /\ \E s \in statuses : Shows(s, NoApi)

CheckAnswers(a) ==
    /\ a \in checks /\ checks' = checks \ {a}
    /\ \/ Lost(a, {"reconnecting", "wrong-network"})
       \/ UNCHANGED <<attempt, status, api, ref, granted, build, providers, sponsored, mode>>
    /\ UNCHANGED <<conn, hints>>

\* requestActionPermissions, and what the wallet's answer does.
RequestActionPermissions ==
    /\ ref # NoApi /\ hints' = hints \cup {ref}
    /\ UNCHANGED <<attempt, status, api, ref, conn, checks, granted, build, providers, sponsored, mode>>

PermissionsAnswer(a) ==
    /\ a \in hints /\ hints' = hints \ {a}
    /\ \/ Lost(a, {"reconnecting"})
       \/ /\ granted' \in {granted, IF Still(a) THEN a ELSE granted}
          /\ UNCHANGED <<attempt, status, api, ref, build, providers, sponsored, mode>>
    /\ UNCHANGED <<conn, checks>>

-----------------------------------------------------------------------------
\* The effect's closure is cancelled once the wallet state has changed.
\* Mutant: it is not.
LiveAnyway(a) == TRUE

Live(a) == a = api

\* createProviders and the direct runtime are ready, or could not be built.
DirectBuilt(a) ==
    /\ build[a] = "direct"
    /\ \/ /\ build' = [build EXCEPT ![a] = "sponsored"]
          /\ providers' = IF Live(a) THEN a ELSE providers
          /\ UNCHANGED <<sponsored, mode>>
       \/ /\ build' = [build EXCEPT ![a] = "over"]
          /\ IF Live(a) THEN providers' = NoApi /\ sponsored' = NoApi /\ mode' = "direct"
             ELSE UNCHANGED <<providers, sponsored, mode>>
    /\ UNCHANGED <<attempt, status, api, ref, conn, checks, hints, granted>>

\* The sponsored runtime is optional: without it the direct mode is left.
SponsoredBuilt(a) ==
    /\ build[a] = "sponsored" /\ build' = [build EXCEPT ![a] = "over"]
    /\ \/ sponsored' = (IF Live(a) THEN a ELSE sponsored) /\ UNCHANGED mode
       \/ IF Live(a) THEN sponsored' = NoApi /\ mode' = "direct" ELSE UNCHANGED <<sponsored, mode>>
    /\ UNCHANGED <<attempt, status, api, ref, conn, checks, hints, granted, providers>>

MayChoose(m) == m # mode /\ (m = "sponsored" => sponsored # NoApi)

SetExecutionMode(m) ==
    /\ MayChoose(m) /\ mode' = m
    /\ UNCHANGED <<attempt, status, api, ref, conn, checks, hints, granted, build, providers, sponsored>>

-----------------------------------------------------------------------------
Answers(a) == WalletAnswers(a) \/ Connected(a) \/ ConnectFails(a)

WNext ==
    \/ Connect \/ Disconnect \/ CheckConnection \/ RequestActionPermissions
    \/ \E a \in Attempts : \/ Answers(a) \/ CheckAnswers(a) \/ PermissionsAnswer(a)
                           \/ DirectBuilt(a) \/ SponsoredBuilt(a)
    \/ \E m \in {"direct", "sponsored"} : SetExecutionMode(m)

WSpec == WInit /\ [][WNext]_wvars

-----------------------------------------------------------------------------
(* Properties. *)

\* The wallet on screen is the one of the newest connect: no late answer of an earlier
\* attempt, nor one after a disconnect or a lost connection, brings its wallet back
\* (connectionAttempt, connectedApiRef).
ShownWalletIsNewest ==
    /\ (status = "connected") = (api # NoApi)
    /\ ref = api
    /\ api # NoApi => api = attempt

\* What an action would use belongs to the wallet on screen, which is the newest: the
\* permissions, the direct providers, the sponsored ones next to direct ones of the same
\* wallet, and a sponsored mode that has its runtime, so that no action falls back to the
\* wallet's own fee without saying so (cancelled of the effect, the comparisons with
\* connectedApiRef, setExecutionMode).
ProvidersFollowWallet ==
    /\ ShownWalletIsNewest
    /\ mode = "sponsored" => sponsored # NoApi
    /\ granted \in {NoApi, api} /\ providers \in {NoApi, api}
    /\ sponsored # NoApi => sponsored = api /\ providers = api
=============================================================================
