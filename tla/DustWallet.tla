----------------------------- MODULE DustWallet -----------------------------
(***************************************************************************)
(* How a wallet of the operators comes to pay fees.  NIGHT generates DUST  *)
(* once its UTXOs are registered, which only their owner can do.  A script *)
(* starts its wallet cold: the wallet replays the history of its UTXOs, so *)
(* what a script reads before the end of the replay is the past.           *)
(*                                                                         *)
(* register-dust serves the wallet "own" (of the relayer or, by way of     *)
(* register-operator-dust, of the deployer); fund-undeployed moves NIGHT of*)
(* the genesis wallet to it and registers both.                            *)
(***************************************************************************)
EXTENDS Integers, Sequences

CONSTANTS
    OwnPasts,      \* the histories "own" may have when the scripts are first run
    MaxFunds,      \* bound: runs of fund-undeployed
    MaxTimeouts    \* bound: calls and waits that run out of time

VARIABLES
    history,       \* of each wallet on the chain: the states its UTXOs went through
    replayed,      \* how far the wallet of the running script has come
    job,           \* the running script: where it is, the wallet it works on, the UTXOs it will book
                   \* and how far the replay was when it went on to book them
    sent,          \* registrations and transfers in no block yet
    nextUtxo,      \* UTXOs are numbered as they are created
    timeouts, funds

dwvars == <<history, replayed, job, sent, nextUtxo, timeouts, funds>>

Wallets == {"own", "genesis"}

\* NIGHT, the UTXOs of it that are registered, and whether they have generated DUST.
Funds(night, reg, dustCoins) == [night |-> night, reg |-> reg, dust |-> dustCoins]

NoScript == [script |-> "none", at |-> "start", wallet |-> "own", todo |-> {}, after |-> "start"]

DWInit ==
    /\ history \in {[own |-> past, genesis |-> <<Funds({}, {}, FALSE), Funds({1}, {}, FALSE)>>] : past \in OwnPasts}
    /\ replayed = [w \in Wallets |-> 1]
    /\ job = NoScript /\ sent = {} /\ nextUtxo = 4 /\ timeouts = 0 /\ funds = 0

Chain(w) == history[w][Len(history[w])]
Shown(w) == history[w][replayed[w]]
Synced(w) == replayed[w] = Len(history[w])

\* Mutant: the filter is the wrong way round.
UnregisteredNot(s) == s.reg

Unregistered(s) == s.night \ s.reg

\* evaluateRelayerReadiness, summarizeRelayerFunding: the wallet can pay.
readyToSubmit(w) == Synced(w) /\ Shown(w).dust

-----------------------------------------------------------------------------
(* The chain and the wallet SDK.                                             *)

Extends(w, s) == history' = [history EXCEPT ![w] = Append(@, s)]

\* The wallets of the running script.
Started == CASE job.script = "none" -> {} [] job.script = "register" -> {"own"} [] OTHER -> Wallets

\* The wallet emits its next state.
Replay(w) ==
    /\ w \in Started /\ ~Synced(w)
    /\ replayed' = [replayed EXCEPT ![w] = @ + 1]
    /\ UNCHANGED <<history, job, sent, nextUtxo, timeouts, funds>>

\* A registration spends its UTXOs into new ones that are registered, if they are all unspent.
LandRegistration(tx) ==
    /\ tx \in sent /\ tx.to = tx.from /\ sent' = sent \ {tx}
    /\ LET c == Chain(tx.from)
           new == {nextUtxo}
       IN  IF tx.utxos \subseteq c.night
           THEN /\ Extends(tx.from, Funds((c.night \ tx.utxos) \union new, (c.reg \ tx.utxos) \union new, c.dust))
                /\ nextUtxo' = nextUtxo + 1
           ELSE UNCHANGED <<history, nextUtxo>>
    /\ UNCHANGED <<replayed, job, timeouts, funds>>

\* A transfer: the change of the sender is a new UTXO that is not registered.
LandTransfer(tx) ==
    /\ tx \in sent /\ tx.to # tx.from /\ sent' = sent \ {tx}
    /\ LET c == Chain(tx.from)
           r == Chain(tx.to)
       IN  IF tx.utxos \subseteq c.night
           THEN /\ history' = [history EXCEPT
                       ![tx.from] = Append(@, Funds((c.night \ tx.utxos) \union {nextUtxo}, c.reg \ tx.utxos, FALSE)),
                       ![tx.to] = Append(@, Funds(r.night \union {nextUtxo + 1}, r.reg, r.dust))]
                /\ nextUtxo' = nextUtxo + 2
           ELSE UNCHANGED <<history, nextUtxo>>
    /\ UNCHANGED <<replayed, job, timeouts, funds>>

\* Registered NIGHT has generated DUST.
Accrue(w) ==
    /\ Chain(w).reg # {} /\ ~Chain(w).dust
    /\ Extends(w, [Chain(w) EXCEPT !.dust = TRUE])
    /\ UNCHANGED <<replayed, job, sent, nextUtxo, timeouts, funds>>

-----------------------------------------------------------------------------
(* The scripts.                                                              *)

\* startRelayerWallet: the transaction history is in memory only.
StartScript(script) ==
    /\ job.script = "none" /\ (script = "fund" => funds < MaxFunds)
    /\ job' = [NoScript EXCEPT !.script = script,
                               !.at = IF script = "register" THEN "night" ELSE "ensure",
                               !.wallet = IF script = "register" THEN "own" ELSE "genesis",
                               !.after = "check"]
    /\ replayed' = [w \in Wallets |-> 1]
    /\ funds' = IF script = "fund" THEN funds + 1 ELSE funds
    /\ UNCHANGED <<history, sent, nextUtxo, timeouts>>

Becomes(next) == job' = next /\ replayed' = replayed

\* The script ends, well or not, and its wallets with it.
Quits == job' = NoScript /\ replayed' = [w \in Wallets |-> 1]

KeepsFunds == UNCHANGED <<history, sent, nextUtxo, funds>>

\* The first state with NIGHT decides whether there is anything to do.
Snapshot ==
    /\ job.at = "night" /\ Shown("own").night # {} /\ KeepsFunds /\ timeouts' = timeouts
    /\ IF Unregistered(Shown("own")) = {} THEN Quits
       ELSE Becomes([job EXCEPT !.at = IF Synced("own") THEN "build" ELSE "sync",
                               !.todo = Unregistered(Shown("own"))])

\* The replay is over: the UTXOs are read again, and there may be none left to register.
SyncedState ==
    /\ job.at = "sync" /\ Synced("own") /\ KeepsFunds /\ timeouts' = timeouts
    /\ LET rest == Unregistered(Shown("own"))
       IN  IF rest = {} THEN Quits ELSE Becomes([job EXCEPT !.at = "build", !.todo = rest])

\* A state with NIGHT, whether or not the replay is over (ensureDustRegistration).
Ensure ==
    /\ job.at = "ensure" /\ Shown(job.wallet).night # {}
    /\ KeepsFunds /\ timeouts' = timeouts
    /\ LET rest == Unregistered(Shown(job.wallet))
       IN  Becomes([job EXCEPT !.at = IF rest = {} THEN "dust" ELSE "build", !.todo = rest])

\* registerNightUtxosForDustGeneration books the UTXOs in the state of the wallet: one that is
\* no longer there fails.
BuildRegistration ==
    /\ job.at = "build" /\ KeepsFunds /\ timeouts' = timeouts
    /\ IF job.todo \subseteq Shown(job.wallet).night THEN Becomes([job EXCEPT !.at = "submit"]) ELSE Quits

\* submitTransaction; the script ends if it has no answer in eight minutes, wherever the
\* transaction is by then.
SubmitRegistration ==
    /\ job.at = "submit"
    /\ \/ Becomes([job EXCEPT !.at = "dust", !.todo = {}]) /\ timeouts' = timeouts
       \/ job.script = "register" /\ timeouts < MaxTimeouts /\ timeouts' = timeouts + 1 /\ Quits
    /\ \/ sent' = sent \union {[from |-> job.wallet, to |-> job.wallet, utxos |-> job.todo]}
       \/ timeouts' # timeouts /\ sent' = sent
    /\ UNCHANGED <<history, nextUtxo, funds>>

\* DUST has appeared: register-dust waits for it in a synced state, fund-undeployed in any.
DustAppears ==
    /\ job.at = "dust" /\ Shown(job.wallet).dust
    /\ job.script = "register" => readyToSubmit(job.wallet)
    /\ KeepsFunds /\ timeouts' = timeouts
    /\ IF job.script = "register" THEN Quits ELSE Becomes([job EXCEPT !.at = job.after])

\* The recipient is funded unless it shows NIGHT within three seconds of its replay.
CheckRecipient ==
    /\ job.at = "check"
    /\ IF Shown("own").night # {}
       THEN Becomes([job EXCEPT !.at = "ensure", !.after = "relay"]) /\ sent' = sent
       ELSE /\ sent' = sent \union {[from |-> "genesis", to |-> "own", utxos |-> Shown("genesis").night]}
            /\ Becomes([job EXCEPT !.at = "funded"])
    /\ UNCHANGED <<history, nextUtxo, timeouts, funds>>

\* The transfer has arrived.
Funded ==
    /\ job.at = "funded" /\ Shown("own").night # {}
    /\ Becomes([job EXCEPT !.at = "ensure", !.after = "relay"])
    /\ KeepsFunds /\ timeouts' = timeouts

\* The genesis wallet is registered again; the relayer's is next, and then the script is done.
NextWallet ==
    /\ job.at \in {"relay", "ready"}
    /\ IF job.at = "ready" THEN Quits
       ELSE Becomes([job EXCEPT !.at = "ensure", !.wallet = "own", !.after = "ready"])
    /\ KeepsFunds /\ timeouts' = timeouts

\* Nothing is under way that could end the wait.
Hopeless ==
    /\ sent = {} /\ \A w \in Started : Synced(w) /\ (Chain(w).reg = {} \/ Chain(w).dust)
    /\ \/ job.at = "dust" /\ ~Shown(job.wallet).dust
       \/ job.at \in {"night", "ensure", "funded"} /\ Shown(IF job.at = "funded" THEN "own" ELSE job.wallet).night = {}

GivesUp == Hopeless /\ Quits /\ KeepsFunds /\ timeouts' = timeouts

\* A call or a wait runs out of time although it could have ended well, or the operator stops
\* a fund-undeployed whose calls to the wallet SDK have no limit.
TimesOut ==
    /\ job.at \in {"night", "sync", "build", "dust", "ensure", "funded"}
    /\ timeouts < MaxTimeouts /\ timeouts' = timeouts + 1
    /\ Quits /\ KeepsFunds

ScriptGoes ==
    Snapshot \/ SyncedState \/ Ensure \/ BuildRegistration \/ SubmitRegistration
    \/ DustAppears \/ CheckRecipient \/ Funded \/ NextWallet \/ GivesUp

ReplayGoes == \E w \in Wallets : Replay(w)

BlockComes ==
    \/ \E w \in Wallets : Accrue(w)
    \/ \E tx \in sent : LandRegistration(tx) \/ LandTransfer(tx)

DWNext ==
    \/ ReplayGoes \/ BlockComes
    \/ StartScript("register") \/ StartScript("fund")
    \/ ScriptGoes \/ TimesOut

\* Blocks are produced and replayed, scripts go on, and the owner does not give up.
DWSpec ==
    /\ DWInit /\ [][DWNext]_dwvars
    /\ WF_dwvars(BlockComes) /\ WF_dwvars(ReplayGoes)
    /\ WF_dwvars(ScriptGoes) /\ SF_dwvars(StartScript("register"))

-----------------------------------------------------------------------------
DWTypeOK ==
    /\ \A w \in Wallets : replayed[w] \in 1..Len(history[w])
    /\ \A w \in Wallets : \A i \in DOMAIN history[w] :
          history[w][i].reg \subseteq history[w][i].night /\ history[w][i].night \subseteq 1..nextUtxo - 1
    /\ job.todo \subseteq 1..nextUtxo - 1 /\ (job.at \in {"build", "submit"} => job.todo # {})
    /\ timeouts <= MaxTimeouts

\* A wallet that holds NIGHT has DUST in the end if its owner runs register-dust as often as it
\* takes: early snapshots, timeouts and registrations that were sent and not seen stop it for
\* one run only.
FundedWalletPays == [](Chain("own").night # {} => <>Chain("own").dust)
=============================================================================
