----------------------------- MODULE RelayerV2 -----------------------------
(***************************************************************************)
(* The sponsored relay of relayer/src: V2ActionService (v2-service.ts), the *)
(* durable job store behind it (v2-store.ts, v2-postgres.ts), the wallet    *)
(* executor and the indexer it talks to, and a process that may die between *)
(* any two awaits and be started again.                                     *)
(*                                                                          *)
(* A client request is one vote (or credential, cohort) transaction that is *)
(* already proved; the relayer balances it with its own DUST, submits it,   *)
(* and hands out a receipt once the indexer has seen it.  One process runs  *)
(* at a time (docs/DEPLOYMENT.md:154).  Each await of the code is a point   *)
(* where any other handler, timer or the wallet stage may run, so every     *)
(* stretch of code between two awaits is one action.                        *)
(***************************************************************************)
EXTENDS Naturals, Sequences, FiniteSets

CONSTANTS
    Ids,         \* action ids, the primary key of a job
    Keys,        \* idempotency keys
    Hashes,      \* request hashes: network, contract, circuit, action and tx
    Caps,        \* digests of signed one-time capabilities
    Requests,    \* authentic requests [id, key, hash, cap] a client may send
    Handlers,    \* concurrent HTTP deliveries of POST /v2/actions
    AlienTx,     \* an identifier other than the one the finalized tx has
    NoTx,        \* no transaction id
    NoReq,       \* no request
    MaxDeliveries, \* bound on the POST requests delivered, retries included
    MaxPolls,      \* bound on the GET requests that reconcile
    MaxRequests,   \* bound on the POST and GET requests together
    MaxCrashes     \* bound on process deaths

(* The finalized transaction of a job is identified by the job's id.        *)
TxIds == Ids \cup {AlienTx}

ASSUME RequestsAssumption ==
    Requests \subseteq [id : Ids, key : Keys, hash : Hashes, cap : Caps]

(* verifyV2Capability: the signed claims carry the action id, the key and   *)
(* the request hash, so one capability authenticates one request.           *)
ASSUME CapabilityBinding == \A r, s \in Requests : r.cap = s.cap => r = s

ASSUME DistinctValues ==
    /\ AlienTx \notin Ids
    /\ NoTx \notin TxIds
    /\ NoReq \notin Requests

ASSUME BoundsAssumption ==
    /\ MaxDeliveries \in Nat /\ MaxPolls \in Nat
    /\ MaxRequests \in Nat /\ MaxCrashes \in Nat

-----------------------------------------------------------------------------

Statuses == {"authorized", "validated", "dust_reserved", "finalized",
             "submitted", "indexer_pending", "confirmed", "failed",
             "recovery_required"}

RecoverableStatuses == {"authorized", "validated", "dust_reserved",
                        "finalized", "submitted", "indexer_pending"}

(* The statuses under which a job holds the single DUST lease.              *)
LeaseStatuses == {"dust_reserved", "finalized", "submitted", "indexer_pending"}

ErrorCodes == {"none", "capability_replayed", "transaction_rejected",
               "submission_unknown", "submission_id_mismatch",
               "indexer_contract_mismatch", "indexer_rejected",
               "recovery_required"}

(* A durable job.  Of the receipt only the transaction it is about matters. *)
Job == [status      : Statuses \cup {"absent"},
        req         : Requests \cup {NoReq},
        transitions : Seq(Statuses),
        txid        : TxIds \cup {NoTx},
        receipt     : TxIds \cup {NoTx},
        error       : ErrorCodes]

NoJob == [status |-> "absent", req |-> NoReq, transitions |-> << >>,
          txid |-> NoTx, receipt |-> NoTx, error |-> "none"]

VARIABLES
    \* durable: the V2ActionStore
    jobs,         \* [Ids -> Job]
    consumed,     \* capability digests consumed
    \* memory of the running process
    proc,         \* "up", "down" or "starting"
    recovering,   \* jobs the start() loop has still to look at
    accepts,      \* [Handlers -> the state of one accept() call]
    transient,    \* ids whose transaction bytes are in memory
    running,      \* ids with a wallet stage queued or under way
    walletTail,   \* the queue of wallet stages, the head not yet started
    wallet,       \* the wallet stage under way
    runTimers,    \* ids with a scheduleRun timer set
    reconcileDue, \* ids with a reconcile call due: timers and GET requests
    reconciling,  \* reconcile calls under way
    \* outside the process
    chain,        \* what the indexer knows or will know of a transaction
    submits,      \* how often the finalized tx of a job reached the network
    deliveries, polls, crashes   \* counters of what the environment has done

durable  == <<jobs, consumed>>
inMemory == <<recovering, accepts, transient, running, walletTail, wallet,
              runTimers, reconcileDue, reconciling>>
outside  == <<chain, submits>>
counters == <<deliveries, polls, crashes>>

\* The bound on the requests is not spent yet.
MayRequest == deliveries + polls < MaxRequests
vars == <<durable, proc, inMemory, outside, counters>>

-----------------------------------------------------------------------------
(* The store.  Every method is one atomic transaction.                      *)

Exists(id) == jobs[id].status # "absent"

HoldsLease(id) == jobs[id].status \in LeaseStatuses

(* The rows a new request collides with: same id, same key or same hash.    *)
Matching(r) ==
    {id \in Ids : /\ Exists(id)
                  /\ \/ id = r.id
                     \/ jobs[id].req.key = r.key
                     \/ jobs[id].req.hash = r.hash}

(* transition(): compare-and-set on the status, the patch merged in and the *)
(* new status appended to the lifecycle evidence.                           *)
Moved(job, status) ==
    [job EXCEPT !.status = status, !.transitions = Append(@, status)]

Failed(job, code) == [Moved(job, "failed") EXCEPT !.error = code]

Transition(id, expected, patched) ==
    jobs' = IF jobs[id].status \in expected
              THEN [jobs EXCEPT ![id] = patched]
              ELSE jobs

(* Mutant: the lease ends when the node has answered.                       *)
DustFreeAfterAnswer(id) ==
    \A other \in Ids \ {id} :
        jobs[other].status \notin {"dust_reserved", "finalized", "submitted"}

(* The single DUST lease of the relayer wallet is free for this job.        *)
DustFree(id) == \A other \in Ids \ {id} : ~HoldsLease(other)

-----------------------------------------------------------------------------
(* Handlers of POST /v2/actions: accept().                                  *)

IdleAccept == [pc |-> "idle", req |-> NoReq, id |-> NoTx, created |-> FALSE,
               status |-> "absent", txid |-> NoTx]

AcceptState ==
    [pc      : {"idle", "checkKey", "consume", "replayed", "attach"},
     req     : Requests \cup {NoReq},
     id      : Ids \cup {NoTx},
     created : BOOLEAN,
     status  : Statuses \cup {"absent"},
     txid    : TxIds \cup {NoTx}]

AcceptGoes(h, pc) == accepts' = [accepts EXCEPT ![h].pc = pc]

AcceptEnds(h) == accepts' = [accepts EXCEPT ![h] = IdleAccept]

(* createOrGet() of a request that collides with no row.                    *)
CreateJob(h, r) ==
    /\ proc = "up" /\ accepts[h].pc = "idle"
    /\ MayRequest
    /\ deliveries < MaxDeliveries /\ deliveries' = deliveries + 1
    /\ Matching(r) = {}
    /\ jobs' = [jobs EXCEPT ![r.id] = [NoJob EXCEPT
                    !.status = "authorized", !.req = r,
                    !.transitions = <<"authorized">>]]
    /\ accepts' = [accepts EXCEPT ![h] =
                    [pc |-> "checkKey", req |-> r, id |-> r.id,
                     created |-> TRUE, status |-> "authorized", txid |-> NoTx]]
    /\ UNCHANGED <<consumed, proc, recovering, transient, running, walletTail,
                   wallet, runTimers, reconcileDue, reconciling, outside, polls, crashes>>

(* createOrGet() of a request that collides with a row of the same hash: a  *)
(* snapshot of that row is what the rest of accept() works with.  A row of  *)
(* another hash answers 409 and changes nothing.  The stores differ in      *)
(* which colliding row they find first.                                     *)
FindJob(h, r) ==
    /\ proc = "up" /\ accepts[h].pc = "idle"
    /\ MayRequest
    /\ deliveries < MaxDeliveries /\ deliveries' = deliveries + 1
    /\ \E id \in Matching(r) :
         /\ jobs[id].req.hash = r.hash
         /\ accepts' = [accepts EXCEPT ![h] =
                          [pc |-> "checkKey", req |-> r, id |-> id,
                           created |-> FALSE, status |-> jobs[id].status,
                           txid |-> jobs[id].txid]]
    /\ UNCHANGED <<durable, proc, recovering, transient, running, walletTail,
                   wallet, runTimers, reconcileDue, reconciling, outside, polls, crashes>>

(* getByIdempotencyKey() and the 409 it may lead to.  An exact retry goes   *)
(* on to consume its capability; another capability for the same bytes does *)
(* not.                                                                     *)
CheckKey(h) ==
    LET a == accepts[h]
        clash == \E id \in Ids : /\ Exists(id)
                                 /\ jobs[id].req.key = a.req.key
                                 /\ \/ jobs[id].req.hash # a.req.hash
                                    \/ jobs[id].req.cap # a.req.cap
    IN  /\ proc = "up" /\ a.pc = "checkKey"
        /\ IF clash THEN AcceptEnds(h)
           ELSE IF a.created \/ jobs[a.id].req.cap = a.req.cap
                  THEN AcceptGoes(h, "consume")
                  ELSE AcceptGoes(h, "attach")
        /\ UNCHANGED <<durable, proc, recovering, transient, running, walletTail,
                       wallet, runTimers, reconcileDue, reconciling, outside, counters>>

(* consumeCapability(): insert if absent.  Only the creator of the job      *)
(* minds that the digest was already there.                                 *)
ConsumeCapability(h) ==
    LET a == accepts[h]
    IN  /\ proc = "up" /\ a.pc = "consume"
        /\ consumed' = consumed \cup {a.req.cap}
        /\ AcceptGoes(h, IF a.created /\ a.req.cap \in consumed
                           THEN "replayed" ELSE "attach")
        /\ UNCHANGED <<jobs, proc, recovering, transient, running, walletTail,
                       wallet, runTimers, reconcileDue, reconciling, outside, counters>>

(* The creator fails the job it has just created, and answers 409.          *)
RejectReplay(h) ==
    LET id == accepts[h].id
    IN  /\ proc = "up" /\ accepts[h].pc = "replayed"
        /\ Transition(id, {"authorized"}, Failed(jobs[id], "capability_replayed"))
        /\ AcceptEnds(h)
        /\ UNCHANGED <<consumed, proc, recovering, transient, running, walletTail,
                       wallet, runTimers, reconcileDue, reconciling, outside, counters>>

(* run(): a wallet stage joins the queue.                                   *)
Run(id) ==
    /\ running' = running \cup {id}
    /\ walletTail' = Append(walletTail, id)

(* The tail of accept(): decided by the snapshot createOrGet() returned, not *)
(* by the row as it is now.                                                 *)
Attach(h) ==
    LET a == accepts[h]
    IN  /\ proc = "up" /\ a.pc = "attach"
        /\ transient' = IF a.status = "authorized" \/ a.created
                          THEN transient \cup {a.id} ELSE transient
        /\ IF a.status = "authorized" /\ a.id \notin running
             THEN Run(a.id) /\ UNCHANGED reconcileDue
             ELSE /\ reconcileDue' =
                       IF a.status \in {"submitted", "indexer_pending"} /\ a.txid # NoTx
                         THEN reconcileDue \cup {a.id} ELSE reconcileDue
                  /\ UNCHANGED <<running, walletTail>>
        /\ AcceptEnds(h)
        /\ UNCHANGED <<durable, proc, recovering, wallet, runTimers,
                       reconciling, outside, counters>>

-----------------------------------------------------------------------------
(* runWalletStage(), one stage at a time off the walletTail queue.          *)

IdleWallet == [pc |-> "idle", id |-> NoTx, derived |-> NoTx, answer |-> NoTx]

WalletState ==
    [pc      : {"idle", "validate", "reserve", "balance", "reject", "finalize",
                "intend", "submit", "await", "accepted", "unknown"},
     id      : Ids \cup {NoTx},
     derived : TxIds \cup {NoTx},
     answer  : TxIds \cup {NoTx}]

WalletAt(pc) == proc = "up" /\ wallet.pc = pc

WalletGoes(pc) == wallet' = [wallet EXCEPT !.pc = pc] /\ UNCHANGED running

(* The stage returns; run()'s finally takes the id out of `running`.        *)
WalletEnds == wallet' = IdleWallet /\ running' = running \ {wallet.id}

(* The stage starts: get() and the transient bytes, and the early return.   *)
StageRead ==
    LET id == Head(walletTail)
    IN  /\ WalletAt("idle") /\ walletTail # << >>
        /\ walletTail' = Tail(walletTail)
        /\ IF jobs[id].status = "authorized" /\ id \in transient
             THEN /\ wallet' = [IdleWallet EXCEPT !.pc = "validate", !.id = id]
                  /\ UNCHANGED running
             ELSE running' = running \ {id} /\ UNCHANGED wallet
        /\ UNCHANGED <<durable, proc, recovering, accepts, transient, runTimers,
                       reconcileDue, reconciling, outside, counters>>

StageValidate ==
    LET id == wallet.id
    IN  /\ WalletAt("validate")
        /\ Transition(id, {"authorized"}, Moved(jobs[id], "validated"))
        /\ IF jobs[id].status = "authorized" THEN WalletGoes("reserve") ELSE WalletEnds
        /\ UNCHANGED <<consumed, proc, recovering, accepts, transient, walletTail,
                       runTimers, reconcileDue, reconciling, outside, counters>>

(* reserveDust(): refused while another job holds the lease, in which case  *)
(* the stage sets a timer to run again and returns.                         *)
StageReserve ==
    LET id == wallet.id
        free == jobs[id].status = "validated" /\ DustFree(id)
    IN  /\ WalletAt("reserve")
        /\ IF free
             THEN /\ jobs' = [jobs EXCEPT ![id] = Moved(@, "dust_reserved")]
                  /\ WalletGoes("balance")
                  /\ UNCHANGED runTimers
             ELSE /\ runTimers' = runTimers \cup {id}
                  /\ WalletEnds
                  /\ UNCHANGED jobs
        /\ UNCHANGED <<consumed, proc, recovering, accepts, transient, walletTail,
                       reconcileDue, reconciling, outside, counters>>

(* balanceAndFinalize() returns; transactionId() may or may not be able to  *)
(* derive the identifier from the bytes.                                    *)
StageBalance ==
    /\ WalletAt("balance")
    /\ transient' = transient \cup {wallet.id}
    /\ \E derived \in {wallet.id, NoTx} :
         wallet' = [wallet EXCEPT !.pc = "finalize", !.derived = derived]
    /\ UNCHANGED <<durable, proc, recovering, accepts, running, walletTail,
                   runTimers, reconcileDue, reconciling, outside, counters>>

(* balanceAndFinalize() throws.                                             *)
StageBalanceThrows ==
    /\ WalletAt("balance")
    /\ transient' = transient \ {wallet.id}
    /\ WalletGoes("reject")
    /\ UNCHANGED <<durable, proc, recovering, accepts, walletTail,
                   runTimers, reconcileDue, reconciling, outside, counters>>

StageReject ==
    LET id == wallet.id
    IN  /\ WalletAt("reject")
        /\ Transition(id, {"dust_reserved"}, Failed(jobs[id], "transaction_rejected"))
        /\ WalletEnds
        /\ UNCHANGED <<consumed, proc, recovering, accepts, transient, walletTail,
                       runTimers, reconcileDue, reconciling, outside, counters>>

(* The derived identifier is persisted with `finalized`.  The code does not *)
(* look at whether this transition happened.                                *)
StageFinalize ==
    LET id == wallet.id
        job == Moved(jobs[id], "finalized")
    IN  /\ WalletAt("finalize")
        /\ Transition(id, {"dust_reserved"},
             IF wallet.derived = NoTx THEN job
             ELSE [job EXCEPT !.txid = wallet.derived])
        /\ WalletGoes("intend")
        /\ UNCHANGED <<consumed, proc, recovering, accepts, transient, walletTail,
                       runTimers, reconcileDue, reconciling, outside, counters>>

(* The durable submission intent, written before the network call.          *)
StageIntend ==
    LET id == wallet.id
    IN  /\ WalletAt("intend")
        /\ Transition(id, {"finalized"}, Moved(jobs[id], "submitted"))
        /\ IF jobs[id].status = "finalized" THEN WalletGoes("submit") ELSE WalletEnds
        /\ UNCHANGED <<consumed, proc, recovering, accepts, transient, walletTail,
                       runTimers, reconcileDue, reconciling, outside, counters>>

(* The finalized transaction reaches the network.                           *)
NodeReceives ==
    /\ WalletAt("submit")
    /\ submits' = [submits EXCEPT ![wallet.id] = @ + 1]
    /\ chain' = [chain EXCEPT ![wallet.id] = IF @ = "absent" THEN "inflight" ELSE @]
    /\ WalletGoes("await")
    /\ UNCHANGED <<durable, proc, recovering, accepts, transient, walletTail,
                   runTimers, reconcileDue, reconciling, counters>>

(* submit() returns an identifier: the transaction's own, or another one.   *)
SubmitReturns ==
    /\ WalletAt("await")
    /\ transient' = transient \ {wallet.id}
    /\ \E t \in {wallet.id, AlienTx} :
         wallet' = [wallet EXCEPT !.pc = "accepted", !.answer = t]
    /\ UNCHANGED <<durable, proc, recovering, accepts, running, walletTail,
                   runTimers, reconcileDue, reconciling, outside, counters>>

(* submit() throws: the node refused, could not be reached, answered with   *)
(* no identifier, or its answer was lost on the way back.                   *)
SubmitThrows ==
    /\ WalletAt("submit") \/ WalletAt("await")
    /\ transient' = transient \ {wallet.id}
    /\ WalletGoes("unknown")
    /\ UNCHANGED <<durable, proc, recovering, accepts, walletTail,
                   runTimers, reconcileDue, reconciling, outside, counters>>

(* The node answered.  An identifier that differs from the derived one is a *)
(* failure; otherwise the job waits for the indexer.                        *)
StageAccepted ==
    LET id == wallet.id
        mismatch == wallet.derived # NoTx /\ wallet.answer # wallet.derived
    IN  /\ WalletAt("accepted")
        /\ Transition(id, {"submitted"},
             IF mismatch THEN Failed(jobs[id], "submission_id_mismatch")
             ELSE [Moved(jobs[id], "indexer_pending") EXCEPT !.txid = wallet.answer])
        /\ reconcileDue' = IF mismatch THEN reconcileDue ELSE reconcileDue \cup {id}
        /\ WalletEnds
        /\ UNCHANGED <<consumed, proc, recovering, accepts, transient, walletTail,
                       runTimers, reconciling, outside, counters>>

(* Mutant: a submission that threw is tried again.                          *)
StageUnknownRetries ==
    /\ WalletAt("unknown")
    /\ WalletGoes("submit")
    /\ UNCHANGED <<durable, proc, recovering, accepts, transient, walletTail,
                   runTimers, reconcileDue, reconciling, outside, counters>>

(* Mutant: a submission that threw is taken as rejected.                    *)
StageUnknownRejects ==
    LET id == wallet.id
    IN  /\ WalletAt("unknown")
        /\ Transition(id, {"submitted"}, Failed(jobs[id], "transaction_rejected"))
        /\ WalletEnds
        /\ UNCHANGED <<consumed, proc, recovering, accepts, transient, walletTail,
                       runTimers, reconcileDue, reconciling, outside, counters>>

(* The node's answer is not known: reconcile by the derived identifier when *)
(* there is one, never submit again.                                        *)
StageUnknown ==
    LET id == wallet.id
    IN  /\ WalletAt("unknown")
        /\ IF wallet.derived # NoTx
             THEN /\ Transition(id, {"submitted"},
                       [Moved(jobs[id], "indexer_pending") EXCEPT !.txid = wallet.derived])
                  /\ reconcileDue' = reconcileDue \cup {id}
             ELSE /\ Transition(id, {"submitted"},
                       [Moved(jobs[id], "recovery_required")
                          EXCEPT !.error = "submission_unknown"])
                  /\ UNCHANGED reconcileDue
        /\ WalletEnds
        /\ UNCHANGED <<consumed, proc, recovering, accepts, transient, walletTail,
                       runTimers, reconciling, outside, counters>>

(* A scheduleRun timer fires.                                               *)
RunTimer(id) ==
    /\ proc = "up" /\ id \in runTimers
    /\ runTimers' = runTimers \ {id}
    /\ IF id \notin running THEN Run(id) ELSE UNCHANGED <<running, walletTail>>
    /\ UNCHANGED <<durable, proc, recovering, accepts, transient, wallet,
                   reconcileDue, reconciling, outside, counters>>

-----------------------------------------------------------------------------
(* reconcile(): from a timer, from GET /v2/actions/:id and from             *)
(* GET /v2/actions/:id/receipt.                                             *)

Verdicts == {"asked", "lagging", "receipt", "indexer_rejected",
             "indexer_contract_mismatch"}

Settling == [id : Ids, txid : TxIds, verdict : Verdicts]

(* get() and getReceipt() call reconcile() themselves.                      *)
Poll(id) ==
    /\ MayRequest
    /\ proc = "up" /\ polls < MaxPolls /\ polls' = polls + 1
    /\ jobs[id].status \notin {"absent", "confirmed"} /\ jobs[id].txid # NoTx
    /\ reconcileDue' = reconcileDue \cup {id}
    /\ UNCHANGED <<durable, proc, recovering, accepts, transient, running,
                   walletTail, wallet, runTimers, reconciling, outside,
                   deliveries, crashes>>

(* reconcile() reads the job and asks the resolver about its transaction.   *)
ReconcileRead(id) ==
    LET job == jobs[id]
    IN  /\ proc # "down" /\ id \in reconcileDue
        /\ reconcileDue' = reconcileDue \ {id}
        /\ reconciling' =
             IF job.status \in {"absent", "confirmed", "failed"} \/ job.txid = NoTx
               THEN reconciling
               ELSE reconciling \cup {[id |-> id, txid |-> job.txid, verdict |-> "asked"]}
        /\ UNCHANGED <<durable, proc, recovering, accepts, transient, running,
                       walletTail, wallet, runTimers, outside, counters>>

(* Mutant: the transaction result is not looked at.                         *)
ResolveAnyResult(t) ==
    CASE chain[t] \in {"success", "failure"} -> "receipt"
      [] chain[t] = "foreign"                -> "indexer_contract_mismatch"
      [] OTHER                               -> "lagging"

(* Mutant: a code the service does not know.                                *)
ResolveOtherCode(t) ==
    CASE chain[t] = "success"  -> "receipt"
      [] chain[t] = "failure"  -> "rejected"
      [] chain[t] = "foreign"  -> "indexer_contract_mismatch"
      [] OTHER                 -> "lagging"

(* What the indexer says of a transaction.                                  *)
Resolve(t) ==
    CASE chain[t] = "success"  -> "receipt"
      [] chain[t] = "failure"  -> "indexer_rejected"
      [] chain[t] = "foreign"  -> "indexer_contract_mismatch"
      [] OTHER                 -> "lagging"

(* The indexer answers.                                                     *)
ResolverAnswers(task) ==
    /\ proc # "down" /\ task \in reconciling /\ task.verdict = "asked"
    /\ reconciling' = (reconciling \ {task})
                        \cup {[task EXCEPT !.verdict = Resolve(task.txid)]}
    /\ UNCHANGED <<durable, proc, recovering, accepts, transient, running, walletTail,
                   wallet, runTimers, reconcileDue, outside, counters>>

(* A timeout (null), a network failure, a malformed answer or a GraphQL     *)
(* error: reconcile() treats them alike, as lag.                            *)
ResolverThrows(task) ==
    /\ proc # "down" /\ task \in reconciling /\ task.verdict = "asked"
    /\ reconciling' = (reconciling \ {task})
                        \cup {[task EXCEPT !.verdict = "lagging"]}
    /\ UNCHANGED <<durable, proc, recovering, accepts, transient, running, walletTail,
                   wallet, runTimers, reconcileDue, outside, counters>>

(* Mutant: no timer is set while the indexer lags.                          *)
ReconcileApplyOnce(task) ==
    LET id == task.id
        pending == {"submitted", "indexer_pending"}
    IN  /\ proc # "down" /\ task \in reconciling /\ task.verdict # "asked"
        /\ reconciling' = reconciling \ {task}
        /\ IF task.verdict = "lagging"
             THEN UNCHANGED <<jobs, reconcileDue>>
             ELSE /\ Transition(id, pending,
                       IF task.verdict = "receipt"
                         THEN [Moved(jobs[id], "confirmed") EXCEPT !.receipt = task.txid]
                         ELSE Failed(jobs[id], task.verdict))
                  /\ UNCHANGED reconcileDue
        /\ UNCHANGED <<consumed, proc, recovering, accepts, transient, running,
                       walletTail, wallet, runTimers, outside, counters>>

(* The rest of reconcile(): a compare-and-set on the job as it is now, or   *)
(* another timer when nothing definite is known.                            *)
ReconcileApply(task) ==
    LET id == task.id
        pending == {"submitted", "indexer_pending"}
    IN  /\ proc # "down" /\ task \in reconciling /\ task.verdict # "asked"
        /\ reconciling' = reconciling \ {task}
        /\ IF task.verdict = "lagging"
             THEN reconcileDue' = reconcileDue \cup {id} /\ UNCHANGED jobs
             ELSE /\ Transition(id, pending,
                       IF task.verdict = "receipt"
                         THEN [Moved(jobs[id], "confirmed") EXCEPT !.receipt = task.txid]
                         ELSE Failed(jobs[id], task.verdict))
                  /\ UNCHANGED reconcileDue
        /\ UNCHANGED <<consumed, proc, recovering, accepts, transient, running,
                       walletTail, wallet, runTimers, outside, counters>>

-----------------------------------------------------------------------------
(* Death of the process, and start().                                       *)

Crash ==
    /\ proc # "down" /\ crashes < MaxCrashes
    /\ proc' = "down"
    /\ crashes' = crashes + 1
    /\ recovering' = {}
    /\ accepts' = [h \in Handlers |-> IdleAccept]
    /\ transient' = {} /\ running' = {} /\ walletTail' = << >>
    /\ wallet' = IdleWallet
    /\ runTimers' = {} /\ reconcileDue' = {} /\ reconciling' = {}
    /\ UNCHANGED <<durable, outside, deliveries, polls>>

(* A new process lists the recoverable jobs.  It listens only once the loop *)
(* below is over, so nobody else writes a job it has listed.                *)
StartList ==
    /\ proc = "down"
    /\ proc' = "starting"
    /\ recovering' = {id \in Ids : jobs[id].status \in RecoverableStatuses}
    /\ UNCHANGED <<durable, accepts, transient, running, walletTail, wallet,
                   runTimers, reconcileDue, reconciling, outside, counters>>

(* Mutant: every job that was interrupted is parked for a replay.           *)
StartRecoverParks(id) ==
    /\ proc = "starting" /\ id \in recovering
    /\ recovering' = recovering \ {id}
    /\ IF jobs[id].status = "indexer_pending"
         THEN reconcileDue' = reconcileDue \cup {id} /\ UNCHANGED jobs
         ELSE /\ Transition(id, {"authorized", "validated", "dust_reserved", "finalized",
                         "submitted"},
                   [Moved(jobs[id], "recovery_required")
                      EXCEPT !.error = "recovery_required"])
              /\ UNCHANGED reconcileDue
    /\ UNCHANGED <<consumed, proc, accepts, transient, running, walletTail, wallet,
                   runTimers, reconciling, outside, counters>>

(* Mutant: a restart leaves submitted jobs to the clients that poll.        *)
StartRecoverForgets(id) ==
    /\ proc = "starting" /\ id \in recovering
    /\ recovering' = recovering \ {id}
    /\ IF jobs[id].status \in {"submitted", "indexer_pending"} /\ jobs[id].txid # NoTx
         THEN UNCHANGED <<jobs, reconcileDue>>
         ELSE /\ Transition(id, {"authorized", "validated", "dust_reserved", "finalized"},
                   [Moved(jobs[id], "recovery_required")
                      EXCEPT !.error = "recovery_required"])
              /\ UNCHANGED reconcileDue
    /\ UNCHANGED <<consumed, proc, accepts, transient, running, walletTail, wallet,
                   runTimers, reconciling, outside, counters>>

(* One turn of the loop.  A job without an identifier that was already      *)
(* submitted matches neither branch.                                        *)
StartRecover(id) ==
    /\ proc = "starting" /\ id \in recovering
    /\ recovering' = recovering \ {id}
    /\ IF jobs[id].status \in {"submitted", "indexer_pending"} /\ jobs[id].txid # NoTx
         THEN reconcileDue' = reconcileDue \cup {id} /\ UNCHANGED jobs
         ELSE /\ Transition(id, {"authorized", "validated", "dust_reserved", "finalized"},
                   [Moved(jobs[id], "recovery_required")
                      EXCEPT !.error = "recovery_required"])
              /\ UNCHANGED reconcileDue
    /\ UNCHANGED <<consumed, proc, accepts, transient, running, walletTail, wallet,
                   runTimers, reconciling, outside, counters>>

StartListens ==
    /\ proc = "starting" /\ recovering = {}
    /\ proc' = "up"
    /\ UNCHANGED <<durable, inMemory, outside, counters>>

-----------------------------------------------------------------------------
(* The chain and its indexer: a transaction the network has is indexed, as  *)
(* a success on the requested contract, a failure, or a success elsewhere.  *)
(* AlienTx is the worst case for a receipt: it is already indexed as a      *)
(* success.                                                                 *)

IndexerSees(t) ==
    /\ chain[t] = "inflight"
    /\ \E s \in {"success", "failure", "foreign"} : chain' = [chain EXCEPT ![t] = s]
    /\ UNCHANGED <<durable, proc, inMemory, submits, counters>>

-----------------------------------------------------------------------------

Init ==
    /\ jobs = [id \in Ids |-> NoJob]
    /\ consumed = {}
    /\ proc = "up"
    /\ recovering = {}
    /\ accepts = [h \in Handlers |-> IdleAccept]
    /\ transient = {} /\ running = {} /\ walletTail = << >>
    /\ wallet = IdleWallet
    /\ runTimers = {} /\ reconcileDue = {} /\ reconciling = {}
    /\ chain = [t \in TxIds |-> IF t = AlienTx THEN "success" ELSE "absent"]
    /\ submits = [id \in Ids |-> 0]
    /\ deliveries = 0 /\ polls = 0 /\ crashes = 0

WalletStage ==
    \/ StageRead \/ StageValidate \/ StageReserve
    \/ StageBalance \/ StageBalanceThrows \/ StageReject
    \/ StageFinalize \/ StageIntend
    \/ NodeReceives \/ SubmitReturns \/ SubmitThrows
    \/ StageAccepted \/ StageUnknown

AcceptSteps(h) ==
    \/ CheckKey(h) \/ ConsumeCapability(h) \/ RejectReplay(h) \/ Attach(h)

Start == StartList \/ StartListens \/ \E id \in Ids : StartRecover(id)

Answered(id)  == \E task \in reconciling : task.id = id /\ ResolverAnswers(task)
Unanswered(id) == \E task \in reconciling : task.id = id /\ ResolverThrows(task)
Applied(id)   == \E task \in reconciling : task.id = id /\ ReconcileApply(task)

Next ==
    \/ \E h \in Handlers, r \in Requests : CreateJob(h, r) \/ FindJob(h, r)
    \/ \E h \in Handlers : AcceptSteps(h)
    \/ WalletStage
    \/ \E id \in Ids : \/ RunTimer(id) \/ Poll(id) \/ ReconcileRead(id)
                       \/ Answered(id) \/ Unanswered(id) \/ Applied(id)
                       \/ IndexerSees(id)
    \/ Crash \/ Start

Spec == Init /\ [][Next]_vars

(* Fairness: a promise the event loop has queued is run, a timer that is    *)
(* set fires, a supervisor restarts the process, the chain includes what it *)
(* received, and an indexer asked again and again answers in the end.       *)
Fairness ==
    /\ \A h \in Handlers : WF_vars(AcceptSteps(h))
    /\ WF_vars(WalletStage)
    /\ WF_vars(Start)
    /\ \A id \in Ids : /\ WF_vars(RunTimer(id))
                       /\ WF_vars(ReconcileRead(id))
                       /\ WF_vars(Answered(id) \/ Unanswered(id))
                       /\ SF_vars(Answered(id))
                       /\ WF_vars(Applied(id))
                       /\ WF_vars(IndexerSees(id))

FairSpec == Spec /\ Fairness
-----------------------------------------------------------------------------
(* Properties.                                                              *)

(* The types of the variables; and a job's lifecycle evidence ends with the *)
(* status it is in (the `transitions` column of the store).                 *)
TypeOK ==
    /\ jobs \in [Ids -> Job]
    /\ consumed \subseteq Caps
    /\ proc \in {"up", "down", "starting"}
    /\ recovering \subseteq Ids
    /\ accepts \in [Handlers -> AcceptState]
    /\ transient \subseteq Ids
    /\ running \subseteq Ids
    /\ walletTail \in Seq(Ids)
    /\ wallet \in WalletState
    /\ runTimers \subseteq Ids
    /\ reconcileDue \subseteq Ids
    /\ reconciling \subseteq Settling
    /\ chain \in [TxIds -> {"absent", "inflight", "success", "failure", "foreign"}]
    /\ submits \in [Ids -> Nat]
    /\ deliveries \in 0 .. MaxDeliveries
    /\ polls \in 0 .. MaxPolls
    /\ crashes \in 0 .. MaxCrashes

(* However often a request is delivered, and wherever the process dies, its *)
(* transaction is sent to the network at most once (v2-service.ts:324       *)
(* "never blindly submitted a second time").                                *)
SubmitAtMostOnce == \A id \in Ids : submits[id] <= 1

(* A job the journal shows as not yet submitted, or parked by start() with  *)
(* `recovery_required`, has sent nothing: an operator who replays it cannot *)
(* double-spend.  This is what writing the intent before the call is for.   *)
UnsentWhileReplayable ==
    \A id \in Ids :
        \/ jobs[id].status \in {"absent", "authorized", "validated",
                                "dust_reserved", "finalized"}
        \/ jobs[id].error = "recovery_required"
        => submits[id] = 0

(* At most one job holds the DUST lease (reserveDust()).                    *)
DustLeaseExclusive ==
    \A a, b \in Ids : HoldsLease(a) /\ HoldsLease(b) => a = b

(* A transaction the network has and the indexer has not yet settled keeps  *)
(* the lease, so no other job is balanced against the same DUST, unless the *)
(* node's answer was ambiguous: another identifier, or none and no derived  *)
(* one.                                                                     *)
UnsettledTxHoldsLease ==
    \A id \in Ids : chain[id] = "inflight" =>
        \/ HoldsLease(id)
        \/ jobs[id].error \in {"submission_id_mismatch", "submission_unknown"}
        \/ jobs[id].txid = AlienTx

(* What a job ends with is what the indexer has of the identifier in its    *)
(* journal, once the job has sent its transaction, and only once: confirmed *)
(* exactly with a receipt, of that identifier, for which the indexer has a  *)
(* success on the contract asked for; failed as rejected or as another      *)
(* contract's, a failure or a transaction of another contract               *)
(* (v2-service.ts:71 "only a confirmed indexer observation can write a      *)
(* receipt").  The identifier is the one the node answered with when none   *)
(* was derived: whose transaction it names nobody checks.                   *)
ReceiptBacked ==
    \A id \in Ids :
        LET job == jobs[id]
        IN  /\ job.status = "confirmed" <=> job.receipt # NoTx
            /\ job.receipt # NoTx =>
                 submits[id] = 1 /\ job.receipt = job.txid /\ chain[job.txid] = "success"
            /\ job.error \in {"indexer_rejected", "indexer_contract_mismatch"} =>
                 /\ job.status = "failed" /\ submits[id] = 1 /\ job.txid # NoTx
                 /\ chain[job.txid] = IF job.error = "indexer_rejected" THEN "failure" ELSE "foreign"

(* In the end every job whose own transaction the indexer has is confirmed  *)
(* or failed, and stays so, also across restarts: reconcile() is always     *)
(* scheduled again (start, reconcile, scheduleReconcile).                   *)
VoteSettles ==
    <>[](\A id \in Ids :
            jobs[id].txid = id /\ chain[id] \in {"success", "failure", "foreign"}
              => jobs[id].status \in {"confirmed", "failed"})

(* Mutant: a job whose transaction was handed over is reported confirmed.   *)
PublicPhaseEager(status) ==
    CASE status = "absent" -> "unknown"
      [] status \in {"confirmed", "indexer_pending"} -> "confirmed"
      [] status \in {"failed", "recovery_required"} -> "closed"
      [] OTHER -> "open"

(* The public status of a job (publicJob()), and the relay as an            *)
(* implementation of SponsoredAction.                                       *)
PublicPhase(status) ==
    CASE status = "absent" -> "unknown"
      [] status = "confirmed" -> "confirmed"
      [] status \in {"failed", "recovery_required"} -> "closed"
      [] OTHER -> "open"

Promise == INSTANCE SponsoredAction
             WITH phase <- [id \in Ids |-> PublicPhase(jobs[id].status)],
                  sends <- submits

(* The relay keeps the promise of SponsoredAction through duplicates,       *)
(* crashes and lost answers.                                                *)
KeepsPromise == Promise!Spec

(* A job that waits for the indexer under a known identifier is never       *)
(* forgotten: the wallet stage is still at it, or a reconcile call is due   *)
(* or under way.                                                            *)
PendingJobWatched ==
    \A id \in Ids :
        /\ proc = "up"
        /\ jobs[id].status \in {"submitted", "indexer_pending"}
        /\ jobs[id].txid # NoTx
        => \/ wallet.id = id
           \/ id \in reconcileDue
           \/ \E task \in reconciling : task.id = id

(* docs/DEPLOYMENT.md:242: an allowlisted action completes balance,         *)
(* finalize, submit and confirmation.  So a validated job takes the DUST    *)
(* lease when it is free, which is what the scheduleRun timer is for.       *)
ValidatedJobTakesFreeLease ==
    \A id \in Ids : jobs[id].status = "validated" /\ DustFree(id) ~>
                        jobs[id].status # "validated" \/ ~DustFree(id)
=============================================================================
