-------------------------- MODULE RelayerV2Proofs --------------------------
(***************************************************************************)
(* Theorems about RelayerV2, for every set of requests and handlers and     *)
(* every bound: types, the safety of sending and of replaying, how the jobs *)
(* settle, and the refinement of SponsoredAction.                           *)
(***************************************************************************)
EXTENDS RelayerV2, TLAPS

-----------------------------------------------------------------------------
(* Types.                                                                   *)

(* A patch of transition() keeps a job a job.                               *)
LEMMA MovedType ==
    ASSUME NEW job \in Job, NEW status \in Statuses
    PROVE  /\ Moved(job, status) \in Job
           /\ Moved(job, status).status = status
           /\ Moved(job, status).txid = job.txid
           /\ Moved(job, status).receipt = job.receipt
           /\ Moved(job, status).error = job.error
           /\ Moved(job, status).req = job.req
           /\ Moved(job, status).transitions = Append(job.transitions, status)
<1>1. Append(job.transitions, status) \in Seq(Statuses)
  BY DEF Job
<1>. QED
  BY <1>1 DEF Moved, Job

(* A failed job is a job, with the code it failed with.                     *)
LEMMA FailedType ==
    ASSUME NEW job \in Job, NEW code \in ErrorCodes
    PROVE  /\ Failed(job, code) \in Job
           /\ Failed(job, code).status = "failed"
           /\ Failed(job, code).txid = job.txid
           /\ Failed(job, code).receipt = job.receipt
           /\ Failed(job, code).error = code
           /\ Failed(job, code).req = job.req
<1>1. "failed" \in Statuses
  BY DEF Statuses
<1>. QED
  BY <1>1, MovedType DEF Failed, Job

(* The record CreateJob() inserts.                                          *)
LEMMA NoJobType == NoJob \in Job
<1>1. << >> \in Seq(Statuses)
  OBVIOUS
<1>. QED
  BY <1>1 DEF NoJob, Job, ErrorCodes

(* A stage or a handler under way has its job, and only a listening process *)
(* has any.                                                                 *)
Anchored ==
    /\ wallet.pc # "idle" => wallet.id \in Ids /\ proc = "up"
    /\ \A h \in Handlers : accepts[h].pc # "idle" =>
         accepts[h].id \in Ids /\ accepts[h].req \in Requests /\ proc = "up"

TypeInv == TypeOK /\ Anchored

(* transition() keeps the table of jobs well typed.                         *)
LEMMA TransitionType ==
    ASSUME jobs \in [Ids -> Job], NEW id \in Ids, NEW expected, NEW patched \in Job,
           Transition(id, expected, patched)
    PROVE  jobs' \in [Ids -> Job]
  BY DEF Transition

(* The empty accept() and wallet stage are well typed.                      *)
LEMMA IdleTypes == IdleAccept \in AcceptState /\ IdleWallet \in WalletState
  BY DEF IdleAccept, AcceptState, IdleWallet, WalletState

(* The initial state is well typed.                                         *)
LEMMA InitTypeInv == Init => TypeInv
<1>. SUFFICES ASSUME Init PROVE TypeInv
  OBVIOUS
<1>1. jobs \in [Ids -> Job]
  BY NoJobType DEF Init
<1>2. accepts \in [Handlers -> AcceptState] /\ wallet \in WalletState
  BY IdleTypes DEF Init
<1>3. walletTail \in Seq(Ids)
  BY DEF Init
<1>4. chain \in [TxIds -> {"absent", "inflight", "success", "failure", "foreign"}]
  BY DEF Init, TxIds
<1>5. deliveries \in 0 .. MaxDeliveries /\ polls \in 0 .. MaxPolls
        /\ crashes \in 0 .. MaxCrashes
  BY BoundsAssumption DEF Init
<1>6. Anchored
  BY DEF Init, Anchored, IdleAccept, IdleWallet
<1>. QED
  BY <1>1, <1>2, <1>3, <1>4, <1>5, <1>6 DEF Init, TypeOK, TypeInv

(* A handler that moves on or returns leaves the handlers well typed.       *)
LEMMA AcceptMoves ==
    ASSUME TypeInv, NEW h \in Handlers,
           \/ accepts' = [accepts EXCEPT ![h] = IdleAccept]
           \/ /\ accepts[h].pc # "idle"
              /\ \E pc \in {"consume", "replayed", "attach"} :
                   accepts' = [accepts EXCEPT ![h].pc = pc],
           UNCHANGED <<proc, wallet>>
    PROVE  accepts' \in [Handlers -> AcceptState] /\ Anchored'
<1>. USE DEF TypeInv
<1>1. CASE accepts' = [accepts EXCEPT ![h] = IdleAccept]
  <2>1. accepts' \in [Handlers -> AcceptState]
    BY <1>1, IdleTypes DEF TypeOK
  <2>2. IdleAccept.pc = "idle"
    BY DEF IdleAccept
  <2>. QED
    BY <1>1, <2>1, <2>2 DEF TypeOK, Anchored
<1>2. CASE /\ accepts[h].pc # "idle"
           /\ \E pc \in {"consume", "replayed", "attach"} :
                   accepts' = [accepts EXCEPT ![h].pc = pc]
  <2>1. PICK pc \in {"consume", "replayed", "attach"} :
          accepts' = [accepts EXCEPT ![h].pc = pc]
    BY <1>2
  <2>2. accepts' \in [Handlers -> AcceptState]
    <3>1. accepts[h] \in AcceptState /\ accepts \in [Handlers -> AcceptState]
      BY DEF TypeOK
    <3>2. [accepts[h] EXCEPT !.pc = pc] \in AcceptState
      BY <3>1 DEF AcceptState
    <3>3. accepts' = [accepts EXCEPT ![h] = [accepts[h] EXCEPT !.pc = pc]]
      BY <2>1, <3>1
    <3>. QED
      BY <3>1, <3>2, <3>3
  <2>3. \A g \in Handlers : accepts'[g].id = accepts[g].id /\ accepts'[g].req = accepts[g].req
                              /\ (accepts'[g].pc # "idle" => accepts[g].pc # "idle")
    BY <1>2, <2>1 DEF TypeOK, AcceptState
  <2>. QED
    BY <2>2, <2>3 DEF TypeOK, Anchored
<1>. QED
  BY <1>1, <1>2

(* The handlers of POST /v2/actions keep the types.                         *)
LEMMA AcceptTypeInv ==
    ASSUME TypeInv, NEW h \in Handlers
    PROVE  /\ \A r \in Requests : CreateJob(h, r) \/ FindJob(h, r) => TypeInv'
           /\ AcceptSteps(h) => TypeInv'
<1>. USE DEF TypeInv
<1>1. ASSUME NEW r \in Requests, CreateJob(h, r) PROVE TypeInv'
  <2>. DEFINE new == [NoJob EXCEPT !.status = "authorized", !.req = r,
                                   !.transitions = <<"authorized">>]
              acc == [pc |-> "checkKey", req |-> r, id |-> r.id, created |-> TRUE,
                      status |-> "authorized", txid |-> NoTx]
  <2>1. r.id \in Ids
    BY RequestsAssumption
  <2>2. new \in Job
    <3>1. <<"authorized">> \in Seq(Statuses)
      BY DEF Statuses
    <3>2. "authorized" \in Statuses
      BY DEF Statuses
    <3>. QED
      BY <3>1, <3>2, NoJobType DEF Job
  <2>3. acc \in AcceptState
    BY <2>1 DEF AcceptState, Statuses
  <2>4. jobs' \in [Ids -> Job]
    BY <1>1, <2>2 DEF CreateJob, TypeOK
  <2>5. accepts' = [accepts EXCEPT ![h] = acc]
    BY <1>1 DEF CreateJob
  <2>6. accepts' \in [Handlers -> AcceptState]
    BY <2>3, <2>5 DEF TypeOK
  <2>7. deliveries' \in 0 .. MaxDeliveries
    BY <1>1, BoundsAssumption DEF CreateJob, TypeOK
  <2>8. Anchored'
    BY <1>1, <2>1, <2>5 DEF CreateJob, Anchored, TypeOK
  <2>9. UNCHANGED <<consumed, proc, recovering, transient, running, walletTail, wallet,
                    runTimers, reconcileDue, reconciling, chain, submits, polls, crashes>>
    BY <1>1 DEF CreateJob, outside
  <2>. QED
    BY <2>4, <2>6, <2>7, <2>8, <2>9 DEF TypeOK
<1>2. ASSUME NEW r \in Requests, FindJob(h, r) PROVE TypeInv'
  <2>1. PICK id \in Ids : accepts' = [accepts EXCEPT ![h] =
                          [pc |-> "checkKey", req |-> r, id |-> id,
                           created |-> FALSE, status |-> jobs[id].status,
                           txid |-> jobs[id].txid]]
    BY <1>2 DEF FindJob, Matching
  <2>2. jobs[id].status \in Statuses \cup {"absent"} /\ jobs[id].txid \in TxIds \cup {NoTx}
    BY DEF TypeOK, Job
  <2>3. accepts' \in [Handlers -> AcceptState]
    BY <2>1, <2>2 DEF TypeOK, AcceptState
  <2>4. deliveries' \in 0 .. MaxDeliveries
    BY <1>2, BoundsAssumption DEF FindJob, TypeOK
  <2>5. Anchored'
    BY <1>2, <2>1 DEF FindJob, Anchored, TypeOK
  <2>6. UNCHANGED <<jobs, consumed, proc, recovering, transient, running, walletTail,
                    wallet, runTimers, reconcileDue, reconciling, chain, submits,
                    polls, crashes>>
    BY <1>2 DEF FindJob, outside, durable
  <2>. QED
    BY <2>3, <2>4, <2>5, <2>6 DEF TypeOK
<1>3. ASSUME CheckKey(h) PROVE TypeInv'
  <2>1. accepts[h].pc # "idle" /\ accepts[h] \in AcceptState
    BY <1>3 DEF CheckKey, TypeOK
  <2>2. \/ accepts' = [accepts EXCEPT ![h] = IdleAccept]
        \/ accepts' = [accepts EXCEPT ![h].pc = "consume"]
        \/ accepts' = [accepts EXCEPT ![h].pc = "attach"]
    BY <1>3 DEF CheckKey, AcceptEnds, AcceptGoes
  <2>3. UNCHANGED <<jobs, consumed, proc, recovering, transient, running, walletTail,
                    wallet, runTimers, reconcileDue, reconciling, chain, submits,
                    deliveries, polls, crashes>>
    BY <1>3 DEF CheckKey, durable, outside, counters
  <2>. QED
    BY <2>1, <2>2, <2>3, AcceptMoves DEF TypeOK, Anchored
<1>4. ASSUME ConsumeCapability(h) PROVE TypeInv'
  <2>1. accepts[h].pc # "idle" /\ accepts[h] \in AcceptState
    BY <1>4 DEF ConsumeCapability, TypeOK
  <2>2. \/ accepts' = [accepts EXCEPT ![h].pc = "replayed"]
        \/ accepts' = [accepts EXCEPT ![h].pc = "attach"]
    BY <1>4 DEF ConsumeCapability, AcceptGoes
  <2>3. UNCHANGED <<jobs, proc, recovering, transient, running, walletTail,
                    wallet, runTimers, reconcileDue, reconciling, chain, submits,
                    deliveries, polls, crashes>>
    BY <1>4 DEF ConsumeCapability, outside, counters
  <2>4. consumed' \subseteq Caps
    <3>1. accepts[h].req.cap \in Caps
      BY <2>1, RequestsAssumption DEF Anchored
    <3>. QED
      BY <1>4, <3>1 DEF ConsumeCapability, TypeOK
  <2>. QED
    BY <2>1, <2>2, <2>3, <2>4, AcceptMoves DEF TypeOK, Anchored
<1>5. ASSUME RejectReplay(h) PROVE TypeInv'
  <2>1. accepts[h].id \in Ids
    BY <1>5 DEF RejectReplay, Anchored
  <2>2. jobs' \in [Ids -> Job]
    <3>1. jobs[accepts[h].id] \in Job
      BY <2>1 DEF TypeOK
    <3>2. Failed(jobs[accepts[h].id], "capability_replayed") \in Job
      BY <3>1, FailedType DEF ErrorCodes
    <3>. QED
      BY <1>5, <2>1, <3>2, TransitionType DEF RejectReplay, TypeOK
  <2>3. accepts' = [accepts EXCEPT ![h] = IdleAccept]
    BY <1>5 DEF RejectReplay, AcceptEnds
  <2>4. UNCHANGED <<consumed, proc, recovering, transient, running, walletTail,
                    wallet, runTimers, reconcileDue, reconciling, chain, submits,
                    deliveries, polls, crashes>>
    BY <1>5 DEF RejectReplay, outside, counters
  <2>. QED
    BY <2>2, <2>3, <2>4, AcceptMoves DEF TypeOK, Anchored
<1>6. ASSUME Attach(h) PROVE TypeInv'
  <2>1. accepts[h].id \in Ids
    BY <1>6 DEF Attach, Anchored
  <2>2. accepts' = [accepts EXCEPT ![h] = IdleAccept]
    BY <1>6 DEF Attach, AcceptEnds
  <2>3. transient' \subseteq Ids /\ running' \subseteq Ids /\ reconcileDue' \subseteq Ids
    BY <1>6, <2>1 DEF Attach, Run, TypeOK
  <2>4. walletTail' \in Seq(Ids)
    <3>1. walletTail' = walletTail \/ walletTail' = Append(walletTail, accepts[h].id)
      BY <1>6 DEF Attach, Run
    <3>2. walletTail \in Seq(Ids)
      BY DEF TypeOK
    <3>. QED
      BY <2>1, <3>1, <3>2
  <2>5. UNCHANGED <<jobs, consumed, proc, recovering, wallet, runTimers, reconciling,
                    chain, submits, deliveries, polls, crashes>>
    BY <1>6 DEF Attach, durable, outside, counters
  <2>. QED
    BY <2>2, <2>3, <2>4, <2>5, AcceptMoves DEF TypeOK, Anchored
<1>. QED
  BY <1>1, <1>2, <1>3, <1>4, <1>5, <1>6 DEF AcceptSteps

(* A wallet stage that moves on or returns leaves the stage well typed.     *)
LEMMA WalletMoves ==
    ASSUME TypeInv,
           \/ wallet' = IdleWallet
           \/ /\ wallet.pc # "idle"
              /\ \E pc \in {"reserve", "balance", "reject", "finalize", "intend",
                            "submit", "await", "accepted", "unknown"},
                    d, t \in TxIds \cup {NoTx} :
                   wallet' = [pc |-> pc, id |-> wallet.id, derived |-> d, answer |-> t],
           UNCHANGED <<proc, accepts>>
    PROVE  wallet' \in WalletState /\ Anchored'
<1>1. CASE wallet' = IdleWallet
  <2>1. IdleWallet.pc = "idle"
    BY DEF IdleWallet
  <2>. QED
    BY <1>1, <2>1, IdleTypes DEF TypeInv, Anchored
<1>2. CASE wallet' # IdleWallet
  BY <1>2 DEF TypeInv, TypeOK, Anchored, WalletState
<1>. QED
  BY <1>1, <1>2

(* The wallet record, field by field.                                       *)
LEMMA WalletFields ==
    ASSUME TypeInv
    PROVE  /\ wallet = [pc |-> wallet.pc, id |-> wallet.id,
                        derived |-> wallet.derived, answer |-> wallet.answer]
           /\ wallet.derived \in TxIds \cup {NoTx}
           /\ wallet.answer \in TxIds \cup {NoTx}
           /\ \A pc : [wallet EXCEPT !.pc = pc] =
                [pc |-> pc, id |-> wallet.id, derived |-> wallet.derived,
                 answer |-> wallet.answer]
<1>1. /\ wallet = [pc |-> wallet.pc, id |-> wallet.id,
                   derived |-> wallet.derived, answer |-> wallet.answer]
      /\ wallet.derived \in TxIds \cup {NoTx}
      /\ wallet.answer \in TxIds \cup {NoTx}
  BY DEF TypeInv, TypeOK, WalletState
<1>2. ASSUME NEW pc
      PROVE  [wallet EXCEPT !.pc = pc] =
                [pc |-> pc, id |-> wallet.id, derived |-> wallet.derived,
                 answer |-> wallet.answer]
  BY <1>1
<1>. QED
  BY <1>1, <1>2

(* A stage that writes one job and moves on or returns keeps the types.     *)
LEMMA StageTypeInv ==
    ASSUME TypeInv, wallet.pc # "idle",
           jobs' \in [Ids -> Job], running' \subseteq Ids, transient' \subseteq Ids,
           runTimers' \subseteq Ids, reconcileDue' \subseteq Ids,
           \/ wallet' = IdleWallet
           \/ \E pc \in {"reserve", "balance", "reject", "finalize", "intend",
                         "submit", "await", "accepted", "unknown"},
                 d, t \in TxIds \cup {NoTx} :
                wallet' = [pc |-> pc, id |-> wallet.id, derived |-> d, answer |-> t],
           UNCHANGED <<consumed, proc, recovering, accepts, walletTail, reconciling,
                       counters>>,
           chain' \in [TxIds -> {"absent", "inflight", "success", "failure", "foreign"}],
           submits' \in [Ids -> Nat]
    PROVE  TypeInv'
<1>1. wallet' \in WalletState /\ Anchored'
  BY WalletMoves
<1>. QED
  BY <1>1 DEF TypeInv, TypeOK, counters

(* The wallet stage keeps the types.                                        *)
LEMMA WalletTypeInv ==
    ASSUME TypeInv, WalletStage
    PROVE  TypeInv'
<1>. USE DEF TypeInv
<1>. DEFINE id == wallet.id
<1>0. /\ jobs \in [Ids -> Job] /\ running \subseteq Ids /\ transient \subseteq Ids
      /\ runTimers \subseteq Ids /\ reconcileDue \subseteq Ids
      /\ chain \in [TxIds -> {"absent", "inflight", "success", "failure", "foreign"}]
      /\ submits \in [Ids -> Nat]
  BY DEF TypeOK
<1>a. wallet.pc # "idle" => id \in Ids
  BY DEF Anchored
<1>b. running \ {id} \subseteq Ids
  BY <1>0
<1>1. CASE StageRead
  <2>. DEFINE first == Head(walletTail)
  <2>1. first \in Ids /\ walletTail' \in Seq(Ids)
    <3>1. walletTail \in Seq(Ids) /\ walletTail # << >> /\ walletTail' = Tail(walletTail)
      BY <1>1 DEF StageRead, TypeOK
    <3>. QED
      BY <3>1
  <2>2. \/ wallet' = wallet
        \/ wallet' = [pc |-> "validate", id |-> first, derived |-> NoTx, answer |-> NoTx]
    BY <1>1 DEF StageRead, IdleWallet
  <2>3. wallet' \in WalletState
    BY <2>1, <2>2 DEF WalletState, TypeOK
  <2>4. UNCHANGED <<jobs, consumed, proc, recovering, accepts, transient, runTimers,
                    reconcileDue, reconciling, chain, submits, deliveries, polls, crashes>>
    BY <1>1 DEF StageRead, durable, outside, counters
  <2>5. Anchored'
    BY <1>1, <2>1, <2>2, <2>4 DEF StageRead, WalletAt, Anchored
  <2>6. running' \subseteq Ids
    BY <1>0, <1>1 DEF StageRead
  <2>. QED
    BY <2>1, <2>3, <2>4, <2>5, <2>6 DEF TypeOK
<1>2. CASE StageValidate
  <2>1. wallet.pc = "validate"
    BY <1>2 DEF StageValidate, WalletAt
  <2>2. jobs' \in [Ids -> Job]
    <3>1. Moved(jobs[id], "validated") \in Job
      BY <1>0, <1>a, <2>1, MovedType DEF Statuses
    <3>. QED
      BY <1>0, <1>2, <1>a, <2>1, <3>1, TransitionType DEF StageValidate
  <2>3. running' \subseteq Ids
    BY <1>2, <1>0, <1>b DEF StageValidate, WalletGoes, WalletEnds
  <2>4. wallet' = [wallet EXCEPT !.pc = "reserve"] \/ wallet' = IdleWallet
    BY <1>2 DEF StageValidate, WalletGoes, WalletEnds
  <2>5. UNCHANGED <<consumed, proc, recovering, accepts, transient, walletTail,
                    runTimers, reconcileDue, reconciling, chain, submits, counters>>
    BY <1>2 DEF StageValidate, outside
  <2>. QED
    BY <1>0, <2>1, <2>2, <2>3, <2>4, <2>5, WalletFields, StageTypeInv
<1>3. CASE StageReserve
  <2>1. wallet.pc = "reserve"
    BY <1>3 DEF StageReserve, WalletAt
  <2>2. jobs' \in [Ids -> Job]
    <3>1. Moved(jobs[id], "dust_reserved") \in Job
      BY <1>0, <1>a, <2>1, MovedType DEF Statuses
    <3>2. jobs' = jobs \/ jobs' = [jobs EXCEPT ![id] = Moved(jobs[id], "dust_reserved")]
      BY <1>3 DEF StageReserve
    <3>. QED
      BY <1>0, <3>1, <3>2
  <2>3. running' \subseteq Ids /\ runTimers' \subseteq Ids
    BY <1>3, <1>0, <1>a, <1>b, <2>1 DEF StageReserve, WalletGoes, WalletEnds
  <2>4. wallet' = [wallet EXCEPT !.pc = "balance"] \/ wallet' = IdleWallet
    BY <1>3 DEF StageReserve, WalletGoes, WalletEnds
  <2>5. UNCHANGED <<consumed, proc, recovering, accepts, transient, walletTail,
                    reconcileDue, reconciling, chain, submits, counters>>
    BY <1>3 DEF StageReserve, outside
  <2>. QED
    BY <1>0, <2>1, <2>2, <2>3, <2>4, <2>5, WalletFields, StageTypeInv
<1>4. CASE StageBalance
  <2>1. wallet.pc = "balance"
    BY <1>4 DEF StageBalance, WalletAt
  <2>2. PICK d \in {id, NoTx} :
          wallet' = [wallet EXCEPT !.pc = "finalize", !.derived = d]
    BY <1>4 DEF StageBalance
  <2>3. d \in TxIds \cup {NoTx}
    BY <1>a, <2>1, <2>2 DEF TxIds
  <2>4. wallet' = [pc |-> "finalize", id |-> id, derived |-> d, answer |-> wallet.answer]
    BY <2>2 DEF TypeOK, WalletState
  <2>5. UNCHANGED <<jobs, consumed, proc, recovering, accepts, running, walletTail,
                    runTimers, reconcileDue, reconciling, chain, submits, counters>>
    BY <1>4 DEF StageBalance, durable, outside
  <2>6. transient' \subseteq Ids
    BY <1>0, <1>4, <1>a, <2>1 DEF StageBalance
  <2>. QED
    BY <1>0, <2>1, <2>3, <2>4, <2>5, <2>6, WalletFields, StageTypeInv
<1>5. CASE StageBalanceThrows
  <2>1. wallet.pc = "balance"
    BY <1>5 DEF StageBalanceThrows, WalletAt
  <2>2. transient' \subseteq Ids
    BY <1>0, <1>5 DEF StageBalanceThrows
  <2>3. wallet' = [wallet EXCEPT !.pc = "reject"]
    BY <1>5 DEF StageBalanceThrows, WalletGoes
  <2>4. UNCHANGED <<jobs, consumed, proc, recovering, accepts, running, walletTail,
                    runTimers, reconcileDue, reconciling, chain, submits, counters>>
    BY <1>5 DEF StageBalanceThrows, WalletGoes, durable, outside
  <2>. QED
    BY <1>0, <2>1, <2>2, <2>3, <2>4, WalletFields, StageTypeInv
<1>6. CASE StageReject
  <2>1. wallet.pc = "reject"
    BY <1>6 DEF StageReject, WalletAt
  <2>2. jobs' \in [Ids -> Job]
    <3>1. Failed(jobs[id], "transaction_rejected") \in Job
      BY <1>0, <1>a, <2>1, FailedType DEF ErrorCodes
    <3>. QED
      BY <1>0, <1>6, <1>a, <2>1, <3>1, TransitionType DEF StageReject
  <2>3. wallet' = IdleWallet /\ running' \subseteq Ids
    BY <1>6, <1>b DEF StageReject, WalletEnds
  <2>4. UNCHANGED <<consumed, proc, recovering, accepts, transient, walletTail,
                    runTimers, reconcileDue, reconciling, chain, submits, counters>>
    BY <1>6 DEF StageReject, outside
  <2>. QED
    BY <1>0, <2>1, <2>2, <2>3, <2>4, StageTypeInv
<1>7. CASE StageFinalize
  <2>1. wallet.pc = "finalize"
    BY <1>7 DEF StageFinalize, WalletAt
  <2>2. jobs' \in [Ids -> Job]
    <3>1. Moved(jobs[id], "finalized") \in Job
      BY <1>0, <1>a, <2>1, MovedType DEF Statuses
    <3>2. [Moved(jobs[id], "finalized") EXCEPT !.txid = wallet.derived] \in Job
      BY <3>1, WalletFields DEF Job
    <3>. QED
      BY <1>0, <1>7, <1>a, <2>1, <3>1, <3>2 DEF StageFinalize, Transition
  <2>3. wallet' = [wallet EXCEPT !.pc = "intend"] /\ running' = running
    BY <1>7 DEF StageFinalize, WalletGoes
  <2>4. UNCHANGED <<consumed, proc, recovering, accepts, transient, walletTail,
                    runTimers, reconcileDue, reconciling, chain, submits, counters>>
    BY <1>7 DEF StageFinalize, outside
  <2>. QED
    BY <1>0, <2>1, <2>2, <2>3, <2>4, WalletFields, StageTypeInv
<1>8. CASE StageIntend
  <2>1. wallet.pc = "intend"
    BY <1>8 DEF StageIntend, WalletAt
  <2>2. jobs' \in [Ids -> Job]
    <3>1. Moved(jobs[id], "submitted") \in Job
      BY <1>0, <1>a, <2>1, MovedType DEF Statuses
    <3>. QED
      BY <1>0, <1>8, <1>a, <2>1, <3>1, TransitionType DEF StageIntend
  <2>3. running' \subseteq Ids
    BY <1>8, <1>0, <1>b DEF StageIntend, WalletGoes, WalletEnds
  <2>4. wallet' = [wallet EXCEPT !.pc = "submit"] \/ wallet' = IdleWallet
    BY <1>8 DEF StageIntend, WalletGoes, WalletEnds
  <2>5. UNCHANGED <<consumed, proc, recovering, accepts, transient, walletTail,
                    runTimers, reconcileDue, reconciling, chain, submits, counters>>
    BY <1>8 DEF StageIntend, outside
  <2>. QED
    BY <1>0, <2>1, <2>2, <2>3, <2>4, <2>5, WalletFields, StageTypeInv
<1>9. CASE NodeReceives
  <2>1. wallet.pc = "submit"
    BY <1>9 DEF NodeReceives, WalletAt
  <2>2. submits' \in [Ids -> Nat]
    BY <1>0, <1>9, <1>a, <2>1 DEF NodeReceives
  <2>3. chain' \in [TxIds -> {"absent", "inflight", "success", "failure", "foreign"}]
    BY <1>0, <1>9 DEF NodeReceives
  <2>4. wallet' = [wallet EXCEPT !.pc = "await"] /\ running' = running
    BY <1>9 DEF NodeReceives, WalletGoes
  <2>5. UNCHANGED <<jobs, consumed, proc, recovering, accepts, transient, walletTail,
                    runTimers, reconcileDue, reconciling, counters>>
    BY <1>9 DEF NodeReceives, durable
  <2>. QED
    BY <1>0, <2>1, <2>2, <2>3, <2>4, <2>5, WalletFields, StageTypeInv
<1>10. CASE SubmitReturns
  <2>1. wallet.pc = "await"
    BY <1>10 DEF SubmitReturns, WalletAt
  <2>2. PICK t \in {id, AlienTx} :
          wallet' = [wallet EXCEPT !.pc = "accepted", !.answer = t]
    BY <1>10 DEF SubmitReturns
  <2>3. t \in TxIds \cup {NoTx}
    BY <1>a, <2>1, <2>2 DEF TxIds
  <2>4. wallet' = [pc |-> "accepted", id |-> id, derived |-> wallet.derived, answer |-> t]
    BY <2>2 DEF TypeOK, WalletState
  <2>5. UNCHANGED <<jobs, consumed, proc, recovering, accepts, running, walletTail,
                    runTimers, reconcileDue, reconciling, chain, submits, counters>>
    BY <1>10 DEF SubmitReturns, durable, outside
  <2>6. transient' \subseteq Ids
    BY <1>0, <1>10 DEF SubmitReturns
  <2>. QED
    BY <1>0, <2>1, <2>3, <2>4, <2>5, <2>6, WalletFields, StageTypeInv
<1>11. CASE SubmitThrows
  <2>1. wallet.pc \in {"submit", "await"}
    BY <1>11 DEF SubmitThrows, WalletAt
  <2>2. transient' \subseteq Ids
    BY <1>0, <1>11 DEF SubmitThrows
  <2>3. wallet' = [wallet EXCEPT !.pc = "unknown"]
    BY <1>11 DEF SubmitThrows, WalletGoes
  <2>4. UNCHANGED <<jobs, consumed, proc, recovering, accepts, running, walletTail,
                    runTimers, reconcileDue, reconciling, chain, submits, counters>>
    BY <1>11 DEF SubmitThrows, WalletGoes, durable, outside
  <2>. QED
    BY <1>0, <2>1, <2>2, <2>3, <2>4, WalletFields, StageTypeInv
<1>12. CASE StageAccepted
  <2>1. wallet.pc = "accepted"
    BY <1>12 DEF StageAccepted, WalletAt
  <2>2. jobs' \in [Ids -> Job]
    <3>1. Failed(jobs[id], "submission_id_mismatch") \in Job
      BY <1>0, <1>a, <2>1, FailedType DEF ErrorCodes
    <3>2. Moved(jobs[id], "indexer_pending") \in Job
      BY <1>0, <1>a, <2>1, MovedType DEF Statuses
    <3>3. [Moved(jobs[id], "indexer_pending") EXCEPT !.txid = wallet.answer] \in Job
      BY <3>2, WalletFields DEF Job
    <3>. QED
      BY <1>0, <1>12, <1>a, <2>1, <3>1, <3>3 DEF StageAccepted, Transition
  <2>3. wallet' = IdleWallet /\ running' \subseteq Ids /\ reconcileDue' \subseteq Ids
    BY <1>0, <1>12, <1>a, <1>b, <2>1 DEF StageAccepted, WalletEnds
  <2>4. UNCHANGED <<consumed, proc, recovering, accepts, transient, walletTail,
                    runTimers, reconciling, chain, submits, counters>>
    BY <1>12 DEF StageAccepted, outside
  <2>. QED
    BY <1>0, <2>1, <2>2, <2>3, <2>4, StageTypeInv
<1>13. CASE StageUnknown
  <2>1. wallet.pc = "unknown"
    BY <1>13 DEF StageUnknown, WalletAt
  <2>2. jobs' \in [Ids -> Job]
    <3>1. /\ Moved(jobs[id], "recovery_required") \in Job
          /\ Moved(jobs[id], "indexer_pending") \in Job
      BY <1>0, <1>a, <2>1, MovedType DEF Statuses
    <3>2. [Moved(jobs[id], "recovery_required") EXCEPT !.error = "submission_unknown"] \in Job
      BY <3>1 DEF Job, ErrorCodes
    <3>3. [Moved(jobs[id], "indexer_pending") EXCEPT !.txid = wallet.derived] \in Job
      BY <3>1, WalletFields DEF Job
    <3>. QED
      BY <1>0, <1>13, <1>a, <2>1, <3>2, <3>3 DEF StageUnknown, Transition
  <2>3. wallet' = IdleWallet /\ running' \subseteq Ids /\ reconcileDue' \subseteq Ids
    BY <1>0, <1>13, <1>a, <1>b, <2>1 DEF StageUnknown, WalletEnds
  <2>4. UNCHANGED <<consumed, proc, recovering, accepts, transient, walletTail,
                    runTimers, reconciling, chain, submits, counters>>
    BY <1>13 DEF StageUnknown, outside
  <2>. QED
    BY <1>0, <2>1, <2>2, <2>3, <2>4, StageTypeInv
<1>. QED
  BY <1>1, <1>2, <1>3, <1>4, <1>5, <1>6, <1>7, <1>8, <1>9, <1>10, <1>11, <1>12, <1>13
  DEF WalletStage

(* Timers, polls and reconcile() keep the types.                            *)
LEMMA ReconcileTypeInv ==
    ASSUME TypeInv, NEW id \in Ids,
           \/ RunTimer(id) \/ Poll(id) \/ ReconcileRead(id)
           \/ Answered(id) \/ Unanswered(id) \/ Applied(id) \/ IndexerSees(id)
    PROVE  TypeInv'
<1>. USE DEF TypeInv
<1>1. CASE RunTimer(id)
  <2>1. walletTail' \in Seq(Ids)
    <3>1. walletTail' = walletTail \/ walletTail' = Append(walletTail, id)
      BY <1>1 DEF RunTimer, Run
    <3>2. walletTail \in Seq(Ids)
      BY DEF TypeOK
    <3>. QED
      BY <3>1, <3>2
  <2>2. runTimers' \subseteq Ids /\ running' \subseteq Ids
    BY <1>1 DEF RunTimer, Run, TypeOK
  <2>3. UNCHANGED <<jobs, consumed, proc, recovering, accepts, transient, wallet,
                    reconcileDue, reconciling, chain, submits, deliveries, polls, crashes>>
    BY <1>1 DEF RunTimer, durable, outside, counters
  <2>. QED
    BY <2>1, <2>2, <2>3 DEF TypeOK, Anchored
<1>2. CASE Poll(id)
  <2>1. reconcileDue' \subseteq Ids
    BY <1>2 DEF Poll, TypeOK
  <2>2. polls' \in 0 .. MaxPolls
    BY <1>2, BoundsAssumption DEF Poll, TypeOK
  <2>3. UNCHANGED <<jobs, consumed, proc, recovering, accepts, transient, running,
                    walletTail, wallet, runTimers, reconciling, chain, submits,
                    deliveries, crashes>>
    BY <1>2 DEF Poll, durable, outside
  <2>. QED
    BY <2>1, <2>2, <2>3 DEF TypeOK, Anchored
<1>3. CASE ReconcileRead(id)
  <2>1. jobs[id].txid \in TxIds \cup {NoTx}
    BY DEF TypeOK, Job
  <2>2. reconciling' \subseteq Settling
    BY <1>3, <2>1 DEF ReconcileRead, TypeOK, Settling, Verdicts
  <2>3. reconcileDue' \subseteq Ids
    BY <1>3 DEF ReconcileRead, TypeOK
  <2>4. UNCHANGED <<jobs, consumed, proc, recovering, accepts, transient, running,
                    walletTail, wallet, runTimers, chain, submits,
                    deliveries, polls, crashes>>
    BY <1>3 DEF ReconcileRead, durable, outside, counters
  <2>. QED
    BY <2>2, <2>3, <2>4 DEF TypeOK, Anchored
<1>4. CASE Answered(id) \/ Unanswered(id)
  <2>1. PICK task \in reconciling : ResolverAnswers(task) \/ ResolverThrows(task)
    BY <1>4 DEF Answered, Unanswered
  <2>2. task \in Settling
    BY DEF TypeOK
  <2>3. Resolve(task.txid) \in Verdicts
    BY DEF Resolve, Verdicts
  <2>4. \A v \in Verdicts : [task EXCEPT !.verdict = v] \in Settling
    BY <2>2 DEF Settling
  <2>5. PICK v \in Verdicts :
          reconciling' = (reconciling \ {task}) \cup {[task EXCEPT !.verdict = v]}
    BY <2>1, <2>3 DEF ResolverAnswers, ResolverThrows, Verdicts
  <2>6. reconciling' \subseteq Settling
    BY <2>4, <2>5 DEF TypeOK
  <2>7. UNCHANGED <<jobs, consumed, proc, recovering, accepts, transient, running,
                    walletTail, wallet, runTimers, reconcileDue, chain, submits,
                    deliveries, polls, crashes>>
    BY <2>1 DEF ResolverAnswers, ResolverThrows, durable, outside, counters
  <2>. QED
    BY <2>6, <2>7 DEF TypeOK, Anchored
<1>5. CASE Applied(id)
  <2>1. PICK task \in reconciling : task.id = id /\ ReconcileApply(task)
    BY <1>5 DEF Applied
  <2>2. task.verdict \in Verdicts /\ task.txid \in TxIds /\ task.verdict # "asked"
    BY <2>1 DEF TypeOK, Settling, ReconcileApply
  <2>3. jobs' \in [Ids -> Job]
    <3>1. jobs[id] \in Job
      BY DEF TypeOK
    <3>2. Moved(jobs[id], "confirmed") \in Job
      BY <3>1, MovedType DEF Statuses
    <3>3. [Moved(jobs[id], "confirmed") EXCEPT !.receipt = task.txid] \in Job
      BY <2>2, <3>2 DEF Job
    <3>4. task.verdict \notin {"lagging", "receipt"} => Failed(jobs[id], task.verdict) \in Job
      BY <2>2, <3>1, FailedType DEF Verdicts, ErrorCodes
    <3>. QED
      BY <2>1, <3>3, <3>4 DEF ReconcileApply, Transition, TypeOK
  <2>4. reconciling' \subseteq Settling /\ reconcileDue' \subseteq Ids
    BY <2>1 DEF ReconcileApply, TypeOK
  <2>5. UNCHANGED <<consumed, proc, recovering, accepts, transient, running, walletTail,
                    wallet, runTimers, chain, submits, deliveries, polls, crashes>>
    BY <2>1 DEF ReconcileApply, outside, counters
  <2>. QED
    BY <2>3, <2>4, <2>5 DEF TypeOK, Anchored
<1>6. CASE IndexerSees(id)
  <2>1. chain' \in [TxIds -> {"absent", "inflight", "success", "failure", "foreign"}]
    BY <1>6 DEF IndexerSees, TypeOK
  <2>2. UNCHANGED <<jobs, consumed, proc, recovering, accepts, transient, running,
                    walletTail, wallet, runTimers, reconcileDue, reconciling, submits,
                    deliveries, polls, crashes>>
    BY <1>6 DEF IndexerSees, durable, inMemory, counters
  <2>. QED
    BY <2>1, <2>2 DEF TypeOK, Anchored
<1>. QED
  BY <1>1, <1>2, <1>3, <1>4, <1>5, <1>6

(* Death and restart keep the types.                                        *)
LEMMA RestartTypeInv ==
    ASSUME TypeInv, Crash \/ Start
    PROVE  TypeInv'
<1>. USE DEF TypeInv
<1>1. CASE Crash
  <2>1. accepts' \in [Handlers -> AcceptState] /\ wallet' \in WalletState
    BY <1>1, IdleTypes DEF Crash
  <2>2. walletTail' \in Seq(Ids) /\ crashes' \in 0 .. MaxCrashes
    BY <1>1, BoundsAssumption DEF Crash, TypeOK
  <2>3. Anchored'
    BY <1>1 DEF Crash, Anchored, IdleAccept, IdleWallet
  <2>4. UNCHANGED <<jobs, consumed, chain, submits, deliveries, polls>>
    BY <1>1 DEF Crash, durable, outside
  <2>. QED
    BY <1>1, <2>1, <2>2, <2>3, <2>4 DEF Crash, TypeOK
<1>2. CASE StartList
  <2>1. UNCHANGED <<jobs, consumed, accepts, transient, running, walletTail, wallet,
                    runTimers, reconcileDue, reconciling, chain, submits,
                    deliveries, polls, crashes>>
    BY <1>2 DEF StartList, durable, outside, counters
  <2>2. proc' = "starting" /\ recovering' \subseteq Ids
    BY <1>2 DEF StartList
  <2>3. Anchored'
    BY <1>2, <2>1, <2>2 DEF StartList, Anchored
  <2>. QED
    BY <2>1, <2>2, <2>3 DEF TypeOK
<1>3. CASE StartListens
  <2>1. UNCHANGED <<jobs, consumed, recovering, accepts, transient, running, walletTail,
                    wallet, runTimers, reconcileDue, reconciling, chain, submits,
                    deliveries, polls, crashes>>
    BY <1>3 DEF StartListens, durable, outside, counters, inMemory
  <2>2. proc' = "up"
    BY <1>3 DEF StartListens
  <2>3. Anchored'
    BY <2>1, <2>2 DEF Anchored
  <2>. QED
    BY <2>1, <2>2, <2>3 DEF TypeOK
<1>4. ASSUME NEW id \in Ids, StartRecover(id) PROVE TypeInv'
  <2>1. jobs' \in [Ids -> Job]
    <3>1. jobs[id] \in Job
      BY DEF TypeOK
    <3>2. Moved(jobs[id], "recovery_required") \in Job
      BY <3>1, MovedType DEF Statuses
    <3>3. [Moved(jobs[id], "recovery_required") EXCEPT !.error = "recovery_required"] \in Job
      BY <3>2 DEF Job, ErrorCodes
    <3>. QED
      BY <1>4, <3>3 DEF StartRecover, Transition, TypeOK
  <2>2. recovering' \subseteq Ids /\ reconcileDue' \subseteq Ids
    BY <1>4 DEF StartRecover, TypeOK
  <2>3. UNCHANGED <<consumed, proc, accepts, transient, running, walletTail, wallet,
                    runTimers, reconciling, chain, submits, deliveries, polls, crashes>>
    BY <1>4 DEF StartRecover, outside, counters
  <2>. QED
    BY <2>1, <2>2, <2>3 DEF TypeOK, Anchored
<1>. QED
  BY <1>1, <1>2, <1>3, <1>4 DEF Start

(* Every step keeps the types.                                              *)
LEMMA NextTypeInv == TypeInv /\ [Next]_vars => TypeInv'
<1>. SUFFICES ASSUME TypeInv, [Next]_vars PROVE TypeInv'
  OBVIOUS
<1>1. CASE Next
  BY <1>1, AcceptTypeInv, WalletTypeInv, ReconcileTypeInv, RestartTypeInv DEF Next
<1>2. CASE UNCHANGED vars
  BY <1>2 DEF vars, durable, inMemory, outside, counters, TypeInv, TypeOK, Anchored
<1>. QED
  BY <1>1, <1>2

(* The relay is well typed for any requests, handlers and bounds.           *)
THEOREM TypeCorrect == Spec => []TypeOK
<1>1. TypeInv => TypeOK
  BY DEF TypeInv
<1>. QED
  BY <1>1, InitTypeInv, NextTypeInv, PTL DEF Spec

-----------------------------------------------------------------------------
(* Safety.  The invariant ties the wallet stage to the status of its job:   *)
(* with it, and only with it, the compare-and-sets show that nothing is     *)
(* sent before the intent is durable, and nothing twice.                    *)

StageFits ==
    /\ wallet.pc = "reserve" => jobs[wallet.id].status = "validated"
    /\ wallet.pc \in {"balance", "reject", "finalize"} =>
         jobs[wallet.id].status = "dust_reserved"
    /\ wallet.pc = "intend" => jobs[wallet.id].status = "finalized"
    /\ wallet.pc \in {"submit", "await", "accepted", "unknown"} =>
         jobs[wallet.id].status \in {"submitted", "confirmed", "failed"}
    /\ wallet.pc = "submit" => submits[wallet.id] = 0

ErrorFits ==
    \A id \in Ids : jobs[id].error = "recovery_required" =>
                        jobs[id].status = "recovery_required"

SafeInv ==
    /\ TypeInv
    /\ StageFits
    /\ ErrorFits
    /\ UnsentWhileReplayable
    /\ SubmitAtMostOnce
    /\ DustLeaseExclusive

(* What a compare-and-set does to every job.                                *)
LEMMA TransitionFacts ==
    ASSUME jobs \in [Ids -> Job], NEW id \in Ids, NEW expected, NEW patched \in Job,
           Transition(id, expected, patched)
    PROVE  /\ \A i \in Ids \ {id} : jobs'[i] = jobs[i]
           /\ jobs[id].status \in expected => jobs'[id] = patched
           /\ jobs[id].status \notin expected => jobs'[id] = jobs[id]
  BY DEF Transition

(* A job's status, lease and error after a step in which at most the job id *)
(* moved, from one status to another.                                       *)
OneJobMoves(id, from, to, code) ==
    /\ \A i \in Ids \ {id} : jobs'[i].status = jobs[i].status /\ jobs'[i].error = jobs[i].error
    /\ \/ /\ jobs[id].status \in from
          /\ jobs'[id].status = to
          /\ jobs'[id].error = code
       \/ /\ jobs[id].status \notin from
          /\ jobs'[id].status = jobs[id].status
          /\ jobs'[id].error = jobs[id].error

JobsKept == \A i \in Ids : jobs'[i].status = jobs[i].status /\ jobs'[i].error = jobs[i].error

(* Moves that neither take the lease nor fall back keep the journal parts   *)
(* of the invariant.                                                        *)
LEMMA MoveKeeps ==
    ASSUME SafeInv, NEW id \in Ids, NEW from, NEW to, NEW code,
           OneJobMoves(id, from, to, code), UNCHANGED submits,
           from \subseteq Statuses \cup {"absent"},
           to \in LeaseStatuses => from \subseteq LeaseStatuses,
           to \in {"absent", "authorized", "validated", "dust_reserved", "finalized"} \/
             code = "recovery_required" =>
             from \subseteq {"absent", "authorized", "validated", "dust_reserved", "finalized"},
           code = "recovery_required" => to = "recovery_required"
    PROVE  ErrorFits' /\ UnsentWhileReplayable' /\ SubmitAtMostOnce' /\ DustLeaseExclusive'
<1>. USE DEF SafeInv, OneJobMoves
<1>1. ErrorFits'
  BY DEF ErrorFits
<1>2. UnsentWhileReplayable'
  BY DEF UnsentWhileReplayable
<1>3. SubmitAtMostOnce'
  BY DEF SubmitAtMostOnce
<1>4. DustLeaseExclusive'
  BY DEF DustLeaseExclusive, HoldsLease
<1>. QED
  BY <1>1, <1>2, <1>3, <1>4

(* Steps that leave the jobs and the network alone.                         *)
LEMMA KeptKeeps ==
    ASSUME SafeInv, JobsKept, UNCHANGED submits
    PROVE  ErrorFits' /\ UnsentWhileReplayable' /\ SubmitAtMostOnce' /\ DustLeaseExclusive'
  BY DEF SafeInv, JobsKept, ErrorFits, UnsentWhileReplayable, SubmitAtMostOnce,
         DustLeaseExclusive, HoldsLease

(* The initial state is safe.                                               *)
LEMMA InitSafe == Init => SafeInv
<1>. SUFFICES ASSUME Init PROVE SafeInv
  OBVIOUS
<1>1. \A id \in Ids : jobs[id].status = "absent" /\ jobs[id].error = "none" /\ submits[id] = 0
  BY DEF Init, NoJob
<1>2. wallet.pc = "idle"
  BY DEF Init, IdleWallet
<1>. QED
  BY <1>1, <1>2, InitTypeInv
  DEF SafeInv, StageFits, ErrorFits, UnsentWhileReplayable, SubmitAtMostOnce,
      DustLeaseExclusive, HoldsLease, LeaseStatuses

(* The handlers of POST /v2/actions keep the invariant.                     *)
LEMMA AcceptSafe ==
    ASSUME SafeInv, TypeInv', NEW h \in Handlers
    PROVE  /\ \A r \in Requests : CreateJob(h, r) \/ FindJob(h, r) => SafeInv'
           /\ AcceptSteps(h) => SafeInv'
<1>. USE DEF SafeInv
<1>0. jobs \in [Ids -> Job]
  BY DEF TypeInv, TypeOK
<1>1. ASSUME NEW r \in Requests, CreateJob(h, r) PROVE SafeInv'
  <2>1. r.id \in Ids /\ ~Exists(r.id)
    BY <1>1, RequestsAssumption DEF CreateJob, Matching
  <2>2. OneJobMoves(r.id, {"absent"}, "authorized", "none")
    BY <1>0, <1>1, <2>1 DEF CreateJob, NoJob, OneJobMoves, Exists
  <2>3. UNCHANGED <<submits, wallet>>
    BY <1>1 DEF CreateJob, outside
  <2>4. ErrorFits' /\ UnsentWhileReplayable' /\ SubmitAtMostOnce' /\ DustLeaseExclusive'
    BY <2>1, <2>2, <2>3, MoveKeeps DEF LeaseStatuses
  <2>5. StageFits'
    BY <2>1, <2>2, <2>3 DEF StageFits, OneJobMoves, Exists, TypeInv, Anchored
  <2>. QED
    BY <2>4, <2>5
<1>2. ASSUME NEW r \in Requests, FindJob(h, r) PROVE SafeInv'
  <2>1. UNCHANGED <<jobs, submits, wallet>>
    BY <1>2 DEF FindJob, durable, outside
  <2>. QED
    BY <2>1, KeptKeeps DEF JobsKept, StageFits
<1>3. ASSUME CheckKey(h) \/ ConsumeCapability(h) \/ Attach(h) PROVE SafeInv'
  <2>1. UNCHANGED <<jobs, submits, wallet>>
    BY <1>3 DEF CheckKey, ConsumeCapability, Attach, durable, outside
  <2>. QED
    BY <2>1, KeptKeeps DEF JobsKept, StageFits
<1>4. ASSUME RejectReplay(h) PROVE SafeInv'
  <2>. DEFINE id == accepts[h].id
  <2>1. id \in Ids
    BY <1>4 DEF RejectReplay, TypeInv, Anchored
  <2>2. /\ Failed(jobs[id], "capability_replayed") \in Job
        /\ Failed(jobs[id], "capability_replayed").status = "failed"
        /\ Failed(jobs[id], "capability_replayed").error = "capability_replayed"
    BY <1>0, <2>1, FailedType DEF ErrorCodes
  <2>3. Transition(id, {"authorized"}, Failed(jobs[id], "capability_replayed"))
    BY <1>4 DEF RejectReplay
  <2>4. OneJobMoves(id, {"authorized"}, "failed", "capability_replayed")
    BY <1>0, <2>1, <2>2, <2>3, TransitionFacts DEF OneJobMoves
  <2>5. UNCHANGED <<submits, wallet>>
    BY <1>4 DEF RejectReplay, outside
  <2>6. ErrorFits' /\ UnsentWhileReplayable' /\ SubmitAtMostOnce' /\ DustLeaseExclusive'
    BY <2>1, <2>4, <2>5, MoveKeeps DEF LeaseStatuses, Statuses
  <2>7. StageFits'
    BY <2>1, <2>4, <2>5 DEF StageFits, OneJobMoves, TypeInv, Anchored
  <2>. QED
    BY <2>6, <2>7
<1>. QED
  BY <1>1, <1>2, <1>3, <1>4 DEF AcceptSteps

(* The wallet stage keeps the invariant.                                    *)
LEMMA WalletSafe ==
    ASSUME SafeInv, TypeInv', WalletStage
    PROVE  SafeInv'
<1>. USE DEF SafeInv
<1>. DEFINE id == wallet.id
<1>0. jobs \in [Ids -> Job]
  BY DEF TypeInv, TypeOK
<1>a. wallet.pc # "idle" => id \in Ids
  BY DEF TypeInv, Anchored
<1>b. wallet.pc # "idle" => jobs[id] \in Job
  BY <1>0, <1>a
<1>c. \A pc : [wallet EXCEPT !.pc = pc].pc = pc /\ [wallet EXCEPT !.pc = pc].id = id
  BY DEF TypeInv, TypeOK, WalletState
<1>d. IdleWallet.pc = "idle"
  BY DEF IdleWallet
<1>1. CASE StageRead
  <2>1. UNCHANGED <<jobs, submits>>
    BY <1>1 DEF StageRead, durable, outside
  <2>2. wallet'.pc \in {"idle", "validate"}
    BY <1>1 DEF StageRead, WalletAt, IdleWallet
  <2>. QED
    BY <2>1, <2>2, KeptKeeps DEF JobsKept, StageFits
<1>2. CASE StageValidate
  <2>1. wallet.pc = "validate"
    BY <1>2 DEF StageValidate, WalletAt
  <2>2. OneJobMoves(id, {"authorized"}, "validated", jobs[id].error)
    BY <1>0, <1>2, <1>a, <1>b, <2>1, TransitionFacts, MovedType
    DEF StageValidate, OneJobMoves, Statuses
  <2>3. UNCHANGED submits
    BY <1>2 DEF StageValidate, outside
  <2>4. jobs[id].error = "recovery_required" => jobs[id].status # "authorized"
    BY <1>a, <2>1 DEF ErrorFits
  <2>5. ErrorFits' /\ UnsentWhileReplayable' /\ SubmitAtMostOnce' /\ DustLeaseExclusive'
    <3>1. CASE jobs[id].status = "authorized"
      BY <1>a, <2>1, <2>2, <2>3, <2>4, <3>1, MoveKeeps DEF LeaseStatuses, Statuses
    <3>2. CASE jobs[id].status # "authorized"
      BY <2>2, <2>3, <3>2, KeptKeeps DEF OneJobMoves, JobsKept
    <3>. QED
      BY <3>1, <3>2
  <2>6. StageFits'
    <3>1. \/ wallet'.pc = "reserve" /\ wallet'.id = id /\ jobs[id].status = "authorized"
          \/ wallet'.pc = "idle"
      BY <1>2, <1>c, <1>d DEF StageValidate, WalletGoes, WalletEnds
    <3>. QED
      BY <2>2, <3>1 DEF OneJobMoves, StageFits
  <2>. QED
    BY <2>5, <2>6
<1>3. CASE StageReserve
  <2>1. wallet.pc = "reserve" /\ UNCHANGED submits
    BY <1>3 DEF StageReserve, WalletAt, outside
  <2>2. CASE jobs[id].status = "validated" /\ DustFree(id)
    <3>1. jobs' = [jobs EXCEPT ![id] = Moved(jobs[id], "dust_reserved")]
      BY <1>3, <2>2 DEF StageReserve
    <3>2. /\ \A i \in Ids \ {id} : jobs'[i] = jobs[i]
          /\ jobs'[id].status = "dust_reserved" /\ jobs'[id].error = jobs[id].error
      BY <1>0, <1>a, <1>b, <2>1, <3>1, MovedType DEF Statuses
    <3>3. ErrorFits'
      BY <1>a, <2>1, <2>2, <3>2 DEF ErrorFits
    <3>4. UnsentWhileReplayable' /\ SubmitAtMostOnce'
      BY <1>a, <2>1, <2>2, <3>2 DEF UnsentWhileReplayable, SubmitAtMostOnce
    <3>5. DustLeaseExclusive'
      BY <2>2, <3>2 DEF DustLeaseExclusive, DustFree, HoldsLease
    <3>6. StageFits'
      <4>1. wallet'.pc = "balance" /\ wallet'.id = id
        BY <1>3, <1>c, <2>2 DEF StageReserve, WalletGoes
      <4>. QED
        BY <3>2, <4>1 DEF StageFits
    <3>. QED
      BY <3>3, <3>4, <3>5, <3>6
  <2>3. CASE ~(jobs[id].status = "validated" /\ DustFree(id))
    <3>1. UNCHANGED jobs /\ wallet' = IdleWallet
      BY <1>3, <2>3 DEF StageReserve, WalletEnds
    <3>. QED
      BY <1>d, <2>1, <3>1, KeptKeeps DEF JobsKept, StageFits
  <2>. QED
    BY <2>2, <2>3
<1>4. CASE StageBalance \/ StageBalanceThrows
  <2>1. UNCHANGED <<jobs, submits>> /\ wallet.pc = "balance"
    BY <1>4 DEF StageBalance, StageBalanceThrows, durable, outside, WalletAt
  <2>2. wallet'.pc \in {"finalize", "reject"} /\ wallet'.id = id
    BY <1>4 DEF StageBalance, StageBalanceThrows, WalletGoes, TypeInv, TypeOK, WalletState
  <2>. QED
    BY <2>1, <2>2, KeptKeeps DEF JobsKept, StageFits
<1>5. CASE StageReject
  <2>1. wallet.pc = "reject"
    BY <1>5 DEF StageReject, WalletAt
  <2>2. OneJobMoves(id, {"dust_reserved"}, "failed", "transaction_rejected")
    BY <1>0, <1>5, <1>a, <1>b, <2>1, TransitionFacts, FailedType
    DEF StageReject, OneJobMoves, ErrorCodes
  <2>3. UNCHANGED submits /\ wallet' = IdleWallet
    BY <1>5 DEF StageReject, outside, WalletEnds
  <2>4. ErrorFits' /\ UnsentWhileReplayable' /\ SubmitAtMostOnce' /\ DustLeaseExclusive'
    BY <1>a, <2>1, <2>2, <2>3, MoveKeeps DEF LeaseStatuses, Statuses
  <2>. QED
    BY <1>d, <2>3, <2>4 DEF StageFits
<1>6. CASE StageFinalize
  <2>1. wallet.pc = "finalize" /\ jobs[id].status = "dust_reserved"
    BY <1>6 DEF StageFinalize, WalletAt, StageFits
  <2>2. OneJobMoves(id, {"dust_reserved"}, "finalized", jobs[id].error)
    <3>1. /\ Moved(jobs[id], "finalized") \in Job
          /\ Moved(jobs[id], "finalized").status = "finalized"
          /\ Moved(jobs[id], "finalized").error = jobs[id].error
      BY <1>b, <2>1, MovedType DEF Statuses
    <3>2. LET p == [Moved(jobs[id], "finalized") EXCEPT !.txid = wallet.derived]
          IN  p \in Job /\ p.status = "finalized" /\ p.error = jobs[id].error
      BY <3>1, WalletFields DEF Job
    <3>. QED
      BY <1>0, <1>6, <1>a, <2>1, <3>1, <3>2 DEF StageFinalize, Transition, OneJobMoves
  <2>3. UNCHANGED submits
    BY <1>6 DEF StageFinalize, outside
  <2>4. jobs[id].error # "recovery_required"
    BY <1>a, <2>1 DEF ErrorFits
  <2>5. ErrorFits' /\ UnsentWhileReplayable' /\ SubmitAtMostOnce' /\ DustLeaseExclusive'
    BY <1>a, <2>1, <2>2, <2>3, <2>4, MoveKeeps DEF LeaseStatuses, Statuses
  <2>6. StageFits'
    BY <1>6, <1>c, <2>1, <2>2 DEF StageFinalize, WalletGoes, OneJobMoves, StageFits
  <2>. QED
    BY <2>5, <2>6
<1>7. CASE StageIntend
  <2>1. wallet.pc = "intend" /\ jobs[id].status = "finalized"
    BY <1>7 DEF StageIntend, WalletAt, StageFits
  <2>2. OneJobMoves(id, {"finalized"}, "submitted", jobs[id].error)
    BY <1>0, <1>7, <1>a, <1>b, <2>1, TransitionFacts, MovedType
    DEF StageIntend, OneJobMoves, Statuses
  <2>3. UNCHANGED submits
    BY <1>7 DEF StageIntend, outside
  <2>4. jobs[id].error # "recovery_required" /\ submits[id] = 0
    BY <1>a, <2>1 DEF ErrorFits, UnsentWhileReplayable
  <2>5. ErrorFits' /\ UnsentWhileReplayable' /\ SubmitAtMostOnce' /\ DustLeaseExclusive'
    BY <1>a, <2>1, <2>2, <2>3, <2>4, MoveKeeps DEF LeaseStatuses, Statuses
  <2>6. wallet'.pc = "submit" /\ wallet'.id = id
    BY <1>7, <1>c, <2>1 DEF StageIntend, WalletGoes
  <2>7. StageFits'
    BY <2>1, <2>2, <2>3, <2>4, <2>6 DEF OneJobMoves, StageFits
  <2>. QED
    BY <2>5, <2>7
<1>8. CASE NodeReceives
  <2>1. wallet.pc = "submit" /\ UNCHANGED jobs /\ submits' = [submits EXCEPT ![id] = @ + 1]
    BY <1>8 DEF NodeReceives, WalletAt, durable
  <2>2. /\ jobs[id].status \in {"submitted", "confirmed", "failed"}
        /\ submits[id] = 0 /\ submits \in [Ids -> Nat]
    BY <2>1 DEF StageFits, TypeInv, TypeOK
  <2>3. jobs[id].error # "recovery_required"
    BY <1>a, <2>1, <2>2 DEF ErrorFits
  <2>4. submits'[id] = 1 /\ \A i \in Ids \ {id} : submits'[i] = submits[i]
    BY <1>a, <2>1, <2>2
  <2>5. ErrorFits' /\ DustLeaseExclusive'
    BY <2>1 DEF ErrorFits, DustLeaseExclusive, HoldsLease
  <2>6. UnsentWhileReplayable' /\ SubmitAtMostOnce'
    BY <1>a, <2>1, <2>2, <2>3, <2>4 DEF UnsentWhileReplayable, SubmitAtMostOnce
  <2>7. wallet'.pc = "await" /\ wallet'.id = id
    BY <1>8, <1>c DEF NodeReceives, WalletGoes
  <2>8. StageFits'
    BY <2>1, <2>2, <2>7 DEF StageFits
  <2>. QED
    BY <2>5, <2>6, <2>8
<1>9. CASE SubmitReturns \/ SubmitThrows
  <2>1. UNCHANGED <<jobs, submits>> /\ wallet.pc \in {"submit", "await"}
    BY <1>9 DEF SubmitReturns, SubmitThrows, durable, outside, WalletAt
  <2>2. wallet'.pc \in {"accepted", "unknown"} /\ wallet'.id = id
    BY <1>9 DEF SubmitReturns, SubmitThrows, WalletGoes, TypeInv, TypeOK, WalletState
  <2>. QED
    BY <2>1, <2>2, KeptKeeps DEF JobsKept, StageFits
<1>10. CASE StageAccepted
  <2>1. wallet.pc = "accepted" /\ UNCHANGED submits /\ wallet' = IdleWallet
    BY <1>10 DEF StageAccepted, WalletAt, outside, WalletEnds
  <2>2. \/ OneJobMoves(id, {"submitted"}, "failed", "submission_id_mismatch")
        \/ OneJobMoves(id, {"submitted"}, "indexer_pending", jobs[id].error)
    <3>. DEFINE failed  == Failed(jobs[id], "submission_id_mismatch")
                waiting == Moved(jobs[id], "indexer_pending")
                patched == [waiting EXCEPT !.txid = wallet.answer]
    <3>1. failed \in Job /\ failed.status = "failed"
            /\ failed.error = "submission_id_mismatch"
      BY <1>b, <2>1, FailedType DEF ErrorCodes
    <3>2. waiting \in Job /\ waiting.status = "indexer_pending"
            /\ waiting.error = jobs[id].error
      BY <1>b, <2>1, MovedType DEF Statuses
    <3>3. patched \in Job /\ patched.status = "indexer_pending"
            /\ patched.error = jobs[id].error
      BY <3>2, WalletFields DEF Job
    <3>4. Transition(id, {"submitted"}, failed) \/ Transition(id, {"submitted"}, patched)
      BY <1>10 DEF StageAccepted
    <3>. QED
      BY <1>0, <1>a, <2>1, <3>1, <3>3, <3>4 DEF Transition, OneJobMoves
  <2>3. jobs[id].error = "recovery_required" => jobs[id].status # "submitted"
    BY <1>a, <2>1 DEF ErrorFits
  <2>4. ErrorFits' /\ UnsentWhileReplayable' /\ SubmitAtMostOnce' /\ DustLeaseExclusive'
    <3>1. CASE jobs[id].status = "submitted"
      BY <1>a, <2>1, <2>2, <2>3, <3>1, MoveKeeps DEF LeaseStatuses, Statuses
    <3>2. CASE jobs[id].status # "submitted"
      BY <2>1, <2>2, <3>2, KeptKeeps DEF OneJobMoves, JobsKept
    <3>. QED
      BY <3>1, <3>2
  <2>. QED
    BY <1>d, <2>1, <2>4 DEF StageFits
<1>11. CASE StageUnknown
  <2>1. wallet.pc = "unknown" /\ UNCHANGED submits /\ wallet' = IdleWallet
    BY <1>11 DEF StageUnknown, WalletAt, outside, WalletEnds
  <2>2. \/ OneJobMoves(id, {"submitted"}, "recovery_required", "submission_unknown")
        \/ OneJobMoves(id, {"submitted"}, "indexer_pending", jobs[id].error)
    <3>. DEFINE parking == Moved(jobs[id], "recovery_required")
                parked  == [parking EXCEPT !.error = "submission_unknown"]
                waiting == Moved(jobs[id], "indexer_pending")
                patched == [waiting EXCEPT !.txid = wallet.derived]
    <3>1. parking \in Job /\ parking.status = "recovery_required"
      BY <1>b, <2>1, MovedType DEF Statuses
    <3>2. parked \in Job /\ parked.status = "recovery_required"
            /\ parked.error = "submission_unknown"
      BY <3>1 DEF Job, ErrorCodes
    <3>3. waiting \in Job /\ waiting.status = "indexer_pending"
            /\ waiting.error = jobs[id].error
      BY <1>b, <2>1, MovedType DEF Statuses
    <3>4. patched \in Job /\ patched.status = "indexer_pending"
            /\ patched.error = jobs[id].error
      BY <3>3, WalletFields DEF Job
    <3>5. Transition(id, {"submitted"}, parked) \/ Transition(id, {"submitted"}, patched)
      BY <1>11 DEF StageUnknown
    <3>. QED
      BY <1>0, <1>a, <2>1, <3>2, <3>4, <3>5 DEF Transition, OneJobMoves
  <2>3. jobs[id].error = "recovery_required" => jobs[id].status # "submitted"
    BY <1>a, <2>1 DEF ErrorFits
  <2>4. ErrorFits' /\ UnsentWhileReplayable' /\ SubmitAtMostOnce' /\ DustLeaseExclusive'
    <3>1. CASE jobs[id].status = "submitted"
      BY <1>a, <2>1, <2>2, <2>3, <3>1, MoveKeeps DEF LeaseStatuses, Statuses
    <3>2. CASE jobs[id].status # "submitted"
      BY <2>1, <2>2, <3>2, KeptKeeps DEF OneJobMoves, JobsKept
    <3>. QED
      BY <3>1, <3>2
  <2>. QED
    BY <1>d, <2>1, <2>4 DEF StageFits
<1>. QED
  BY <1>1, <1>2, <1>3, <1>4, <1>5, <1>6, <1>7, <1>8, <1>9, <1>10, <1>11 DEF WalletStage

(* Timers, polls, reconcile() and the chain keep the invariant.             *)
LEMMA ReconcileSafe ==
    ASSUME SafeInv, TypeInv', NEW id \in Ids,
           \/ RunTimer(id) \/ Poll(id) \/ ReconcileRead(id)
           \/ Answered(id) \/ Unanswered(id) \/ Applied(id) \/ IndexerSees(id)
    PROVE  SafeInv'
<1>. USE DEF SafeInv
<1>1. CASE \/ RunTimer(id) \/ Poll(id) \/ ReconcileRead(id)
           \/ Answered(id) \/ Unanswered(id) \/ IndexerSees(id)
  <2>1. UNCHANGED <<jobs, submits, wallet>>
    BY <1>1 DEF RunTimer, Poll, ReconcileRead, Answered, Unanswered, ResolverAnswers,
                ResolverThrows, IndexerSees, durable, outside, inMemory
  <2>. QED
    BY <2>1, KeptKeeps DEF JobsKept, StageFits
<1>2. CASE Applied(id)
  <2>1. PICK task \in reconciling : task.id = id /\ ReconcileApply(task)
    BY <1>2 DEF Applied
  <2>2. UNCHANGED <<submits, wallet>>
    BY <2>1 DEF ReconcileApply, outside
  <2>3. CASE task.verdict = "lagging"
    <3>1. UNCHANGED jobs
      BY <2>1, <2>3 DEF ReconcileApply
    <3>. QED
      BY <2>2, <3>1, KeptKeeps DEF JobsKept, StageFits
  <2>4. CASE task.verdict # "lagging"
    <3>. DEFINE pending   == {"submitted", "indexer_pending"}
                moved     == Moved(jobs[id], "confirmed")
                confirmed == [moved EXCEPT !.receipt = task.txid]
                failed    == Failed(jobs[id], task.verdict)
    <3>0. jobs \in [Ids -> Job] /\ jobs[id] \in Job
      BY DEF TypeInv, TypeOK
    <3>1. moved \in Job /\ moved.status = "confirmed" /\ moved.error = jobs[id].error
      BY <3>0, MovedType DEF Statuses
    <3>2. confirmed \in Job /\ confirmed.status = "confirmed"
            /\ confirmed.error = jobs[id].error
      BY <3>1 DEF Job, TypeInv, TypeOK, Settling
    <3>3. task.verdict # "receipt" => task.verdict \in {"indexer_rejected",
                                                        "indexer_contract_mismatch"}
      BY <2>1, <2>4 DEF ReconcileApply, TypeInv, TypeOK, Settling, Verdicts
    <3>4. task.verdict # "receipt" => /\ failed \in Job /\ failed.status = "failed"
                                      /\ failed.error = task.verdict
      BY <3>0, <3>3, FailedType DEF ErrorCodes
    <3>5. \/ Transition(id, pending, confirmed)
          \/ task.verdict # "receipt" /\ Transition(id, pending, failed)
      BY <2>1, <2>4 DEF ReconcileApply
    <3>6. \/ OneJobMoves(id, pending, "confirmed", jobs[id].error)
          \/ /\ OneJobMoves(id, pending, "failed", task.verdict)
             /\ task.verdict # "recovery_required"
      BY <3>0, <3>2, <3>3, <3>4, <3>5 DEF Transition, OneJobMoves
    <3>7. jobs[id].error = "recovery_required" => jobs[id].status \notin pending
      BY DEF ErrorFits
    <3>8. ErrorFits' /\ UnsentWhileReplayable' /\ SubmitAtMostOnce' /\ DustLeaseExclusive'
      <4>1. CASE jobs[id].status \in pending
        BY <2>2, <3>6, <3>7, <4>1, MoveKeeps DEF LeaseStatuses, Statuses
      <4>2. CASE jobs[id].status \notin pending
        BY <2>2, <3>6, <4>2, KeptKeeps DEF OneJobMoves, JobsKept
      <4>. QED
        BY <4>1, <4>2
    <3>9. StageFits'
      BY <2>2, <3>6 DEF OneJobMoves, StageFits, TypeInv, Anchored
    <3>. QED
      BY <3>8, <3>9
  <2>. QED
    BY <2>3, <2>4
<1>. QED
  BY <1>1, <1>2

(* Death and restart keep the invariant.                                    *)
LEMMA RestartSafe ==
    ASSUME SafeInv, TypeInv', Crash \/ Start
    PROVE  SafeInv'
<1>. USE DEF SafeInv
<1>1. CASE Crash
  <2>1. UNCHANGED <<jobs, submits>> /\ wallet'.pc = "idle"
    BY <1>1 DEF Crash, durable, outside, IdleWallet
  <2>. QED
    BY <2>1, KeptKeeps DEF JobsKept, StageFits
<1>2. CASE StartList \/ StartListens
  <2>1. UNCHANGED <<jobs, submits, wallet>>
    BY <1>2 DEF StartList, StartListens, durable, outside, inMemory
  <2>. QED
    BY <2>1, KeptKeeps DEF JobsKept, StageFits
<1>3. ASSUME NEW id \in Ids, StartRecover(id) PROVE SafeInv'
  <2>. DEFINE early   == {"authorized", "validated", "dust_reserved", "finalized"}
              parking == Moved(jobs[id], "recovery_required")
              parked  == [parking EXCEPT !.error = "recovery_required"]
  <2>0. jobs \in [Ids -> Job] /\ jobs[id] \in Job
    BY DEF TypeInv, TypeOK
  <2>1. parking \in Job /\ parking.status = "recovery_required"
    BY <2>0, MovedType DEF Statuses
  <2>2. parked \in Job /\ parked.status = "recovery_required"
          /\ parked.error = "recovery_required"
    BY <2>1 DEF Job, ErrorCodes
  <2>3. UNCHANGED <<submits, wallet>> /\ wallet.pc = "idle"
    BY <1>3 DEF StartRecover, outside, TypeInv, Anchored
  <2>4. UNCHANGED jobs \/ Transition(id, early, parked)
    BY <1>3 DEF StartRecover
  <2>5. CASE UNCHANGED jobs
    BY <2>3, <2>5, KeptKeeps DEF JobsKept, StageFits
  <2>6. CASE Transition(id, early, parked)
    <3>1. OneJobMoves(id, early, "recovery_required", "recovery_required")
      BY <2>0, <2>2, <2>6, TransitionFacts DEF OneJobMoves
    <3>2. ErrorFits' /\ UnsentWhileReplayable' /\ SubmitAtMostOnce' /\ DustLeaseExclusive'
      BY <2>3, <3>1, MoveKeeps DEF LeaseStatuses, Statuses
    <3>. QED
      BY <2>3, <3>2 DEF StageFits
  <2>. QED
    BY <2>4, <2>5, <2>6
<1>. QED
  BY <1>1, <1>2, <1>3 DEF Start

(* Every step keeps the invariant.                                          *)
LEMMA NextSafe == SafeInv /\ [Next]_vars => SafeInv'
<1>. SUFFICES ASSUME SafeInv, [Next]_vars PROVE SafeInv'
  OBVIOUS
<1>1. TypeInv'
  BY NextTypeInv DEF SafeInv
<1>2. CASE Next
  BY <1>1, <1>2, AcceptSafe, WalletSafe, ReconcileSafe, RestartSafe DEF Next
<1>3. CASE UNCHANGED vars
  <2>1. UNCHANGED <<jobs, submits, wallet>>
    BY <1>3 DEF vars, durable, inMemory, outside
  <2>. QED
    BY <1>1, <2>1, KeptKeeps DEF SafeInv, JobsKept, StageFits
<1>. QED
  BY <1>2, <1>3

(* However often requests are delivered and wherever the process dies, the  *)
(* transaction of a job reaches the network at most once.                   *)
THEOREM AtMostOnce == Spec => []SubmitAtMostOnce
<1>1. SafeInv => SubmitAtMostOnce
  BY DEF SafeInv
<1>. QED
  BY <1>1, InitSafe, NextSafe, PTL DEF Spec

(* What the journal shows as not submitted, or start() has parked, was not  *)
(* sent.                                                                    *)
THEOREM ReplayIsSafe == Spec => []UnsentWhileReplayable
<1>1. SafeInv => UnsentWhileReplayable
  BY DEF SafeInv
<1>. QED
  BY <1>1, InitSafe, NextSafe, PTL DEF Spec

(* No two jobs hold the DUST lease.                                         *)
THEOREM LeaseExclusive == Spec => []DustLeaseExclusive
<1>1. SafeInv => DustLeaseExclusive
  BY DEF SafeInv
<1>. QED
  BY <1>1, InitSafe, NextSafe, PTL DEF Spec

-----------------------------------------------------------------------------
(***************************************************************************)
(* How the jobs settle: receipts, the lease of a transaction that is under *)
(* way, the timers of reconcile(), and that the relay implements           *)
(* SponsoredAction.  The theorems rest on SafeInv and on a second          *)
(* invariant, which ties a job to the identifier its transaction is known  *)
(* by.                                                                     *)
(***************************************************************************)

Pending == {"submitted", "indexer_pending"}

(* The indexer has heard of a job's transaction exactly when it was sent.   *)
NetworkFits == \A id \in Ids : chain[id] = "absent" <=> submits[id] = 0

(* A job has no identifier before it is finalized, and after that the one   *)
(* of its own transaction or the one a node answered with.                  *)
TxidFits ==
    \A id \in Ids :
        /\ jobs[id].txid \in {id, AlienTx, NoTx}
        /\ jobs[id].txid = AlienTx => submits[id] = 1
        /\ jobs[id].status \in {"absent", "authorized", "validated", "dust_reserved"}
             => jobs[id].txid = NoTx

(* What the wallet stage knows agrees with the journal and the network.     *)
WalletFits ==
    /\ wallet.pc = "idle" => wallet.id = NoTx
    /\ wallet.pc = "validate" => jobs[wallet.id].status \in {"authorized", "failed"}
    /\ wallet.derived \in {wallet.id, NoTx}
    /\ wallet.pc \in {"intend", "submit", "await", "accepted", "unknown"} =>
         jobs[wallet.id].txid = wallet.derived
    /\ wallet.pc = "submit" => jobs[wallet.id].status = "submitted"
    /\ wallet.pc \in {"await", "accepted"} => submits[wallet.id] = 1
    /\ wallet.pc = "accepted" => wallet.answer \in {wallet.id, AlienTx}

(* A reconcile call under way asks about the identifier of its job, and its *)
(* verdict is still what the indexer says.                                  *)
TasksFit ==
    \A task \in reconciling :
        /\ jobs[task.id].txid = task.txid
        /\ task.verdict = "receipt" => chain[task.txid] = "success"
        /\ task.verdict = "indexer_rejected" => chain[task.txid] = "failure"
        /\ task.verdict = "indexer_contract_mismatch" => chain[task.txid] = "foreign"

(* The codes of a job that fails by what the indexer says, and what it says.*)
IndexerCodes == {"indexer_rejected", "indexer_contract_mismatch"}

Refused(id, txid, code) ==
    /\ submits[id] = 1 /\ txid # NoTx
    /\ chain[txid] = IF code = "indexer_rejected" THEN "failure" ELSE "foreign"

LinkInv ==
    /\ NetworkFits
    /\ TxidFits
    /\ WalletFits
    /\ TasksFit
    /\ ReceiptBacked
    /\ UnsettledTxHoldsLease

(* PendingJobWatched, with the loop of start() as one more watcher.         *)
Watched(id) ==
    \/ wallet.id = id
    \/ id \in reconcileDue
    \/ \E task \in reconciling : task.id = id

StartWatches ==
    \A id \in Ids :
        /\ proc # "down"
        /\ jobs[id].status \in Pending
        /\ jobs[id].txid # NoTx
        => Watched(id) \/ (proc = "starting" /\ id \in recovering)

SettleInv == SafeInv /\ LinkInv /\ StartWatches

-----------------------------------------------------------------------------
(* The journal, the network and the calls that are under way.               *)

(* A step after which the job id has these fields and the others are as     *)
(* they were.                                                               *)
JobBecomes(id, status, txid, receipt, error) ==
    /\ \A i \in Ids \ {id} : jobs'[i] = jobs[i]
    /\ jobs'[id].status = status
    /\ jobs'[id].txid = txid
    /\ jobs'[id].receipt = receipt
    /\ jobs'[id].error = error

(* The patches of transition() that write more than the status.             *)
Parked(job, code)          == [Moved(job, "recovery_required") EXCEPT !.error = code]
Named(job, status, txid)   == [Moved(job, status) EXCEPT !.txid = txid]
Receipted(job, txid)       == [Moved(job, "confirmed") EXCEPT !.receipt = txid]

(* A transition() to another status changes nothing else.                   *)
LEMMA MoveEffect ==
    ASSUME TypeInv, NEW id \in Ids, NEW expected, NEW status \in Statuses,
           Transition(id, expected, Moved(jobs[id], status))
    PROVE  \/ jobs[id].status \notin expected /\ UNCHANGED jobs
           \/ /\ jobs[id].status \in expected
              /\ JobBecomes(id, status, jobs[id].txid, jobs[id].receipt, jobs[id].error)
<1>1. jobs \in [Ids -> Job] /\ jobs[id] \in Job
  BY DEF TypeInv, TypeOK
<1>. QED
  BY <1>1, MovedType DEF Transition, JobBecomes

(* A transition() to `failed` leaves the error code.                        *)
LEMMA FailEffect ==
    ASSUME TypeInv, NEW id \in Ids, NEW expected, NEW code \in ErrorCodes,
           Transition(id, expected, Failed(jobs[id], code))
    PROVE  \/ jobs[id].status \notin expected /\ UNCHANGED jobs
           \/ /\ jobs[id].status \in expected
              /\ JobBecomes(id, "failed", jobs[id].txid, jobs[id].receipt, code)
<1>1. jobs \in [Ids -> Job] /\ jobs[id] \in Job
  BY DEF TypeInv, TypeOK
<1>. QED
  BY <1>1, FailedType DEF Transition, JobBecomes

(* A transition() to `recovery_required` leaves the error code.             *)
LEMMA ParkEffect ==
    ASSUME TypeInv, NEW id \in Ids, NEW expected, NEW code \in ErrorCodes,
           Transition(id, expected, Parked(jobs[id], code))
    PROVE  \/ jobs[id].status \notin expected /\ UNCHANGED jobs
           \/ /\ jobs[id].status \in expected
              /\ JobBecomes(id, "recovery_required", jobs[id].txid, jobs[id].receipt, code)
<1>. DEFINE moved == Moved(jobs[id], "recovery_required")
            parked == Parked(jobs[id], code)
<1>1. jobs \in [Ids -> Job] /\ jobs[id] \in Job
  BY DEF TypeInv, TypeOK
<1>2. /\ moved \in Job /\ moved.status = "recovery_required"
      /\ moved.txid = jobs[id].txid /\ moved.receipt = jobs[id].receipt
  BY <1>1, MovedType DEF Statuses
<1>3. /\ parked.status = "recovery_required" /\ parked.error = code
      /\ parked.txid = jobs[id].txid /\ parked.receipt = jobs[id].receipt
  BY <1>2 DEF Job, Parked
<1>. QED
  BY <1>1, <1>3 DEF Transition, JobBecomes

(* A transition() that records an identifier.                               *)
LEMMA NameEffect ==
    ASSUME TypeInv, NEW id \in Ids, NEW expected, NEW status \in Statuses,
           NEW txid \in TxIds,
           Transition(id, expected, Named(jobs[id], status, txid))
    PROVE  \/ jobs[id].status \notin expected /\ UNCHANGED jobs
           \/ /\ jobs[id].status \in expected
              /\ JobBecomes(id, status, txid, jobs[id].receipt, jobs[id].error)
<1>. DEFINE moved == Moved(jobs[id], status)
            named == Named(jobs[id], status, txid)
<1>1. jobs \in [Ids -> Job] /\ jobs[id] \in Job
  BY DEF TypeInv, TypeOK
<1>2. /\ moved \in Job /\ moved.status = status
      /\ moved.error = jobs[id].error /\ moved.receipt = jobs[id].receipt
  BY <1>1, MovedType
<1>3. /\ named.status = status /\ named.error = jobs[id].error
      /\ named.txid = txid /\ named.receipt = jobs[id].receipt
  BY <1>2 DEF Job, Named
<1>. QED
  BY <1>1, <1>3 DEF Transition, JobBecomes

(* A transition() to `confirmed` records the receipt.                       *)
LEMMA ConfirmEffect ==
    ASSUME TypeInv, NEW id \in Ids, NEW expected, NEW txid \in TxIds,
           Transition(id, expected, Receipted(jobs[id], txid))
    PROVE  \/ jobs[id].status \notin expected /\ UNCHANGED jobs
           \/ /\ jobs[id].status \in expected
              /\ JobBecomes(id, "confirmed", jobs[id].txid, txid, jobs[id].error)
<1>. DEFINE moved == Moved(jobs[id], "confirmed")
            settled == Receipted(jobs[id], txid)
<1>1. jobs \in [Ids -> Job] /\ jobs[id] \in Job
  BY DEF TypeInv, TypeOK
<1>2. /\ moved \in Job /\ moved.status = "confirmed"
      /\ moved.error = jobs[id].error /\ moved.txid = jobs[id].txid
  BY <1>1, MovedType DEF Statuses
<1>3. /\ settled.status = "confirmed" /\ settled.error = jobs[id].error
      /\ settled.txid = jobs[id].txid /\ settled.receipt = txid
  BY <1>2 DEF Job, Receipted
<1>. QED
  BY <1>1, <1>3 DEF Transition, JobBecomes

(* Steps that leave the journal and the network alone.                      *)
LEMMA JournalKept ==
    ASSUME LinkInv, UNCHANGED <<jobs, chain, submits>>
    PROVE  NetworkFits' /\ TxidFits' /\ ReceiptBacked' /\ UnsettledTxHoldsLease'
  BY DEF LinkInv, NetworkFits, TxidFits, ReceiptBacked, UnsettledTxHoldsLease, HoldsLease

LEMMA CodesOfTheRelay ==
    {"none", "capability_replayed", "transaction_rejected", "submission_unknown",
     "submission_id_mismatch", "recovery_required"} \subseteq ErrorCodes \ IndexerCodes
BY DEF ErrorCodes, IndexerCodes

(* Steps that move one job without a receipt.                               *)
LEMMA JournalMoves ==
    ASSUME LinkInv, NEW id \in Ids, NEW status, NEW txid, NEW error,
           JobBecomes(id, status, txid, jobs[id].receipt, error),
           UNCHANGED <<chain, submits>>,
           jobs[id].status \notin {"confirmed", "failed"}, status # "confirmed",
           \/ error = jobs[id].error
           \/ error \in ErrorCodes \ IndexerCodes
           \/ status = "failed" /\ error \in IndexerCodes /\ Refused(id, txid, error),
           txid \in {id, AlienTx, NoTx},
           txid = AlienTx => submits[id] = 1,
           status \in {"absent", "authorized", "validated", "dust_reserved"} => txid = NoTx,
           chain[id] = "inflight" =>
               \/ status \in LeaseStatuses
               \/ error \in {"submission_id_mismatch", "submission_unknown"}
               \/ txid = AlienTx
    PROVE  NetworkFits' /\ TxidFits' /\ ReceiptBacked' /\ UnsettledTxHoldsLease'
<1>. USE DEF LinkInv, JobBecomes
<1>1. NetworkFits'
  BY DEF NetworkFits
<1>2. TxidFits'
  BY DEF TxidFits
<1>3. ReceiptBacked'
  <2>1. jobs[id].error \notin IndexerCodes
    BY DEF ReceiptBacked, IndexerCodes
  <2>. QED
    BY <2>1 DEF ReceiptBacked, IndexerCodes, Refused
<1>4. UnsettledTxHoldsLease'
  BY DEF UnsettledTxHoldsLease, HoldsLease
<1>. QED
  BY <1>1, <1>2, <1>3, <1>4

LEMMA JournalMovesOn ==
    ASSUME LinkInv, NEW id \in Ids, NEW status, NEW txid,
           JobBecomes(id, status, txid, jobs[id].receipt, jobs[id].error),
           UNCHANGED <<chain, submits>>,
           jobs[id].status \notin {"confirmed", "failed"}, status # "confirmed",
           txid \in {id, AlienTx, NoTx},
           txid = AlienTx => submits[id] = 1,
           status \in {"absent", "authorized", "validated", "dust_reserved"} => txid = NoTx,
           chain[id] = "inflight" => status \in LeaseStatuses
    PROVE  NetworkFits' /\ TxidFits' /\ ReceiptBacked' /\ UnsettledTxHoldsLease'
<1>. DEFINE error == jobs[id].error
<1>1. JobBecomes(id, status, txid, jobs[id].receipt, error) /\ error = jobs[id].error
  OBVIOUS
<1>. HIDE DEF error
<1>. QED
  BY <1>1, JournalMoves

(* Reconcile calls under way are not disturbed by a job that keeps its      *)
(* identifier or is given its first one.                                    *)
LEMMA TasksKept ==
    ASSUME TypeInv, TasksFit, NEW id \in Ids, UNCHANGED <<chain, reconciling>>,
           \A i \in Ids \ {id} : jobs'[i] = jobs[i],
           jobs'[id].txid = jobs[id].txid \/ jobs[id].txid = NoTx
    PROVE  TasksFit'
<1>1. \A task \in reconciling : task.id \in Ids /\ task.txid # NoTx
  BY DistinctValues DEF TypeInv, TypeOK, Settling
<1>. QED
  BY <1>1 DEF TasksFit

(* The initial state.                                                       *)
LEMMA InitLink == Init => LinkInv
<1>. SUFFICES ASSUME Init PROVE LinkInv
  OBVIOUS
<1>1. /\ \A id \in Ids : /\ jobs[id].status = "absent" /\ jobs[id].txid = NoTx
                         /\ jobs[id].receipt = NoTx /\ jobs[id].error = "none" /\ submits[id] = 0
                         /\ chain[id] = "absent"
      /\ reconciling = {}
  BY DistinctValues DEF Init, NoJob, TxIds
<1>2. wallet.pc = "idle" /\ wallet.id = NoTx /\ wallet.derived = NoTx
  BY DEF Init, IdleWallet
<1>. QED
  BY <1>1, <1>2, DistinctValues
  DEF LinkInv, NetworkFits, TxidFits, WalletFits, TasksFit, ReceiptBacked,
      UnsettledTxHoldsLease, HoldsLease, TxIds

(* The handlers of POST /v2/actions.                                        *)
LEMMA AcceptLink ==
    ASSUME SafeInv, LinkInv, NEW h \in Handlers
    PROVE  /\ \A r \in Requests : CreateJob(h, r) \/ FindJob(h, r) => LinkInv'
           /\ AcceptSteps(h) => LinkInv'
<1>. USE DEF SafeInv
<1>1. ASSUME NEW r \in Requests, CreateJob(h, r) PROVE LinkInv'
  <2>1. r.id \in Ids /\ jobs[r.id].status = "absent" /\ jobs \in [Ids -> Job]
    BY <1>1, RequestsAssumption DEF CreateJob, Matching, Exists, TypeInv, TypeOK
  <2>2. UNCHANGED <<chain, submits, reconciling, wallet>>
    BY <1>1 DEF CreateJob, outside
  <2>3. jobs[r.id].txid = NoTx /\ jobs[r.id].receipt = NoTx /\ submits[r.id] = 0
    BY <2>1 DEF LinkInv, TxidFits, ReceiptBacked, UnsentWhileReplayable
  <2>4. JobBecomes(r.id, "authorized", NoTx, jobs[r.id].receipt, "none")
    BY <1>1, <2>1, <2>3 DEF CreateJob, NoJob, JobBecomes
  <2>5. chain[r.id] # "inflight"
    BY <2>1, <2>3 DEF LinkInv, NetworkFits
  <2>6. NetworkFits' /\ TxidFits' /\ ReceiptBacked' /\ UnsettledTxHoldsLease'
    BY <2>1, <2>2, <2>4, <2>5, JournalMoves, CodesOfTheRelay, DistinctValues DEF TxIds
  <2>7. TasksFit'
    BY <2>1, <2>2, <2>3, <2>4, TasksKept DEF LinkInv, JobBecomes
  <2>8. WalletFits'
    BY <2>1, <2>2, <2>3, <2>4 DEF LinkInv, WalletFits, JobBecomes, TypeInv, Anchored
  <2>. QED
    BY <2>6, <2>7, <2>8 DEF LinkInv
<1>2. ASSUME \/ \E r \in Requests : FindJob(h, r)
             \/ CheckKey(h) \/ ConsumeCapability(h) \/ Attach(h)
      PROVE  LinkInv'
  <2>1. UNCHANGED <<jobs, chain, submits, wallet, reconciling>>
    BY <1>2 DEF FindJob, CheckKey, ConsumeCapability, Attach, durable, outside
  <2>. QED
    BY <2>1, JournalKept DEF LinkInv, WalletFits, TasksFit
<1>3. ASSUME RejectReplay(h) PROVE LinkInv'
  <2>. DEFINE id == accepts[h].id
  <2>1. id \in Ids
    BY <1>3 DEF RejectReplay, TypeInv, Anchored
  <2>2. UNCHANGED <<chain, submits, reconciling, wallet>>
    BY <1>3 DEF RejectReplay, outside
  <2>3. Transition(id, {"authorized"}, Failed(jobs[id], "capability_replayed"))
    BY <1>3 DEF RejectReplay
  <2>4. CASE UNCHANGED jobs
    BY <2>2, <2>4, JournalKept DEF LinkInv, WalletFits, TasksFit
  <2>5. CASE /\ jobs[id].status = "authorized"
             /\ JobBecomes(id, "failed", jobs[id].txid, jobs[id].receipt, "capability_replayed")
    <3>1. jobs[id].txid = NoTx /\ submits[id] = 0
      BY <2>1, <2>5 DEF LinkInv, TxidFits, UnsentWhileReplayable
    <3>2. chain[id] # "inflight"
      BY <2>1, <3>1 DEF LinkInv, NetworkFits
    <3>3. NetworkFits' /\ TxidFits' /\ ReceiptBacked' /\ UnsettledTxHoldsLease'
      BY <2>1, <2>2, <2>5, <3>1, <3>2, JournalMoves, CodesOfTheRelay, DistinctValues DEF TxIds
    <3>4. TasksFit'
      BY <2>1, <2>2, <2>5, TasksKept DEF LinkInv, JobBecomes
    <3>5. WalletFits'
      BY <2>1, <2>2, <2>5 DEF LinkInv, WalletFits, JobBecomes, TypeInv, Anchored
    <3>. QED
      BY <3>3, <3>4, <3>5 DEF LinkInv
  <2>. QED
    BY <2>1, <2>3, <2>4, <2>5, FailEffect DEF ErrorCodes
<1>. QED
  BY <1>1, <1>2, <1>3 DEF AcceptSteps

(* The wallet stage, up to the durable intent: nothing is sent yet, so the  *)
(* lease may still be given back.                                           *)
LEMMA PrepareLink ==
    ASSUME SafeInv, LinkInv,
           \/ StageRead \/ StageValidate \/ StageReserve
           \/ StageBalance \/ StageBalanceThrows \/ StageReject
           \/ StageFinalize \/ StageIntend
    PROVE  LinkInv'
<1>. USE DEF SafeInv
<1>. DEFINE id == wallet.id
<1>0. jobs \in [Ids -> Job] /\ wallet \in WalletState
  BY DEF TypeInv, TypeOK
<1>a. wallet.pc # "idle" => id \in Ids
  BY DEF TypeInv, Anchored
<1>b. UNCHANGED <<chain, submits, reconciling>>
  BY DEF StageRead, StageValidate, StageReserve, StageBalance, StageBalanceThrows,
         StageReject, StageFinalize, StageIntend, outside
<1>c. /\ IdleWallet.pc = "idle" /\ IdleWallet.id = NoTx /\ IdleWallet.derived = NoTx
      /\ \A pc : LET w == [wallet EXCEPT !.pc = pc]
                 IN  w.pc = pc /\ w.id = id /\ w.derived = wallet.derived
                       /\ w.answer = wallet.answer
  BY <1>0 DEF IdleWallet, WalletState
<1>d. UNCHANGED jobs => /\ NetworkFits' /\ TxidFits' /\ ReceiptBacked'
                        /\ UnsettledTxHoldsLease' /\ TasksFit'
  BY <1>b, JournalKept DEF LinkInv, TasksFit
<1>e. wallet' = IdleWallet => WalletFits'
  BY <1>c DEF WalletFits
<1>f. ASSUME id \in Ids, jobs[id].status \in {"authorized", "validated", "dust_reserved",
                                               "finalized"}
      PROVE  chain[id] # "inflight"
  BY <1>f DEF LinkInv, NetworkFits, UnsentWhileReplayable
<1>g. ASSUME NEW status \in Statuses \ {"confirmed"},
             NEW error, error = jobs[id].error \/ error \in ErrorCodes \ IndexerCodes, id \in Ids,
             jobs[id].status \in {"authorized", "validated", "dust_reserved", "finalized"},
             status \in {"authorized", "validated", "dust_reserved"} =>
                jobs[id].status \in {"authorized", "validated", "dust_reserved"},
             JobBecomes(id, status, jobs[id].txid, jobs[id].receipt, error)
      PROVE  /\ NetworkFits' /\ TxidFits' /\ ReceiptBacked'
             /\ UnsettledTxHoldsLease' /\ TasksFit'
  <2>1. /\ jobs[id].txid \in {id, AlienTx, NoTx}
        /\ jobs[id].txid = AlienTx => submits[id] = 1
        /\ status \in {"absent", "authorized", "validated", "dust_reserved"} =>
             jobs[id].txid = NoTx
    BY <1>g DEF LinkInv, TxidFits, Statuses
  <2>2. TasksFit'
    BY <1>b, <1>g, TasksKept DEF LinkInv, JobBecomes
  <2>3. NetworkFits' /\ TxidFits' /\ ReceiptBacked' /\ UnsettledTxHoldsLease'
    <3>1. chain[id] # "inflight" /\ jobs[id].status \notin {"confirmed", "failed"} /\ status # "confirmed"
      BY <1>f, <1>g
    <3>. QED
      BY <1>b, <1>g, <2>1, <3>1, JournalMoves
  <2>. QED
    BY <2>2, <2>3
<1>1. CASE StageRead
  <2>1. UNCHANGED jobs /\ wallet.pc = "idle"
    BY <1>1 DEF StageRead, durable, WalletAt
  <2>2. \/ UNCHANGED wallet
        \/ /\ wallet'.pc = "validate" /\ wallet'.derived = NoTx
           /\ jobs[wallet'.id].status = "authorized"
    BY <1>1 DEF StageRead, IdleWallet
  <2>3. WalletFits'
    BY <2>1, <2>2 DEF LinkInv, WalletFits
  <2>. QED
    BY <1>d, <2>1, <2>3 DEF LinkInv
<1>2. CASE StageValidate
  <2>1. wallet.pc = "validate" /\ Transition(id, {"authorized"}, Moved(jobs[id], "validated"))
    BY <1>2 DEF StageValidate, WalletAt
  <2>2. \/ jobs[id].status # "authorized" /\ UNCHANGED jobs
        \/ /\ jobs[id].status = "authorized"
           /\ JobBecomes(id, "validated", jobs[id].txid, jobs[id].receipt, jobs[id].error)
    BY <1>a, <2>1, MoveEffect DEF Statuses
  <2>3. WalletFits'
    <3>1. \/ wallet' = IdleWallet
          \/ wallet'.pc = "reserve" /\ wallet'.id = id /\ wallet'.derived = wallet.derived
      BY <1>2, <1>c DEF StageValidate, WalletGoes, WalletEnds
    <3>. QED
      BY <1>e, <3>1 DEF LinkInv, WalletFits
  <2>. QED
    BY <1>a, <1>d, <1>g, <2>1, <2>2, <2>3 DEF LinkInv, Statuses
<1>3. CASE StageReserve
  <2>1. wallet.pc = "reserve" /\ jobs[id].status = "validated"
    BY <1>3 DEF StageReserve, WalletAt, StageFits
  <2>2. \/ UNCHANGED jobs
        \/ JobBecomes(id, "dust_reserved", jobs[id].txid, jobs[id].receipt, jobs[id].error)
    <3>1. UNCHANGED jobs \/ Transition(id, {"validated"}, Moved(jobs[id], "dust_reserved"))
      BY <1>3, <2>1 DEF StageReserve, Transition
    <3>. QED
      BY <1>a, <2>1, <3>1, MoveEffect DEF Statuses
  <2>3. WalletFits'
    <3>1. \/ wallet' = IdleWallet
          \/ wallet'.pc = "balance" /\ wallet'.id = id /\ wallet'.derived = wallet.derived
      BY <1>3, <1>c DEF StageReserve, WalletGoes, WalletEnds
    <3>. QED
      BY <1>e, <3>1 DEF LinkInv, WalletFits
  <2>. QED
    BY <1>a, <1>d, <1>g, <2>1, <2>2, <2>3 DEF LinkInv, Statuses
<1>4. CASE StageBalance \/ StageBalanceThrows
  <2>1. UNCHANGED jobs
    BY <1>4 DEF StageBalance, StageBalanceThrows, durable
  <2>2. wallet'.pc \in {"finalize", "reject"} /\ wallet'.id = id
          /\ wallet'.derived \in {id, NoTx}
    <3>1. CASE StageBalance
      BY <1>0, <3>1 DEF StageBalance, WalletState
    <3>2. CASE StageBalanceThrows
      BY <1>c, <3>2 DEF StageBalanceThrows, WalletGoes, LinkInv, WalletFits
    <3>. QED
      BY <1>4, <3>1, <3>2
  <2>3. WalletFits'
    BY <2>2 DEF WalletFits
  <2>. QED
    BY <1>d, <2>1, <2>3 DEF LinkInv
<1>5. CASE StageReject
  <2>1. /\ wallet.pc = "reject" /\ jobs[id].status = "dust_reserved" /\ wallet' = IdleWallet
        /\ Transition(id, {"dust_reserved"}, Failed(jobs[id], "transaction_rejected"))
    BY <1>5 DEF StageReject, WalletAt, StageFits, WalletEnds
  <2>2. JobBecomes(id, "failed", jobs[id].txid, jobs[id].receipt, "transaction_rejected")
    BY <1>a, <2>1, FailEffect DEF ErrorCodes
  <2>. QED
    BY <1>a, <1>e, <1>g, <2>1, <2>2, CodesOfTheRelay DEF LinkInv, Statuses
<1>6. CASE StageFinalize
  <2>1. wallet.pc = "finalize" /\ jobs[id].status = "dust_reserved" /\ jobs[id].txid = NoTx
    BY <1>6, <1>a DEF StageFinalize, WalletAt, StageFits, LinkInv, TxidFits
  <2>2. wallet'.pc = "intend" /\ wallet'.id = id /\ wallet'.derived = wallet.derived
    BY <1>6, <1>c DEF StageFinalize, WalletGoes
  <2>3. wallet.derived \in {id, NoTx}
    BY DEF LinkInv, WalletFits
  <2>4. JobBecomes(id, "finalized", wallet.derived, jobs[id].receipt, jobs[id].error)
    <3>1. CASE wallet.derived = NoTx
      <4>1. Transition(id, {"dust_reserved"}, Moved(jobs[id], "finalized"))
        BY <1>6, <3>1 DEF StageFinalize
      <4>. QED
        BY <1>a, <2>1, <3>1, <4>1, MoveEffect DEF Statuses
    <3>2. CASE wallet.derived # NoTx
      <4>1. Transition(id, {"dust_reserved"}, Named(jobs[id], "finalized", wallet.derived))
        BY <1>6, <3>2 DEF StageFinalize, Named
      <4>2. wallet.derived \in TxIds /\ "finalized" \in Statuses
        BY <1>a, <2>1, <2>3, <3>2 DEF TxIds, Statuses
      <4>. QED
        BY <1>a, <2>1, <4>1, <4>2, NameEffect
    <3>. QED
      BY <3>1, <3>2
  <2>5. NetworkFits' /\ TxidFits' /\ ReceiptBacked' /\ UnsettledTxHoldsLease'
    <3>1. /\ chain[id] # "inflight" /\ jobs[id].status \notin {"confirmed", "failed"}
          /\ wallet.derived \in {id, AlienTx, NoTx} /\ wallet.derived # AlienTx /\ id \in Ids
      BY <1>a, <1>f, <2>1, <2>3, DistinctValues DEF TxIds
    <3>. QED
      BY ONLY LinkInv, <1>b, <2>4, <3>1, JournalMovesOn
  <2>6. TasksFit'
    BY <1>a, <1>b, <2>1, <2>4, TasksKept DEF LinkInv, JobBecomes
  <2>7. WalletFits'
    BY <1>a, <2>1, <2>2, <2>3, <2>4 DEF WalletFits, JobBecomes
  <2>. QED
    BY <2>5, <2>6, <2>7 DEF LinkInv
<1>7. CASE StageIntend
  <2>1. /\ wallet.pc = "intend" /\ jobs[id].status = "finalized"
        /\ Transition(id, {"finalized"}, Moved(jobs[id], "submitted"))
    BY <1>7 DEF StageIntend, WalletAt, StageFits
  <2>2. JobBecomes(id, "submitted", jobs[id].txid, jobs[id].receipt, jobs[id].error)
    BY <1>a, <2>1, MoveEffect DEF Statuses
  <2>3. wallet'.pc = "submit" /\ wallet'.id = id /\ wallet'.derived = wallet.derived
    <3>1. wallet' = [wallet EXCEPT !.pc = "submit"]
      BY <1>7, <2>1 DEF StageIntend, WalletGoes
    <3>. QED
      BY <1>c, <3>1
  <2>4. WalletFits'
    BY <2>1, <2>2, <2>3 DEF LinkInv, WalletFits, JobBecomes
  <2>. QED
    BY <1>a, <1>g, <2>1, <2>2, <2>4 DEF LinkInv, Statuses
<1>. QED
  BY <1>1, <1>2, <1>3, <1>4, <1>5, <1>6, <1>7

(* The wallet stage, from the submission to the answer.                     *)
LEMMA SubmitLink ==
    ASSUME SafeInv, LinkInv,
           \/ NodeReceives \/ SubmitReturns \/ SubmitThrows
           \/ StageAccepted \/ StageUnknown
    PROVE  LinkInv'
<1>. USE DEF SafeInv
<1>. DEFINE id == wallet.id
<1>0. jobs \in [Ids -> Job] /\ wallet \in WalletState
  BY DEF TypeInv, TypeOK
<1>1. /\ wallet.pc # "idle" /\ id \in Ids /\ jobs[id].txid = wallet.derived
      /\ wallet.derived \in {id, NoTx} /\ UNCHANGED reconciling
  BY DEF NodeReceives, SubmitReturns, SubmitThrows, StageAccepted, StageUnknown,
         WalletAt, TypeInv, Anchored, LinkInv, WalletFits
<1>2. /\ IdleWallet.pc = "idle" /\ IdleWallet.id = NoTx /\ IdleWallet.derived = NoTx
      /\ \A pc : LET w == [wallet EXCEPT !.pc = pc]
                 IN  w.pc = pc /\ w.id = id /\ w.derived = wallet.derived
                       /\ w.answer = wallet.answer
  BY <1>0 DEF IdleWallet, WalletState
<1>3. wallet' = IdleWallet => WalletFits'
  BY <1>2 DEF WalletFits
<1>4. CASE NodeReceives
  <2>1. /\ wallet.pc = "submit" /\ UNCHANGED jobs
        /\ jobs[id].status = "submitted" /\ submits[id] = 0 /\ chain[id] = "absent"
    BY <1>1, <1>4 DEF NodeReceives, WalletAt, durable, LinkInv, WalletFits, StageFits,
                      NetworkFits
  <2>2. /\ submits'[id] = 1 /\ \A i \in Ids \ {id} : submits'[i] = submits[i]
        /\ chain'[id] = "inflight" /\ \A t \in TxIds \ {id} : chain'[t] = chain[t]
    BY <1>1, <1>4, <2>1 DEF NodeReceives, TypeInv, TypeOK, TxIds
  <2>3. wallet'.pc = "await" /\ wallet'.id = id /\ wallet'.derived = wallet.derived
    BY <1>2, <1>4 DEF NodeReceives, WalletGoes
  <2>4. NetworkFits'
    BY <2>2 DEF LinkInv, NetworkFits, TxIds
  <2>5. TxidFits'
    BY <2>1, <2>2 DEF LinkInv, TxidFits
  <2>6. WalletFits'
    BY <1>1, <2>1, <2>2, <2>3 DEF WalletFits
  <2>7. TasksFit'
    <3>1. \A task \in reconciling : task.txid \in TxIds
      BY DEF TypeInv, TypeOK, Settling
    <3>. QED
      BY <1>1, <2>1, <2>2, <3>1 DEF LinkInv, TasksFit
  <2>8. ReceiptBacked'
    <3>1. \A i \in Ids : jobs[i].receipt # NoTx => jobs[i].receipt \in TxIds
      BY <1>0 DEF Job
    <3>2. \A i \in Ids : submits[i] = 1 => i # id
      BY <2>1
    <3>3. \A i \in Ids : jobs[i].txid # NoTx =>
             (chain[jobs[i].txid] \in {"success", "failure", "foreign"} =>
                chain'[jobs[i].txid] = chain[jobs[i].txid])
      BY <2>1, <2>2 DEF LinkInv, TxidFits, TxIds
    <3>. QED
      BY <1>0, <2>1, <2>2, <3>2, <3>3 DEF LinkInv, ReceiptBacked
  <2>9. UnsettledTxHoldsLease'
    BY <2>1, <2>2 DEF LinkInv, UnsettledTxHoldsLease, HoldsLease, LeaseStatuses, TxIds
  <2>. QED
    BY <2>4, <2>5, <2>6, <2>7, <2>8, <2>9 DEF LinkInv
<1>5. CASE SubmitReturns \/ SubmitThrows
  <2>1. UNCHANGED <<jobs, chain, submits>>
    BY <1>5 DEF SubmitReturns, SubmitThrows, durable, outside
  <2>2. WalletFits'
    <3>1. CASE SubmitReturns
      <4>1. /\ wallet.pc = "await" /\ wallet'.pc = "accepted" /\ wallet'.id = id
            /\ wallet'.derived = wallet.derived /\ wallet'.answer \in {id, AlienTx}
        BY <1>0, <3>1 DEF SubmitReturns, WalletAt, WalletState
      <4>. QED
        BY <1>1, <2>1, <4>1 DEF LinkInv, WalletFits
    <3>2. CASE SubmitThrows
      <4>1. wallet'.pc = "unknown" /\ wallet'.id = id /\ wallet'.derived = wallet.derived
        BY <1>2, <3>2 DEF SubmitThrows, WalletGoes
      <4>. QED
        BY <1>1, <2>1, <4>1 DEF WalletFits
    <3>. QED
      BY <1>5, <3>1, <3>2
  <2>. QED
    BY <1>1, <2>1, <2>2, JournalKept DEF LinkInv, TasksFit
<1>6. CASE StageAccepted
  <2>1. /\ wallet.pc = "accepted" /\ wallet' = IdleWallet /\ UNCHANGED <<chain, submits>>
        /\ wallet.answer \in {id, AlienTx} /\ submits[id] = 1
    BY <1>6 DEF StageAccepted, WalletAt, WalletEnds, outside, LinkInv, WalletFits
  <2>2. CASE UNCHANGED jobs
    BY <1>1, <1>3, <2>1, <2>2, JournalKept DEF LinkInv, TasksFit
  <2>3. CASE /\ jobs[id].status = "submitted"
             /\ JobBecomes(id, "failed", jobs[id].txid, jobs[id].receipt,
                           "submission_id_mismatch")
    <3>1. NetworkFits' /\ TxidFits' /\ ReceiptBacked' /\ UnsettledTxHoldsLease'
      <4>1. /\ jobs[id].txid \in {id, AlienTx, NoTx} /\ jobs[id].txid = AlienTx => submits[id] = 1
        BY <1>1, <2>1
      <4>. QED
        BY ONLY LinkInv, <1>1, <2>1, <2>3, <4>1, JournalMoves, CodesOfTheRelay
    <3>2. TasksFit'
      BY <1>1, <2>1, <2>3, TasksKept DEF LinkInv, JobBecomes
    <3>. QED
      BY <1>3, <2>1, <3>1, <3>2 DEF LinkInv
  <2>4. CASE /\ jobs[id].status = "submitted"
             /\ wallet.derived = NoTx \/ wallet.answer = wallet.derived
             /\ JobBecomes(id, "indexer_pending", wallet.answer, jobs[id].receipt,
                           jobs[id].error)
    <3>1. NetworkFits' /\ TxidFits' /\ ReceiptBacked' /\ UnsettledTxHoldsLease'
      BY <1>1, <2>1, <2>4, JournalMoves DEF LeaseStatuses
    <3>2. TasksFit'
      BY <1>1, <2>1, <2>4, TasksKept DEF LinkInv, JobBecomes
    <3>. QED
      BY <1>3, <2>1, <3>1, <3>2 DEF LinkInv
  <2>5. CASE wallet.derived # NoTx /\ wallet.answer # wallet.derived
    <3>1. Transition(id, {"submitted"}, Failed(jobs[id], "submission_id_mismatch"))
      BY <1>6, <2>5 DEF StageAccepted
    <3>. QED
      BY <1>1, <2>2, <2>3, <3>1, FailEffect DEF ErrorCodes
  <2>6. CASE ~(wallet.derived # NoTx /\ wallet.answer # wallet.derived)
    <3>1. Transition(id, {"submitted"}, Named(jobs[id], "indexer_pending", wallet.answer))
      BY <1>6, <2>6 DEF StageAccepted, Named
    <3>2. wallet.answer \in TxIds /\ "indexer_pending" \in Statuses
      BY <1>1, <2>1 DEF TxIds, Statuses
    <3>3. id \in Ids /\ TypeInv
      BY <1>1
    <3>4. \/ jobs[id].status \notin {"submitted"} /\ UNCHANGED jobs
          \/ /\ jobs[id].status \in {"submitted"}
             /\ JobBecomes(id, "indexer_pending", wallet.answer, jobs[id].receipt,
                           jobs[id].error)
      BY ONLY <3>1, <3>2, <3>3, NameEffect
    <3>. QED
      BY <2>2, <2>4, <2>6, <3>4
  <2>. QED
    BY <2>5, <2>6
<1>7. CASE StageUnknown
  <2>1. wallet.pc = "unknown" /\ wallet' = IdleWallet /\ UNCHANGED <<chain, submits>>
    BY <1>7 DEF StageUnknown, WalletAt, WalletEnds, outside
  <2>2. CASE UNCHANGED jobs
    BY <1>1, <1>3, <2>1, <2>2, JournalKept DEF LinkInv, TasksFit
  <2>3. CASE /\ jobs[id].status = "submitted"
             /\ \/ JobBecomes(id, "recovery_required", jobs[id].txid, jobs[id].receipt,
                              "submission_unknown")
                \/ JobBecomes(id, "indexer_pending", jobs[id].txid, jobs[id].receipt,
                              jobs[id].error)
    <3>1. NetworkFits' /\ TxidFits' /\ ReceiptBacked' /\ UnsettledTxHoldsLease'
      <4>1. /\ jobs[id].txid \in {id, NoTx} /\ jobs[id].txid # AlienTx
            /\ jobs[id].status = "submitted"
        BY <1>1, <2>3, DistinctValues DEF TxIds
      <4>2. CASE JobBecomes(id, "recovery_required", jobs[id].txid, jobs[id].receipt,
                            "submission_unknown")
        BY ONLY LinkInv, <1>1, <2>1, <4>1, <4>2, JournalMoves, CodesOfTheRelay
      <4>3. CASE JobBecomes(id, "indexer_pending", jobs[id].txid, jobs[id].receipt,
                            jobs[id].error)
        <5>1. "indexer_pending" \in LeaseStatuses
          BY DEF LeaseStatuses
        <5>. QED
          BY ONLY LinkInv, <1>1, <2>1, <4>1, <4>3, <5>1, JournalMovesOn
      <4>. QED
        BY <2>3, <4>2, <4>3
    <3>2. TasksFit'
      BY <1>1, <2>1, <2>3, TasksKept DEF LinkInv, JobBecomes
    <3>. QED
      BY <1>3, <2>1, <3>1, <3>2 DEF LinkInv
  <2>4. CASE wallet.derived # NoTx
    <3>1. Transition(id, {"submitted"}, Named(jobs[id], "indexer_pending", wallet.derived))
      BY <1>7, <2>4 DEF StageUnknown, Named
    <3>2. wallet.derived \in TxIds /\ "indexer_pending" \in Statuses
      BY <1>1, <2>4 DEF TxIds, Statuses
    <3>3. \/ UNCHANGED jobs
          \/ /\ jobs[id].status = "submitted"
             /\ JobBecomes(id, "indexer_pending", wallet.derived, jobs[id].receipt,
                           jobs[id].error)
      BY <1>1, <3>1, <3>2, NameEffect
    <3>. QED
      BY <1>1, <2>2, <2>3, <3>3
  <2>5. CASE wallet.derived = NoTx
    <3>1. Transition(id, {"submitted"}, Parked(jobs[id], "submission_unknown"))
      BY <1>7, <2>5 DEF StageUnknown, Parked
    <3>2. \/ UNCHANGED jobs
          \/ /\ jobs[id].status = "submitted"
             /\ JobBecomes(id, "recovery_required", jobs[id].txid, jobs[id].receipt,
                           "submission_unknown")
      BY <1>1, <3>1, ParkEffect DEF ErrorCodes
    <3>. QED
      BY <2>2, <2>3, <3>2
  <2>. QED
    BY <2>4, <2>5
<1>. QED
  BY <1>4, <1>5, <1>6, <1>7

(* Timers, polls, reconcile() and the chain.                                *)
LEMMA ReconcileLink ==
    ASSUME SafeInv, LinkInv, NEW id \in Ids,
           \/ RunTimer(id) \/ Poll(id) \/ ReconcileRead(id)
           \/ Answered(id) \/ Unanswered(id) \/ Applied(id) \/ IndexerSees(id)
    PROVE  LinkInv'
<1>. USE DEF SafeInv
<1>0. jobs \in [Ids -> Job] /\ reconciling \subseteq Settling
  BY DEF TypeInv, TypeOK
<1>1. CASE RunTimer(id) \/ Poll(id) \/ ReconcileRead(id)
  <2>1. UNCHANGED <<jobs, chain, submits, wallet>>
    BY <1>1 DEF RunTimer, Poll, ReconcileRead, durable, outside
  <2>2. \A task \in reconciling' :
           \/ task \in reconciling
           \/ jobs[task.id].txid = task.txid /\ task.verdict = "asked"
    BY <1>1 DEF RunTimer, Poll, ReconcileRead
  <2>3. TasksFit'
    BY <2>1, <2>2 DEF LinkInv, TasksFit
  <2>. QED
    BY <2>1, <2>3, JournalKept DEF LinkInv, WalletFits
<1>2. CASE Answered(id) \/ Unanswered(id)
  <2>1. PICK task \in reconciling : ResolverAnswers(task) \/ ResolverThrows(task)
    BY <1>2 DEF Answered, Unanswered
  <2>2. UNCHANGED <<jobs, chain, submits, wallet>>
    BY <2>1 DEF ResolverAnswers, ResolverThrows, durable, outside
  <2>3. PICK v \in {Resolve(task.txid), "lagging"} :
          reconciling' = (reconciling \ {task}) \cup {[task EXCEPT !.verdict = v]}
    BY <2>1 DEF ResolverAnswers, ResolverThrows
  <2>4. /\ v = "receipt" => chain[task.txid] = "success"
        /\ v = "indexer_rejected" => chain[task.txid] = "failure"
        /\ v = "indexer_contract_mismatch" => chain[task.txid] = "foreign"
    BY DEF Resolve
  <2>5. LET answered == [task EXCEPT !.verdict = v]
        IN  answered.id = task.id /\ answered.txid = task.txid /\ answered.verdict = v
    BY <1>0 DEF Settling
  <2>6. \A t \in reconciling' :
           t \in reconciling \/ (t.id = task.id /\ t.txid = task.txid /\ t.verdict = v)
    BY <2>3, <2>5
  <2>7. TasksFit'
    BY <2>2, <2>4, <2>6 DEF LinkInv, TasksFit
  <2>. QED
    BY <2>2, <2>7, JournalKept DEF LinkInv, WalletFits
<1>3. CASE Applied(id)
  <2>1. PICK task \in reconciling : task.id = id /\ ReconcileApply(task)
    BY <1>3 DEF Applied
  <2>2. /\ UNCHANGED <<chain, submits, wallet>> /\ reconciling' \subseteq reconciling
        /\ jobs[id].txid = task.txid /\ task.txid \in TxIds
    BY <1>0, <2>1 DEF ReconcileApply, outside, LinkInv, TasksFit, Settling
  <2>3. ASSUME UNCHANGED jobs PROVE LinkInv'
    BY <2>2, <2>3, JournalKept DEF LinkInv, WalletFits, TasksFit
  <2>0. chain[task.txid] # "absent" => submits[id] = 1 /\ jobs[id].txid # NoTx
    <3>1. submits[id] \in Nat /\ submits[id] <= 1
      BY DEF TypeInv, TypeOK, SubmitAtMostOnce
    <3>. QED
      BY <2>2, <3>1, DistinctValues DEF LinkInv, TxidFits, NetworkFits
  <2>4. ASSUME jobs[id].status \in Pending, task.verdict \notin {"asked", "lagging"},
               NEW status \in {"confirmed", "failed"}, NEW receipt, NEW error,
               JobBecomes(id, status, jobs[id].txid, receipt, error)
        PROVE  TasksFit' /\ WalletFits'
    <3>1. TasksFit'
      <4>1. \A t \in reconciling' : t \in reconciling /\ t.id \in Ids
        BY <1>0, <2>2 DEF Settling
      <4>. QED
        BY <2>2, <2>4, <4>1 DEF LinkInv, TasksFit, JobBecomes
    <3>2. wallet.pc = "submit" => wallet.id # id
      <4>. SUFFICES ASSUME wallet.pc = "submit", wallet.id = id PROVE FALSE
        OBVIOUS
      <4>1. chain[id] = "absent"
        BY DEF StageFits, LinkInv, NetworkFits
      <4>2. task.txid = id
        BY <2>2, DistinctValues DEF LinkInv, WalletFits
      <4>3. chain[task.txid] # "absent"
        BY <1>0, <2>1, <2>4 DEF LinkInv, TasksFit, Settling, Verdicts
      <4>. QED
        BY <4>1, <4>2, <4>3
    <3>3. WalletFits'
      BY <2>2, <2>4, <3>2 DEF LinkInv, WalletFits, JobBecomes, Pending, TypeInv, Anchored
    <3>. QED
      BY <3>1, <3>3
  <2>5. CASE task.verdict = "lagging"
    BY <2>1, <2>3, <2>5 DEF ReconcileApply
  <2>6. CASE task.verdict = "receipt"
    <3>1. Transition(id, Pending, Receipted(jobs[id], task.txid))
      BY <2>1, <2>6 DEF ReconcileApply, Receipted, Pending
    <3>2. \/ UNCHANGED jobs
          \/ /\ jobs[id].status \in Pending
             /\ JobBecomes(id, "confirmed", jobs[id].txid, task.txid, jobs[id].error)
      BY ONLY TypeInv, id \in Ids, <2>2, <3>1, ConfirmEffect
    <3>3. ASSUME jobs[id].status \in Pending,
                 JobBecomes(id, "confirmed", jobs[id].txid, task.txid, jobs[id].error)
          PROVE  LinkInv'
      <4>1. chain[task.txid] = "success"
        BY <2>6 DEF LinkInv, TasksFit
      <4>2. NetworkFits' /\ TxidFits'
        BY <2>2, <3>3 DEF LinkInv, NetworkFits, TxidFits, JobBecomes
      <4>3. ReceiptBacked'
        <5>1. jobs[id].error \notin IndexerCodes
          BY <3>3 DEF LinkInv, ReceiptBacked, IndexerCodes, Pending
        <5>. QED
          BY <2>0, <2>2, <3>3, <4>1, <5>1, DistinctValues
          DEF LinkInv, ReceiptBacked, IndexerCodes, JobBecomes
      <4>4. UnsettledTxHoldsLease'
        BY <2>2, <3>3, <4>1, DistinctValues
        DEF LinkInv, UnsettledTxHoldsLease, HoldsLease, JobBecomes, TxidFits, TxIds
      <4>. QED
        BY <2>4, <2>6, <3>3, <4>2, <4>3, <4>4 DEF LinkInv
    <3>. QED
      BY <2>3, <3>2, <3>3
  <2>7. CASE task.verdict \in {"indexer_rejected", "indexer_contract_mismatch"}
    <3>1. Transition(id, Pending, Failed(jobs[id], task.verdict))
      BY <2>1, <2>7 DEF ReconcileApply, Pending
    <3>2. task.verdict \in ErrorCodes
      BY <2>7 DEF ErrorCodes
    <3>3. \/ UNCHANGED jobs
          \/ /\ jobs[id].status \in Pending
             /\ JobBecomes(id, "failed", jobs[id].txid, jobs[id].receipt, task.verdict)
      BY ONLY TypeInv, id \in Ids, <3>1, <3>2, FailEffect
    <3>4. ASSUME jobs[id].status \in Pending,
                 JobBecomes(id, "failed", jobs[id].txid, jobs[id].receipt, task.verdict)
          PROVE  LinkInv'
      <4>1. chain[id] = "inflight" => jobs[id].txid = AlienTx
        BY <2>2, <2>7, DistinctValues DEF LinkInv, TasksFit, TxidFits
      <4>2. /\ jobs[id].txid \in {id, AlienTx, NoTx}
            /\ jobs[id].txid = AlienTx => submits[id] = 1
            /\ jobs[id].status \notin {"confirmed", "failed"}
            /\ task.verdict \in IndexerCodes
        BY <2>7, <3>4 DEF LinkInv, TxidFits, Pending, IndexerCodes
      <4>4. Refused(id, jobs[id].txid, task.verdict)
        BY <2>0, <2>2, <2>7 DEF LinkInv, TasksFit, Refused
      <4>3. NetworkFits' /\ TxidFits' /\ ReceiptBacked' /\ UnsettledTxHoldsLease'
        BY ONLY LinkInv, id \in Ids, <2>2, <3>4, <4>1, <4>2, <4>4, JournalMoves
      <4>. QED
        BY <2>4, <2>7, <3>4, <4>3 DEF LinkInv
    <3>. QED
      BY <2>3, <3>3, <3>4
  <2>. QED
    BY <1>0, <2>1, <2>5, <2>6, <2>7 DEF ReconcileApply, Settling, Verdicts
<1>4. CASE IndexerSees(id)
  <2>1. UNCHANGED <<jobs, submits, wallet, reconciling>>
    BY <1>4 DEF IndexerSees, durable, inMemory
  <2>2. /\ chain[id] = "inflight" /\ chain'[id] \in {"success", "failure", "foreign"}
        /\ \A t \in TxIds \ {id} : chain'[t] = chain[t]
    BY <1>4 DEF IndexerSees, TypeInv, TypeOK, TxIds
  <2>3. NetworkFits' /\ TxidFits' /\ WalletFits' /\ UnsettledTxHoldsLease'
    BY <2>1, <2>2 DEF LinkInv, NetworkFits, TxidFits, WalletFits, UnsettledTxHoldsLease,
                      HoldsLease, TxIds
  <2>4. TasksFit'
    BY <1>0, <2>1, <2>2 DEF LinkInv, TasksFit, Settling
  <2>5. ReceiptBacked'
    <3>1. \A i \in Ids : jobs[i].receipt # NoTx => jobs[i].receipt \in TxIds
      BY <1>0 DEF Job
    <3>. QED
      <4>1. \A i \in Ids : jobs[i].txid # NoTx =>
               (chain[jobs[i].txid] \in {"success", "failure", "foreign"} =>
                  chain'[jobs[i].txid] = chain[jobs[i].txid])
        BY <2>2 DEF LinkInv, TxidFits, TxIds
      <4>. QED
        BY <1>0, <2>1, <3>1, <4>1, DistinctValues DEF LinkInv, ReceiptBacked
  <2>. QED
    BY <2>3, <2>4, <2>5 DEF LinkInv
<1>. QED
  BY <1>1, <1>2, <1>3, <1>4

(* Death and restart.                                                       *)
LEMMA RestartLink ==
    ASSUME SafeInv, LinkInv, Crash \/ Start
    PROVE  LinkInv'
<1>. USE DEF SafeInv
<1>1. CASE Crash
  <2>1. /\ UNCHANGED <<jobs, chain, submits>> /\ reconciling' = {}
        /\ wallet'.pc = "idle" /\ wallet'.id = NoTx /\ wallet'.derived = NoTx
    BY <1>1 DEF Crash, durable, outside, IdleWallet
  <2>. QED
    BY <2>1, JournalKept DEF LinkInv, WalletFits, TasksFit
<1>2. CASE StartList \/ StartListens
  <2>1. UNCHANGED <<jobs, chain, submits, wallet, reconciling>>
    BY <1>2 DEF StartList, StartListens, durable, outside, inMemory
  <2>. QED
    BY <2>1, JournalKept DEF LinkInv, WalletFits, TasksFit
<1>3. ASSUME NEW id \in Ids, StartRecover(id) PROVE LinkInv'
  <2>. DEFINE early == {"authorized", "validated", "dust_reserved", "finalized"}
  <2>1. UNCHANGED <<chain, submits, wallet, reconciling>> /\ wallet.pc = "idle"
    BY <1>3 DEF StartRecover, outside, TypeInv, Anchored
  <2>2. UNCHANGED jobs \/ Transition(id, early, Parked(jobs[id], "recovery_required"))
    BY <1>3 DEF StartRecover, Parked
  <2>3. "recovery_required" \in ErrorCodes
    BY DEF ErrorCodes
  <2>4. \/ UNCHANGED jobs
        \/ /\ jobs[id].status \in early
           /\ JobBecomes(id, "recovery_required", jobs[id].txid, jobs[id].receipt,
                         "recovery_required")
    BY ONLY TypeInv, id \in Ids, <2>2, <2>3, ParkEffect
  <2>5. CASE UNCHANGED jobs
    BY <2>1, <2>5, JournalKept DEF LinkInv, WalletFits, TasksFit
  <2>6. CASE /\ jobs[id].status \in early
             /\ JobBecomes(id, "recovery_required", jobs[id].txid, jobs[id].receipt,
                           "recovery_required")
    <3>1. /\ jobs[id].txid \in {id, AlienTx, NoTx} /\ jobs[id].status \notin {"confirmed", "failed"}
          /\ jobs[id].txid = AlienTx => submits[id] = 1
          /\ chain[id] # "inflight"
      BY <2>6 DEF LinkInv, TxidFits, NetworkFits, UnsentWhileReplayable
    <3>2. NetworkFits' /\ TxidFits' /\ ReceiptBacked' /\ UnsettledTxHoldsLease'
      BY ONLY LinkInv, id \in Ids, <2>1, <2>6, <3>1, JournalMoves, CodesOfTheRelay
    <3>3. TasksFit'
      BY <2>1, <2>6, TasksKept DEF LinkInv, JobBecomes
    <3>4. WalletFits'
      BY <2>1 DEF LinkInv, WalletFits
    <3>. QED
      BY <3>2, <3>3, <3>4 DEF LinkInv
  <2>. QED
    BY <2>4, <2>5, <2>6
<1>. QED
  BY <1>1, <1>2, <1>3 DEF Start

(* Every step keeps the journal, the network and the calls together.        *)
LEMMA NextLink == SafeInv /\ LinkInv /\ [Next]_vars => LinkInv'
<1>. SUFFICES ASSUME SafeInv, LinkInv, [Next]_vars PROVE LinkInv'
  OBVIOUS
<1>1. ASSUME Next PROVE LinkInv'
  BY <1>1, AcceptLink, PrepareLink, SubmitLink, ReconcileLink, RestartLink
  DEF Next, WalletStage
<1>2. CASE UNCHANGED vars
  <2>1. UNCHANGED <<jobs, chain, submits, wallet, reconciling>>
    BY <1>2 DEF vars, durable, inMemory, outside
  <2>. QED
    BY <2>1, JournalKept DEF LinkInv, WalletFits, TasksFit
<1>. QED
  BY <1>1, <1>2

(* The identifiers a job, its wallet stage, its reconcile calls and the     *)
(* indexer know it by agree.                                                *)
LEMMA Linked == Spec => [](SafeInv /\ LinkInv)
  BY InitSafe, NextSafe, InitLink, NextLink, PTL DEF Spec

(* Only the indexer's observation of the transaction the journal names      *)
(* makes a receipt, every confirmed job has one, and a failure that names   *)
(* the indexer is what the indexer has of that transaction (reconcile()).   *)
THEOREM ReceiptsBacked == Spec => []ReceiptBacked
<1>1. LinkInv => ReceiptBacked
  BY DEF LinkInv
<1>. QED
  BY <1>1, Linked, PTL

(* A transaction the network has and the indexer has not settled keeps the  *)
(* DUST lease, but for the ambiguous answers the property names.            *)
THEOREM UnsettledHoldsLease == Spec => []UnsettledTxHoldsLease
<1>1. LinkInv => UnsettledTxHoldsLease
  BY DEF LinkInv
<1>. QED
  BY <1>1, Linked, PTL

-----------------------------------------------------------------------------
(* The watchers of pending jobs.                                            *)

(* A step of a handler or of the wallet stage that leaves the job id        *)
(* watched, or not pending.                                                 *)
LEMMA WatchMoves ==
    ASSUME StartWatches, NEW id \in Ids,
           \A i \in Ids \ {id} : jobs'[i] = jobs[i] /\ (wallet.id = i => wallet'.id = i),
           reconcileDue \subseteq reconcileDue',
           UNCHANGED <<proc, recovering, reconciling>>,
           jobs'[id].status \notin Pending \/ wallet'.id = id \/ id \in reconcileDue'
    PROVE  StartWatches'
  BY DEF StartWatches, Watched

(* A step that changes no job and forgets no watcher.                       *)
LEMMA WatchKept ==
    ASSUME StartWatches, UNCHANGED <<jobs, wallet, proc, recovering>>,
           \A i \in Ids : /\ jobs[i].status \in Pending /\ jobs[i].txid # NoTx
                          /\ Watched(i)
                          => Watched(i)'
    PROVE  StartWatches'
  BY DEF StartWatches, Watched

(* The handlers of POST /v2/actions.                                        *)
LEMMA AcceptWatch ==
    ASSUME SafeInv, StartWatches, NEW h \in Handlers,
           \/ \E r \in Requests : CreateJob(h, r) \/ FindJob(h, r)
           \/ AcceptSteps(h)
    PROVE  StartWatches'
<1>. USE DEF SafeInv
<1>1. ASSUME NEW r \in Requests, CreateJob(h, r) PROVE StartWatches'
  <2>1. r.id \in Ids /\ jobs \in [Ids -> Job]
    BY RequestsAssumption DEF TypeInv, TypeOK
  <2>2. /\ jobs'[r.id].status = "authorized" /\ \A i \in Ids \ {r.id} : jobs'[i] = jobs[i]
        /\ UNCHANGED <<proc, recovering, reconciling, reconcileDue, wallet>>
    BY <1>1, <2>1 DEF CreateJob, NoJob
  <2>. QED
    BY <2>1, <2>2, WatchMoves DEF Pending
<1>2. ASSUME \/ \E r \in Requests : FindJob(h, r)
             \/ CheckKey(h) \/ ConsumeCapability(h) \/ Attach(h)
      PROVE  StartWatches'
  <2>1. UNCHANGED <<jobs, wallet, proc, recovering, reconciling>>
    BY <1>2 DEF FindJob, CheckKey, ConsumeCapability, Attach, durable
  <2>2. reconcileDue \subseteq reconcileDue'
    BY <1>2 DEF FindJob, CheckKey, ConsumeCapability, Attach
  <2>. QED
    BY <2>1, <2>2, WatchKept DEF Watched
<1>3. ASSUME RejectReplay(h) PROVE StartWatches'
  <2>. DEFINE id == accepts[h].id
  <2>1. /\ id \in Ids /\ UNCHANGED <<proc, recovering, reconciling, reconcileDue, wallet>>
        /\ Transition(id, {"authorized"}, Failed(jobs[id], "capability_replayed"))
    BY <1>3 DEF RejectReplay, TypeInv, Anchored
  <2>2. \/ UNCHANGED jobs
        \/ JobBecomes(id, "failed", jobs[id].txid, jobs[id].receipt, "capability_replayed")
    BY <2>1, FailEffect DEF ErrorCodes
  <2>3. CASE UNCHANGED jobs
    BY <2>1, <2>3, WatchKept DEF Watched
  <2>4. CASE JobBecomes(id, "failed", jobs[id].txid, jobs[id].receipt, "capability_replayed")
    BY <2>1, <2>4, WatchMoves DEF JobBecomes, Pending
  <2>. QED
    BY <2>2, <2>3, <2>4
<1>. QED
  BY <1>1, <1>2, <1>3 DEF AcceptSteps

(* The wallet stage hands a pending job over to reconcile() when it ends.   *)
LEMMA WalletWatch ==
    ASSUME SafeInv, LinkInv, StartWatches, WalletStage
    PROVE  StartWatches'
<1>. USE DEF SafeInv
<1>. DEFINE id == wallet.id
<1>0. jobs \in [Ids -> Job] /\ wallet \in WalletState
  BY DEF TypeInv, TypeOK
<1>1. CASE StageRead
  <2>1. /\ UNCHANGED <<jobs, proc, recovering, reconciling, reconcileDue>>
        /\ wallet.id = NoTx
    BY <1>1 DEF StageRead, WalletAt, durable, LinkInv, WalletFits
  <2>. QED
    BY <2>1, DistinctValues DEF StartWatches, Watched, TxIds
<1>2. CASE ~StageRead
  <2>1. id \in Ids /\ UNCHANGED <<proc, recovering, reconciling>>
    BY <1>2 DEF WalletStage, StageValidate, StageReserve, StageBalance, StageBalanceThrows,
                StageReject, StageFinalize, StageIntend, NodeReceives, SubmitReturns,
                SubmitThrows, StageAccepted, StageUnknown, WalletAt, TypeInv, Anchored
  <2>2. reconcileDue \subseteq reconcileDue'
    BY <1>2 DEF WalletStage, StageValidate, StageReserve, StageBalance, StageBalanceThrows,
                StageReject, StageFinalize, StageIntend, NodeReceives, SubmitReturns,
                SubmitThrows, StageAccepted, StageUnknown
  <2>3. \A i \in Ids \ {id} : jobs'[i] = jobs[i]
    BY <1>0, <1>2, <2>1
       DEF WalletStage, StageValidate, StageReserve, StageBalance, StageBalanceThrows,
           StageReject, StageFinalize, StageIntend, NodeReceives, SubmitReturns,
           SubmitThrows, StageAccepted, StageUnknown, Transition, durable
  <2>4. \A pc : [wallet EXCEPT !.pc = pc].id = id
    BY <1>0 DEF WalletState
  <2>5. CASE StageValidate
    <3>1. CASE jobs[id].status = "authorized"
      <4>1. wallet' = [wallet EXCEPT !.pc = "reserve"]
        BY <2>5, <3>1 DEF StageValidate, WalletGoes
      <4>. QED
        BY <2>1, <2>2, <2>3, <2>4, <4>1, WatchMoves
    <3>2. CASE jobs[id].status # "authorized"
      <4>1. UNCHANGED jobs /\ jobs[id].status = "failed"
        BY <2>5, <3>2 DEF StageValidate, Transition, WalletAt, LinkInv, WalletFits
      <4>. QED
        BY <2>1, <2>2, <2>3, <4>1, WatchMoves DEF Pending
    <3>. QED
      BY <3>1, <3>2
  <2>6. CASE StageReserve
    <3>1. jobs[id].status = "validated"
      BY <2>6 DEF StageReserve, WalletAt, StageFits
    <3>2. wallet' = [wallet EXCEPT !.pc = "balance"] \/ UNCHANGED jobs
      BY <2>6 DEF StageReserve, WalletGoes
    <3>. QED
      BY <2>1, <2>2, <2>3, <2>4, <3>1, <3>2, WatchMoves DEF Pending
  <2>7. CASE \/ StageBalance \/ StageBalanceThrows \/ StageFinalize \/ NodeReceives
             \/ SubmitReturns \/ SubmitThrows
    <3>1. wallet'.id = id
      <4>1. CASE StageBalance \/ SubmitReturns
        BY <1>0, <4>1 DEF StageBalance, SubmitReturns, WalletState
      <4>2. CASE StageBalanceThrows \/ StageFinalize \/ NodeReceives \/ SubmitThrows
        <5>1. \E pc : wallet' = [wallet EXCEPT !.pc = pc]
          BY <4>2 DEF StageBalanceThrows, StageFinalize, NodeReceives, SubmitThrows,
                      WalletGoes
        <5>. QED
          BY <2>4, <5>1
      <4>. QED
        BY <2>7, <4>1, <4>2
    <3>. QED
      BY <2>1, <2>2, <2>3, <3>1, WatchMoves
  <2>8. CASE StageReject
    <3>1. /\ jobs[id].status = "dust_reserved"
          /\ Transition(id, {"dust_reserved"}, Failed(jobs[id], "transaction_rejected"))
      BY <2>8 DEF StageReject, WalletAt, StageFits
    <3>2. jobs'[id].status = "failed"
      BY <2>1, <3>1, FailEffect DEF ErrorCodes, JobBecomes
    <3>. QED
      BY <2>1, <2>2, <2>3, <3>2, WatchMoves DEF Pending
  <2>9. CASE StageIntend
    <3>1. jobs[id].status = "finalized"
      BY <2>9 DEF StageIntend, WalletAt, StageFits
    <3>2. wallet' = [wallet EXCEPT !.pc = "submit"]
      BY <2>9, <3>1 DEF StageIntend, WalletGoes
    <3>. QED
      BY <2>1, <2>2, <2>3, <2>4, <3>2, WatchMoves
  <2>10. CASE StageAccepted
    <3>1. jobs[id].status \in {"submitted", "confirmed", "failed"}
      BY <2>10 DEF StageAccepted, WalletAt, StageFits
    <3>2. \/ id \in reconcileDue'
          \/ Transition(id, {"submitted"}, Failed(jobs[id], "submission_id_mismatch"))
      BY <2>10 DEF StageAccepted
    <3>3. id \in reconcileDue' \/ jobs'[id].status \notin Pending
      BY <2>1, <3>1, <3>2, FailEffect DEF ErrorCodes, JobBecomes, Pending
    <3>. QED
      BY <2>1, <2>2, <2>3, <3>3, WatchMoves
  <2>11. CASE StageUnknown
    <3>1. jobs[id].status \in {"submitted", "confirmed", "failed"}
      BY <2>11 DEF StageUnknown, WalletAt, StageFits
    <3>2. \/ id \in reconcileDue'
          \/ Transition(id, {"submitted"}, Parked(jobs[id], "submission_unknown"))
      BY <2>11 DEF StageUnknown, Parked
    <3>3. id \in reconcileDue' \/ jobs'[id].status \notin Pending
      BY <2>1, <3>1, <3>2, ParkEffect DEF ErrorCodes, JobBecomes, Pending
    <3>. QED
      BY <2>1, <2>2, <2>3, <3>3, WatchMoves
  <2>. QED
    BY <1>2, <2>5, <2>6, <2>7, <2>8, <2>9, <2>10, <2>11 DEF WalletStage
<1>. QED
  BY <1>1, <1>2

(* reconcile() passes the job on: from the timer to the call, and from a    *)
(* call that knows nothing definite back to a timer.                        *)
LEMMA ReconcileWatch ==
    ASSUME SafeInv, StartWatches, NEW id \in Ids,
           \/ RunTimer(id) \/ Poll(id) \/ ReconcileRead(id)
           \/ Answered(id) \/ Unanswered(id) \/ Applied(id) \/ IndexerSees(id)
    PROVE  StartWatches'
<1>. USE DEF SafeInv
<1>0. jobs \in [Ids -> Job] /\ reconciling \subseteq Settling
  BY DEF TypeInv, TypeOK
<1>1. CASE RunTimer(id) \/ Poll(id) \/ IndexerSees(id)
  <2>1. UNCHANGED <<jobs, wallet, proc, recovering, reconciling>>
        /\ reconcileDue \subseteq reconcileDue'
    BY <1>1 DEF RunTimer, Poll, IndexerSees, durable, inMemory
  <2>. QED
    BY <2>1, WatchKept DEF Watched
<1>2. CASE ReconcileRead(id)
  <2>. DEFINE asked == [id |-> id, txid |-> jobs[id].txid, verdict |-> "asked"]
  <2>1. /\ UNCHANGED <<jobs, wallet, proc, recovering>>
        /\ reconcileDue' = reconcileDue \ {id} /\ reconciling \subseteq reconciling'
    BY <1>2 DEF ReconcileRead, durable
  <2>2. jobs[id].status \in Pending /\ jobs[id].txid # NoTx => asked \in reconciling'
    BY <1>2 DEF ReconcileRead, Pending
  <2>3. asked.id = id
    OBVIOUS
  <2>. QED
    BY <2>1, <2>2, <2>3, WatchKept DEF Watched
<1>3. ASSUME NEW task \in reconciling, ResolverAnswers(task) \/ ResolverThrows(task)
      PROVE  StartWatches'
  <2>1. PICK verdict :
          /\ reconciling' = (reconciling \ {task}) \cup {[task EXCEPT !.verdict = verdict]}
          /\ UNCHANGED <<jobs, wallet, proc, recovering, reconcileDue>>
    BY <1>3 DEF ResolverAnswers, ResolverThrows, durable
  <2>2. [task EXCEPT !.verdict = verdict].id = task.id
    BY <1>0 DEF Settling
  <2>. QED
    BY <2>1, <2>2, WatchKept DEF Watched
<1>4. ASSUME NEW task \in reconciling, task.id = id, ReconcileApply(task)
      PROVE  StartWatches'
  <2>1. /\ UNCHANGED <<wallet, proc, recovering>> /\ reconciling' = reconciling \ {task}
        /\ \A i \in Ids \ {id} : jobs'[i] = jobs[i]
        /\ reconcileDue \subseteq reconcileDue'
    BY <1>0, <1>4 DEF ReconcileApply, Transition
  <2>2. CASE task.verdict = "lagging"
    BY <1>4, <2>1, <2>2, WatchKept DEF ReconcileApply, Watched
  <2>3. CASE task.verdict # "lagging"
    <3>1. task.txid \in TxIds /\ task.verdict \in Verdicts
      BY <1>0 DEF Settling
    <3>2. \/ /\ task.verdict \in ErrorCodes
             /\ Transition(id, Pending, Failed(jobs[id], task.verdict))
          \/ Transition(id, Pending, Receipted(jobs[id], task.txid))
      BY <1>4, <2>3, <3>1 DEF ReconcileApply, Pending, Receipted, Verdicts, ErrorCodes
    <3>3. jobs'[id].status \notin Pending
      BY <3>1, <3>2, FailEffect, ConfirmEffect DEF JobBecomes, Pending
    <3>. QED
      BY <1>4, <2>1, <3>3 DEF StartWatches, Watched
  <2>. QED
    BY <2>2, <2>3
<1>. QED
  BY <1>1, <1>2, <1>3, <1>4 DEF Answered, Unanswered, Applied

(* start() has looked at every pending job before the process listens.      *)
LEMMA RestartWatch ==
    ASSUME SafeInv, StartWatches, Crash \/ Start
    PROVE  StartWatches'
<1>. USE DEF SafeInv
<1>1. CASE Crash
  BY <1>1 DEF Crash, StartWatches
<1>2. CASE StartList
  BY <1>2 DEF StartList, StartWatches, durable, Pending, RecoverableStatuses
<1>3. CASE StartListens
  BY <1>3 DEF StartListens, StartWatches, Watched, durable, inMemory
<1>4. ASSUME NEW id \in Ids, StartRecover(id) PROVE StartWatches'
  <2>. DEFINE early == {"authorized", "validated", "dust_reserved", "finalized"}
  <2>1. /\ UNCHANGED <<wallet, proc, reconciling>> /\ recovering' = recovering \ {id}
        /\ reconcileDue \subseteq reconcileDue' /\ proc = "starting"
    BY <1>4 DEF StartRecover
  <2>2. CASE jobs[id].status \in Pending /\ jobs[id].txid # NoTx
    <3>1. UNCHANGED jobs /\ id \in reconcileDue'
      BY <1>4, <2>2 DEF StartRecover, Pending
    <3>. QED
      BY <2>1, <3>1 DEF StartWatches, Watched
  <2>3. CASE ~(jobs[id].status \in Pending /\ jobs[id].txid # NoTx)
    <3>1. Transition(id, early, Parked(jobs[id], "recovery_required"))
      BY <1>4, <2>3 DEF StartRecover, Pending, Parked
    <3>2. \/ UNCHANGED jobs
          \/ JobBecomes(id, "recovery_required", jobs[id].txid, jobs[id].receipt,
                        "recovery_required")
      BY <3>1, ParkEffect DEF ErrorCodes
    <3>. QED
      BY <2>1, <2>3, <3>2 DEF StartWatches, Watched, JobBecomes, Pending
  <2>. QED
    BY <2>2, <2>3
<1>. QED
  BY <1>1, <1>2, <1>3, <1>4 DEF Start

(* Every step keeps the pending jobs watched.                               *)
LEMMA NextWatch == SafeInv /\ LinkInv /\ StartWatches /\ [Next]_vars => StartWatches'
<1>. SUFFICES ASSUME SafeInv, LinkInv, StartWatches, [Next]_vars PROVE StartWatches'
  OBVIOUS
<1>1. ASSUME Next PROVE StartWatches'
  BY <1>1, AcceptWatch, WalletWatch, ReconcileWatch, RestartWatch DEF Next
<1>2. CASE UNCHANGED vars
  BY <1>2, WatchKept DEF vars, durable, inMemory, Watched
<1>. QED
  BY <1>1, <1>2

(* A job that waits for the indexer under a known identifier is never       *)
(* forgotten, whatever the order of timers, answers and restarts.           *)
THEOREM PendingWatched == Spec => []PendingJobWatched
<1>1. Init => StartWatches
  BY DEF Init, StartWatches, NoJob, Pending
<1>2. StartWatches => PendingJobWatched
  BY DEF StartWatches, PendingJobWatched, Watched, Pending
<1>. QED
  BY <1>1, <1>2, InitSafe, NextSafe, InitLink, NextLink, NextWatch, PTL DEF Spec

-----------------------------------------------------------------------------
(* The relay implements SponsoredAction.                                    *)

Phase == [id \in Ids |-> PublicPhase(jobs[id].status)]

(* The phases that SponsoredAction lets an action go through in one step    *)
(* that sends nothing.                                                      *)
Proceeds(id) ==
    LET old == PublicPhase(jobs[id].status)
        new == PublicPhase(jobs'[id].status)
    IN  \/ new = old
        \/ old = "unknown" /\ new = "open"
        \/ old = "open" /\ new = "closed"
        \/ old = "open" /\ new = "confirmed" /\ submits[id] = 1

(* A step that moves one job along its phases is a step of SponsoredAction. *)
LEMMA ProceedsRefines ==
    ASSUME NEW id \in Ids, \A i \in Ids \ {id} : jobs'[i] = jobs[i],
           UNCHANGED submits, Proceeds(id)
    PROVE  [Promise!Next]_<<Phase, submits>>
<1>. DEFINE old == PublicPhase(jobs[id].status)
            new == PublicPhase(jobs'[id].status)
<1>1. Phase' = [Phase EXCEPT ![id] = new] /\ Phase[id] = old
  BY DEF Phase
<1>2. CASE new = old
  BY <1>1, <1>2 DEF Phase
<1>3. CASE old = "unknown" /\ new = "open"
  BY <1>1, <1>3 DEF Promise!Next, Promise!Accept, Phase
<1>4. CASE old = "open" /\ new = "closed"
  BY <1>1, <1>4 DEF Promise!Next, Promise!Close, Phase
<1>5. CASE old = "open" /\ new = "confirmed" /\ submits[id] = 1
  BY <1>1, <1>5 DEF Promise!Next, Promise!Confirm, Phase
<1>. QED
  BY <1>2, <1>3, <1>4, <1>5 DEF Proceeds

(* A step that changes neither the journal nor the network is a stutter.    *)
LEMMA KeptRefines ==
    ASSUME UNCHANGED <<jobs, submits>>
    PROVE  [Promise!Next]_<<Phase, submits>>
  BY DEF Phase

(* The handlers of POST /v2/actions.                                        *)
LEMMA AcceptRefines ==
    ASSUME SafeInv, NEW h \in Handlers,
           \/ \E r \in Requests : CreateJob(h, r) \/ FindJob(h, r)
           \/ AcceptSteps(h)
    PROVE  [Promise!Next]_<<Phase, submits>>
<1>. USE DEF SafeInv
<1>1. ASSUME NEW r \in Requests, CreateJob(h, r)
      PROVE  [Promise!Next]_<<Phase, submits>>
  <2>1. r.id \in Ids /\ jobs \in [Ids -> Job] /\ jobs[r.id].status = "absent"
    BY <1>1, RequestsAssumption DEF TypeInv, TypeOK, CreateJob, Matching, Exists
  <2>2. /\ jobs'[r.id].status = "authorized" /\ \A i \in Ids \ {r.id} : jobs'[i] = jobs[i]
        /\ UNCHANGED submits
    BY <1>1, <2>1 DEF CreateJob, NoJob, outside
  <2>. QED
    BY <2>1, <2>2, ProceedsRefines DEF Proceeds, PublicPhase
<1>2. ASSUME \/ \E r \in Requests : FindJob(h, r)
             \/ CheckKey(h) \/ ConsumeCapability(h) \/ Attach(h)
      PROVE  [Promise!Next]_<<Phase, submits>>
  <2>1. UNCHANGED <<jobs, submits>>
    BY <1>2 DEF FindJob, CheckKey, ConsumeCapability, Attach, durable, outside
  <2>. QED
    BY <2>1, KeptRefines
<1>3. ASSUME RejectReplay(h) PROVE [Promise!Next]_<<Phase, submits>>
  <2>. DEFINE id == accepts[h].id
  <2>1. /\ id \in Ids /\ UNCHANGED submits
        /\ Transition(id, {"authorized"}, Failed(jobs[id], "capability_replayed"))
    BY <1>3 DEF RejectReplay, TypeInv, Anchored, outside
  <2>2. \/ UNCHANGED jobs
        \/ /\ jobs[id].status = "authorized"
           /\ JobBecomes(id, "failed", jobs[id].txid, jobs[id].receipt, "capability_replayed")
    BY <2>1, FailEffect DEF ErrorCodes
  <2>. QED
    BY <2>1, <2>2, KeptRefines, ProceedsRefines DEF JobBecomes, Proceeds, PublicPhase
<1>. QED
  BY <1>1, <1>2, <1>3 DEF AcceptSteps

(* The wallet stage: the one step that reaches the network is a Send.       *)
LEMMA WalletRefines ==
    ASSUME SafeInv, LinkInv, WalletStage
    PROVE  [Promise!Next]_<<Phase, submits>>
<1>. USE DEF SafeInv
<1>. DEFINE id == wallet.id
<1>0. jobs \in [Ids -> Job] /\ wallet \in WalletState /\ submits \in [Ids -> Nat]
  BY DEF TypeInv, TypeOK
<1>1. CASE StageRead \/ StageBalance \/ StageBalanceThrows \/ SubmitReturns \/ SubmitThrows
  <2>1. UNCHANGED <<jobs, submits>>
    BY <1>1 DEF StageRead, StageBalance, StageBalanceThrows, SubmitReturns, SubmitThrows,
                durable, outside
  <2>. QED
    BY <2>1, KeptRefines
<1>2. CASE NodeReceives
  <2>1. /\ id \in Ids /\ UNCHANGED jobs /\ jobs[id].status = "submitted"
        /\ submits' = [submits EXCEPT ![id] = @ + 1]
    BY <1>2 DEF NodeReceives, WalletAt, TypeInv, Anchored, durable, LinkInv, WalletFits
  <2>2. submits[id] = 0
    BY <1>2 DEF NodeReceives, WalletAt, StageFits
  <2>3. Phase[id] = "open" /\ UNCHANGED Phase
    BY <2>1 DEF Phase, PublicPhase
  <2>4. submits' = [submits EXCEPT ![id] = 1]
    BY <2>1, <2>2
  <2>. QED
    BY <2>1, <2>2, <2>3, <2>4 DEF Promise!Next, Promise!Send, Phase
<1>3. CASE \/ StageValidate \/ StageReserve \/ StageReject \/ StageFinalize
           \/ StageIntend \/ StageAccepted \/ StageUnknown
  <2>. DEFINE Open == Statuses \ {"confirmed", "failed", "recovery_required"}
  <2>1. id \in Ids /\ UNCHANGED submits
    BY <1>3 DEF StageValidate, StageReserve, StageReject, StageFinalize, StageIntend,
                StageAccepted, StageUnknown, WalletAt, TypeInv, Anchored, outside
  <2>2. \A i \in Ids \ {id} : jobs'[i] = jobs[i]
    BY <1>0, <1>3, <2>1
       DEF StageValidate, StageReserve, StageReject, StageFinalize, StageIntend,
           StageAccepted, StageUnknown, Transition
  <2>3. ASSUME \/ UNCHANGED jobs
               \/ /\ jobs[id].status \in Open
                  /\ jobs'[id].status \in Open \cup {"failed", "recovery_required"}
        PROVE  [Promise!Next]_<<Phase, submits>>
    BY <2>1, <2>2, <2>3, KeptRefines, ProceedsRefines DEF Proceeds, PublicPhase, Statuses
  <2>4. CASE StageValidate
    <3>1. Transition(id, {"authorized"}, Moved(jobs[id], "validated"))
      BY <2>4 DEF StageValidate
    <3>. QED
      BY <2>1, <2>3, <3>1, MoveEffect DEF JobBecomes, Statuses
  <2>5. CASE StageReserve
    <3>1. UNCHANGED jobs \/ Transition(id, {"validated"}, Moved(jobs[id], "dust_reserved"))
      BY <1>0, <2>1, <2>5 DEF StageReserve, Transition
    <3>2. "dust_reserved" \in Statuses
      BY DEF Statuses
    <3>3. CASE Transition(id, {"validated"}, Moved(jobs[id], "dust_reserved"))
      <4>1. \/ UNCHANGED jobs
            \/ jobs[id].status = "validated" /\ jobs'[id].status = "dust_reserved"
        <5>1. \/ jobs[id].status \notin {"validated"} /\ UNCHANGED jobs
              \/ /\ jobs[id].status \in {"validated"}
                 /\ JobBecomes(id, "dust_reserved", jobs[id].txid, jobs[id].receipt,
                               jobs[id].error)
          BY ONLY TypeInv, <2>1, <3>2, <3>3, MoveEffect
        <5>. QED
          BY <5>1 DEF JobBecomes
      <4>. QED
        BY <2>3, <4>1 DEF Statuses
    <3>. QED
      BY <2>3, <3>1, <3>3
  <2>6. CASE StageReject
    <3>1. Transition(id, {"dust_reserved"}, Failed(jobs[id], "transaction_rejected"))
      BY <2>6 DEF StageReject
    <3>. QED
      BY <2>1, <2>3, <3>1, FailEffect DEF JobBecomes, Statuses, ErrorCodes
  <2>7. CASE StageFinalize
    <3>1. \/ Transition(id, {"dust_reserved"}, Moved(jobs[id], "finalized"))
          \/ /\ wallet.derived \in TxIds
             /\ Transition(id, {"dust_reserved"}, Named(jobs[id], "finalized", wallet.derived))
      BY <1>0, <2>7 DEF StageFinalize, Named, WalletState
    <3>2. "finalized" \in Statuses
      BY DEF Statuses
    <3>3. \/ UNCHANGED jobs
          \/ jobs[id].status = "dust_reserved" /\ jobs'[id].status = "finalized"
      <4>1. CASE Transition(id, {"dust_reserved"}, Moved(jobs[id], "finalized"))
        BY ONLY TypeInv, <2>1, <3>2, <4>1, MoveEffect DEF JobBecomes
      <4>2. CASE /\ wallet.derived \in TxIds
                 /\ Transition(id, {"dust_reserved"},
                               Named(jobs[id], "finalized", wallet.derived))
        BY ONLY TypeInv, <2>1, <3>2, <4>2, NameEffect DEF JobBecomes
      <4>. QED
        BY <3>1, <4>1, <4>2
    <3>. QED
      BY <2>3, <3>3 DEF Statuses
  <2>8. CASE StageIntend
    <3>1. Transition(id, {"finalized"}, Moved(jobs[id], "submitted"))
      BY <2>8 DEF StageIntend
    <3>. QED
      BY <2>1, <2>3, <3>1, MoveEffect DEF JobBecomes, Statuses
  <2>9. CASE StageAccepted
    <3>1. \/ Transition(id, {"submitted"}, Failed(jobs[id], "submission_id_mismatch"))
          \/ /\ wallet.answer \in TxIds
             /\ Transition(id, {"submitted"}, Named(jobs[id], "indexer_pending", wallet.answer))
      BY <2>1, <2>9 DEF StageAccepted, Named, WalletAt, LinkInv, WalletFits, TxIds
    <3>2. "indexer_pending" \in Statuses /\ "submission_id_mismatch" \in ErrorCodes
      BY DEF Statuses, ErrorCodes
    <3>3. \/ UNCHANGED jobs
          \/ /\ jobs[id].status = "submitted"
             /\ jobs'[id].status \in {"indexer_pending", "failed"}
      <4>1. CASE Transition(id, {"submitted"}, Failed(jobs[id], "submission_id_mismatch"))
        BY ONLY TypeInv, <2>1, <3>2, <4>1, FailEffect DEF JobBecomes
      <4>2. CASE /\ wallet.answer \in TxIds
                 /\ Transition(id, {"submitted"},
                               Named(jobs[id], "indexer_pending", wallet.answer))
        BY ONLY TypeInv, <2>1, <3>2, <4>2, NameEffect DEF JobBecomes
      <4>. QED
        BY <3>1, <4>1, <4>2
    <3>. QED
      BY <2>3, <3>3 DEF Statuses
  <2>10. CASE StageUnknown
    <3>1. \/ Transition(id, {"submitted"}, Parked(jobs[id], "submission_unknown"))
          \/ /\ wallet.derived \in TxIds
             /\ Transition(id, {"submitted"}, Named(jobs[id], "indexer_pending", wallet.derived))
      BY <1>0, <2>10 DEF StageUnknown, Named, Parked, WalletState
    <3>2. "indexer_pending" \in Statuses /\ "submission_unknown" \in ErrorCodes
      BY DEF Statuses, ErrorCodes
    <3>3. \/ UNCHANGED jobs
          \/ /\ jobs[id].status = "submitted"
             /\ jobs'[id].status \in {"indexer_pending", "recovery_required"}
      <4>1. CASE Transition(id, {"submitted"}, Parked(jobs[id], "submission_unknown"))
        BY ONLY TypeInv, <2>1, <3>2, <4>1, ParkEffect DEF JobBecomes
      <4>2. CASE /\ wallet.derived \in TxIds
                 /\ Transition(id, {"submitted"},
                               Named(jobs[id], "indexer_pending", wallet.derived))
        <5>1. \/ jobs[id].status \notin {"submitted"} /\ UNCHANGED jobs
              \/ /\ jobs[id].status \in {"submitted"}
                 /\ JobBecomes(id, "indexer_pending", wallet.derived, jobs[id].receipt,
                               jobs[id].error)
          BY ONLY TypeInv, <2>1, <3>2, <4>2, NameEffect
        <5>. QED
          BY <5>1 DEF JobBecomes
      <4>. QED
        BY <3>1, <4>1, <4>2
    <3>. QED
      BY <2>3, <3>3 DEF Statuses
  <2>. QED
    BY <1>3, <2>4, <2>5, <2>6, <2>7, <2>8, <2>9, <2>10
<1>. QED
  BY <1>1, <1>2, <1>3 DEF WalletStage

(* reconcile() and start(): a receipt is a Confirm, of a transaction that   *)
(* was sent; a rejection or a parked job is a Close.                        *)
LEMMA SettleRefines ==
    ASSUME SafeInv, LinkInv, NEW id \in Ids,
           \/ RunTimer(id) \/ Poll(id) \/ ReconcileRead(id)
           \/ Answered(id) \/ Unanswered(id) \/ Applied(id) \/ IndexerSees(id)
           \/ StartRecover(id)
    PROVE  [Promise!Next]_<<Phase, submits>>
<1>. USE DEF SafeInv
<1>1. CASE \/ RunTimer(id) \/ Poll(id) \/ ReconcileRead(id)
           \/ Answered(id) \/ Unanswered(id) \/ IndexerSees(id)
  <2>1. UNCHANGED <<jobs, submits>>
    BY <1>1 DEF RunTimer, Poll, ReconcileRead, Answered, Unanswered, ResolverAnswers,
                ResolverThrows, IndexerSees, durable, outside
  <2>. QED
    BY <2>1, KeptRefines
<1>2. ASSUME NEW task \in reconciling, task.id = id, ReconcileApply(task)
      PROVE  [Promise!Next]_<<Phase, submits>>
  <2>1. UNCHANGED submits /\ task.txid \in TxIds /\ task.verdict \in Verdicts
    BY <1>2 DEF ReconcileApply, outside, TypeInv, TypeOK, Settling
  <2>2. CASE task.verdict = "lagging"
    BY <1>2, <2>1, <2>2, KeptRefines DEF ReconcileApply
  <2>3. CASE task.verdict = "receipt"
    <3>1. Transition(id, Pending, Receipted(jobs[id], task.txid))
      BY <1>2, <2>3 DEF ReconcileApply, Pending, Receipted
    <3>2. \/ UNCHANGED jobs
          \/ /\ jobs[id].status \in Pending
             /\ JobBecomes(id, "confirmed", jobs[id].txid, task.txid, jobs[id].error)
      BY ONLY TypeInv, id \in Ids, <2>1, <3>1, ConfirmEffect
    <3>3. submits[id] = 1
      <4>1. jobs[id].txid = task.txid /\ chain[task.txid] = "success"
        BY <1>2, <2>3 DEF LinkInv, TasksFit
      <4>2. jobs[id].txid = id \/ submits[id] = 1
        BY <2>1, <4>1, DistinctValues DEF LinkInv, TxidFits
      <4>3. submits[id] \in Nat /\ submits[id] <= 1
        BY DEF TypeInv, TypeOK, SubmitAtMostOnce
      <4>4. jobs[id].txid = id => submits[id] # 0
        BY <4>1 DEF LinkInv, NetworkFits
      <4>. QED
        BY <4>2, <4>3, <4>4
    <3>. QED
      BY <2>1, <3>2, <3>3, KeptRefines, ProceedsRefines
      DEF JobBecomes, Proceeds, PublicPhase, Pending
  <2>4. CASE task.verdict \in {"indexer_rejected", "indexer_contract_mismatch"}
    <3>1. Transition(id, Pending, Failed(jobs[id], task.verdict))
      BY <1>2, <2>4 DEF ReconcileApply, Pending
    <3>2. task.verdict \in ErrorCodes
      BY <2>4 DEF ErrorCodes
    <3>3. \/ UNCHANGED jobs
          \/ /\ jobs[id].status \in Pending
             /\ JobBecomes(id, "failed", jobs[id].txid, jobs[id].receipt, task.verdict)
      BY ONLY TypeInv, id \in Ids, <3>1, <3>2, FailEffect
    <3>. QED
      BY <2>1, <3>3, KeptRefines, ProceedsRefines
      DEF JobBecomes, Proceeds, PublicPhase, Pending
  <2>. QED
    BY <1>2, <2>1, <2>2, <2>3, <2>4 DEF ReconcileApply, Verdicts
<1>3. CASE StartRecover(id)
  <2>. DEFINE early == {"authorized", "validated", "dust_reserved", "finalized"}
  <2>1. UNCHANGED submits
    BY <1>3 DEF StartRecover, outside
  <2>2. UNCHANGED jobs \/ Transition(id, early, Parked(jobs[id], "recovery_required"))
    BY <1>3 DEF StartRecover, Parked
  <2>3. "recovery_required" \in ErrorCodes
    BY DEF ErrorCodes
  <2>4. \/ UNCHANGED jobs
        \/ /\ jobs[id].status \in early
           /\ JobBecomes(id, "recovery_required", jobs[id].txid, jobs[id].receipt,
                         "recovery_required")
    BY ONLY TypeInv, id \in Ids, <2>2, <2>3, ParkEffect
  <2>. QED
    BY <2>1, <2>4, KeptRefines, ProceedsRefines DEF JobBecomes, Proceeds, PublicPhase
<1>. QED
  BY <1>1, <1>2, <1>3 DEF Applied

(* Every step of the relay is a step of SponsoredAction, or a stutter.      *)
LEMMA NextRefines ==
    SafeInv /\ LinkInv /\ [Next]_vars => [Promise!Next]_<<Phase, submits>>
<1>. SUFFICES ASSUME SafeInv, LinkInv, [Next]_vars
              PROVE  [Promise!Next]_<<Phase, submits>>
  OBVIOUS
<1>1. CASE Crash \/ StartList \/ StartListens \/ UNCHANGED vars
  <2>1. UNCHANGED <<jobs, submits>>
    BY <1>1 DEF Crash, StartList, StartListens, vars, durable, outside
  <2>. QED
    BY <2>1, KeptRefines
<1>2. CASE Next
  BY <1>1, <1>2, AcceptRefines, WalletRefines, SettleRefines DEF Next, Start
<1>. QED
  BY <1>1, <1>2

(* The relay keeps the promise of SponsoredAction through duplicates,       *)
(* crashes and lost answers: an action is sent at most once and only while  *)
(* it is open, it is confirmed only if it was sent, and a confirmed or      *)
(* closed action stays as it is.                                            *)
THEOREM RelayKeepsPromise == Spec => KeepsPromise
<1>1. Init => Promise!Init
  BY DEF Init, Promise!Init, NoJob, PublicPhase
<1>2. [Next]_vars /\ SafeInv /\ LinkInv =>
        [Promise!Next]_<<[id \in Ids |-> PublicPhase(jobs[id].status)], submits>>
  BY NextRefines DEF Phase
<1>. QED
  BY <1>1, <1>2, Linked, PTL DEF Spec, KeepsPromise, Promise!Spec
=============================================================================
