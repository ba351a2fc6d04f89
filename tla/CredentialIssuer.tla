-------------------------- MODULE CredentialIssuer --------------------------
(***************************************************************************)
(* The credential issuer of cico-service/src: CredentialIssuerService       *)
(* (credential-issuer-service.ts), the CredentialEpochCoordinator that      *)
(* keeps issuance and freeze apart, the two durable stores it writes        *)
(* (durable-stores.ts), and the registry contract.                          *)
(*                                                                          *)
(* The issuer, the coordinator and the root publisher share one registry    *)
(* executor (server.ts), so one slot of private state: whoever joins last   *)
(* has set the witnesses of the next call.  Transactions take their time:   *)
(* one that was sent may be applied after its caller has given up or died.  *)
(* The indexer may be behind.  Every stretch of code between two awaits is  *)
(* one action.                                                              *)
(***************************************************************************)
EXTENDS CredentialRegistryV1, FiniteSets, Functions

CONSTANTS
    Enrollments,   \* enrollment ids
    Evidence,      \* opaque evidence authorizations
    Requests,      \* [enrollment, evidence, material]; material is the
                   \* provider, the holder binding and the claims
    NoRequest,     \* no request
    IssuerSecret,  \* the secret the service was configured with
    EmptySecret,   \* 32 zero bytes
    MaxDraws,      \* bound on the blinds drawn
    MaxDeliveries, \* bound on the calls of issueCredential
    MaxFaults,     \* bound on calls that throw although they may succeed
    MaxRestarts    \* bound on deaths of the process

ASSUME IssuerAssumption ==
    /\ Requests \subseteq [enrollment : Enrollments, evidence : Evidence,
                           material : {r.material : r \in Requests}]
    /\ NoRequest \notin Requests
    /\ IssuerRoleKey(IssuerSecret) = IssuerKey
    /\ EmptySecret # IssuerSecret
    /\ MaxDraws \in Nat /\ MaxDeliveries \in Nat
    /\ MaxFaults \in Nat /\ MaxRestarts \in Nat

VARIABLES
    \* memory of the process
    issuances,    \* [Enrollments -> the request of the operation it has]
    queue,        \* requests that wait for their turn
    op,           \* the issueOnce under way: [pc, req, leaf, tx]
    freezing,     \* the closeAndFreeze under way: [pc, root]
    boundary,     \* who is inside the coordinator: "free", "issue", "freeze"
    privateState, \* witnesses of the registry executor: [secret, leaf]
    attesterJoined, \* registryJoined of the publisher
    \* files
    claims,       \* evidence-authorizations: [Evidence -> request claimed for]
    issued,       \* credential-issuances: [Enrollments -> [req, leaf]]
    \* outside
    inflight,     \* transactions sent and neither applied nor dropped
    applied,      \* transactions the ledger has applied
    drawn,        \* blinds drawn so far
    deliveries, faults, restarts,
    answers       \* history: [enrollment, leaf] given to a client

memory  == <<issuances, queue, op, freezing, boundary, privateState,
             attesterJoined>>
files   == <<claims, issued>>
chain   == <<inflight, applied>>
bounds  == <<deliveries, faults, restarts>>
vars == <<registryVars, memory, files, chain, drawn, bounds, answers>>

(* A leaf commits to the material and to a fresh blind; the rest of the     *)
(* request is kept to tell whose it is.                                     *)
LeafOf(r, blind) == [req |-> r, blind |-> blind]

EmptyLeaf == LeafOf(NoRequest, 0)

NoRecord == [req |-> NoRequest, leaf |-> EmptyLeaf]

(* Calls of the registry's circuits, with the witnesses they were made of.  *)
AddTx(leaf) == [circuit |-> "addCredential", leaf |-> leaf, root |-> << >>]
FreezeTx(root) == [circuit |-> "freeze", leaf |-> EmptyLeaf, root |-> root]

IdleOp == [pc |-> "idle", req |-> NoRequest, leaf |-> EmptyLeaf,
           tx |-> AddTx(EmptyLeaf)]

IdleFreeze == [pc |-> "idle", root |-> << >>]

(* privateStateFor                                                          *)
IssuerState(leaf) == [secret |-> IssuerSecret, leaf |-> leaf]

(* freezePrivateState: the secret without any claims.                       *)
FreezeState == [secret |-> IssuerSecret, leaf |-> EmptyLeaf]

(* Mutant: the attestation joins with the freeze's private state.           *)
AttestationStateOfIssuer == FreezeState

(* attestationPrivateState: no secret at all.                               *)
AttestationState == [secret |-> EmptySecret, leaf |-> EmptyLeaf]

(* A process that has just started; nobody calls the executor unjoined.     *)
Fresh ==
    /\ issuances = [e \in Enrollments |-> NoRequest]
    /\ queue = << >>
    /\ op = IdleOp
    /\ freezing = IdleFreeze
    /\ boundary = "free"
    /\ privateState = AttestationState
    /\ attesterJoined = FALSE

Init ==
    /\ RegistryInit
    /\ Fresh
    /\ claims = [v \in Evidence |-> NoRequest]
    /\ issued = [e \in Enrollments |-> NoRecord]
    /\ inflight = {} /\ applied = {}
    /\ drawn = 0
    /\ deliveries = 0 /\ faults = 0 /\ restarts = 0
    /\ answers = {}

Fault == faults < MaxFaults /\ faults' = faults + 1

-----------------------------------------------------------------------------
(* issueCredential and issueOnce                                            *)

(* A call for an enrollment that has no operation yet starts one.  A call   *)
(* with the same material shares the operation, one with other material is  *)
(* refused; neither changes anything.                                       *)
IssueCredential(r) ==
    /\ deliveries < MaxDeliveries
    /\ deliveries' = deliveries + 1
    /\ issuances[r.enrollment] = NoRequest
    /\ issuances' = [issuances EXCEPT ![r.enrollment] = r]
    /\ queue' = Append(queue, r)
    /\ UNCHANGED <<registryVars, op, freezing, boundary, privateState,
                   attesterJoined, files, chain, drawn, faults, restarts,
                   answers>>

OpGoes(pc) == op' = [op EXCEPT !.pc = pc]

(* Mutant: the queue goes on after a success only.                          *)
RejectedPoisonsQueue ==
    /\ issuances' = [issuances EXCEPT ![op.req.enrollment] = NoRequest]
    /\ op' = [IdleOp EXCEPT !.pc = "rejected"]

(* The operation throws: it is forgotten, so that a retry starts anew.      *)
Rejected ==
    /\ issuances' = [issuances EXCEPT ![op.req.enrollment] = NoRequest]
    /\ op' = IdleOp

(* The operation returns its result to whoever waits for it.                *)
Answered(leaf) ==
    /\ answers' = answers \cup {[enrollment |-> op.req.enrollment,
                                 leaf |-> leaf]}
    /\ op' = IdleOp
    /\ UNCHANGED issuances

BeginIssue ==
    /\ op.pc = "idle" /\ queue # << >>
    /\ op' = [IdleOp EXCEPT !.pc = "lookup", !.req = Head(queue)]
    /\ queue' = Tail(queue)
    /\ UNCHANGED <<registryVars, issuances, freezing, boundary, privateState,
                   attesterJoined, files, chain, drawn, bounds, answers>>

(* issuanceStore.get: a record of an earlier process is the answer, if it   *)
(* is of the same request.                                                  *)
LookUp ==
    LET record == issued[op.req.enrollment] IN
    /\ op.pc = "lookup"
    /\ \/ /\ record = NoRecord
          /\ OpGoes("validate")
          /\ UNCHANGED <<issuances, answers>>
       \/ /\ record # NoRecord /\ record.req = op.req
          /\ Answered(record.leaf)
       \/ /\ record # NoRecord /\ record.req # op.req
          /\ Rejected
          /\ UNCHANGED answers
    /\ UNCHANGED <<registryVars, queue, freezing, boundary, privateState,
                   attesterJoined, files, chain, drawn, bounds>>

(* validateEvidenceAuthorization and the blind.  What the gateway accepts   *)
(* is left open.                                                            *)
Validate ==
    /\ op.pc = "validate"
    /\ \/ /\ drawn < MaxDraws
          /\ drawn' = drawn + 1
          /\ op' = [op EXCEPT !.pc = "enter", !.leaf = LeafOf(op.req, drawn')]
          /\ UNCHANGED issuances
       \/ Rejected /\ UNCHANGED drawn
    /\ UNCHANGED <<registryVars, queue, freezing, boundary, privateState,
                   attesterJoined, files, chain, bounds, answers>>

(* runEnrollmentMutation: alone in the coordinator, unless the indexer      *)
(* already shows the epoch frozen.                                          *)
EnterEpoch ==
    /\ op.pc = "enter" /\ boundary = "free"
    /\ \/ boundary' = "issue" /\ OpGoes("claim") /\ UNCHANGED issuances
       \/ frozen /\ Rejected /\ UNCHANGED boundary
    /\ UNCHANGED <<registryVars, queue, freezing, privateState,
                   attesterJoined, files, chain, drawn, bounds, answers>>

(* evidenceAuthorizations.claim: the first request binds the evidence to    *)
(* its enrollment and material, and only that request may claim it again.   *)
MayClaim(r) == claims[r.evidence] \in {NoRequest, r}

Claim ==
    /\ op.pc = "claim"
    /\ IF MayClaim(op.req)
         THEN /\ claims' = [claims EXCEPT ![op.req.evidence] = op.req]
              /\ OpGoes("join")
              /\ UNCHANGED <<issuances, boundary>>
         ELSE Rejected /\ boundary' = "free" /\ UNCHANGED claims
    /\ UNCHANGED <<registryVars, queue, freezing, privateState,
                   attesterJoined, issued, chain, drawn, bounds, answers>>

Join ==
    /\ op.pc = "join"
    /\ privateState' = IssuerState(op.leaf)
    /\ OpGoes("call")
    /\ UNCHANGED <<registryVars, issuances, queue, freezing, boundary,
                   attesterJoined, files, chain, drawn, bounds, answers>>

(* addCredential runs with the witnesses as they are now; its assertions    *)
(* fail here if they are not the issuer's.                                  *)
Call ==
    LET tx == AddTx(privateState.leaf) IN
    /\ op.pc = "call"
    /\ IF RequireIssuer(privateState.secret)
         THEN /\ inflight' = inflight \cup {tx}
              /\ op' = [op EXCEPT !.pc = "await", !.tx = tx]
              /\ UNCHANGED <<issuances, boundary>>
         ELSE Rejected /\ boundary' = "free" /\ UNCHANGED inflight
    /\ UNCHANGED <<registryVars, queue, freezing, privateState, applied,
                   attesterJoined, files, drawn, bounds, answers>>

(* The call returns once its transaction is final, and throws when the      *)
(* ledger has refused it.                                                   *)
AddReturns ==
    /\ op.pc = "await" /\ op.tx \notin inflight
    /\ IF op.tx \in applied
         THEN OpGoes("put") /\ UNCHANGED issuances
         ELSE Rejected
    /\ boundary' = "free"
    /\ UNCHANGED <<registryVars, queue, freezing, privateState,
                   attesterJoined, files, chain, drawn, bounds, answers>>

(* The call throws although its transaction may be, or become, final.       *)
AddFails ==
    /\ op.pc = "await"
    /\ Fault
    /\ Rejected
    /\ boundary' = "free"
    /\ UNCHANGED <<registryVars, queue, freezing, privateState,
                   attesterJoined, files, chain, drawn, deliveries, restarts,
                   answers>>

(* Mutant: the journal is written behind the answer, best effort.           *)
PutNothing ==
    /\ op.pc = "put"
    /\ OpGoes("answer")
    /\ UNCHANGED <<registryVars, issuances, queue, freezing, boundary,
                   privateState, attesterJoined, files, chain, drawn, bounds,
                   answers>>

(* issuanceStore.put; a record of another request or leaf makes it throw.   *)
Put ==
    LET record == [req |-> op.req, leaf |-> op.leaf]
        e == op.req.enrollment
    IN
    /\ op.pc = "put"
    /\ IF issued[e] \in {NoRecord, record}
         THEN /\ issued' = [issued EXCEPT ![e] = record]
              /\ OpGoes("answer")
              /\ UNCHANGED issuances
         ELSE Rejected /\ UNCHANGED issued
    /\ UNCHANGED <<registryVars, queue, freezing, boundary, privateState,
                   attesterJoined, claims, chain, drawn, bounds, answers>>

Answer ==
    /\ op.pc = "answer"
    /\ Answered(op.leaf)
    /\ UNCHANGED <<registryVars, queue, freezing, boundary, privateState,
                   attesterJoined, files, chain, drawn, bounds>>

-----------------------------------------------------------------------------
(* closeAndFreeze                                                           *)

FreezeGoes(pc) == freezing' = [freezing EXCEPT !.pc = pc] /\ UNCHANGED boundary

FreezeEnds == freezing' = IdleFreeze /\ boundary' = "free"

(* Alone in the coordinator it reads the registry, which the indexer may    *)
(* show as it was a while ago.  A frozen or an empty registry ends the call. *)
BeginFreeze ==
    /\ freezing.pc = "idle" /\ boundary = "free"
    /\ \E n \in 1..Len(credentials) :
         freezing' = [pc |-> "join", root |-> SubSeq(credentials, 1, n)]
    /\ boundary' = "freeze"
    /\ UNCHANGED <<registryVars, issuances, queue, op, privateState,
                   attesterJoined, files, chain, drawn, bounds, answers>>

FreezeJoin ==
    /\ freezing.pc = "join"
    /\ privateState' = FreezeState
    /\ FreezeGoes("call")
    /\ UNCHANGED <<registryVars, issuances, queue, op, attesterJoined, files,
                   chain, drawn, bounds, answers>>

FreezeCall ==
    /\ freezing.pc = "call"
    /\ IF RequireIssuer(privateState.secret)
         THEN /\ inflight' = inflight \cup {FreezeTx(freezing.root)}
              /\ FreezeGoes("await")
         ELSE FreezeEnds /\ UNCHANGED inflight
    /\ UNCHANGED <<registryVars, issuances, queue, op, privateState, applied,
                   attesterJoined, files, drawn, bounds, answers>>

(* freeze is final or refused; reconcileFrozen reads until the indexer      *)
(* shows it or it gives up, which changes nothing.                          *)
FreezeReturns ==
    /\ freezing.pc = "await" /\ FreezeTx(freezing.root) \notin inflight
    /\ FreezeEnds
    /\ UNCHANGED <<registryVars, issuances, queue, op, privateState,
                   attesterJoined, files, chain, drawn, bounds, answers>>

FreezeFails ==
    /\ freezing.pc = "await"
    /\ Fault
    /\ FreezeEnds
    /\ UNCHANGED <<registryVars, issuances, queue, op, privateState,
                   attesterJoined, files, chain, drawn, deliveries, restarts,
                   answers>>

-----------------------------------------------------------------------------
(* The publisher, the ledger and the life of the process                    *)

(* The publisher's first attestation joins the same executor, outside the   *)
(* coordinator.  attestCurrentRoot itself needs no witness.                 *)
AttesterJoins ==
    /\ ~attesterJoined
    /\ attesterJoined' = TRUE
    /\ privateState' = AttestationState
    /\ UNCHANGED <<registryVars, issuances, queue, op, freezing, boundary,
                   files, chain, drawn, bounds, answers>>

LedgerApplies(tx) ==
    /\ \/ tx.circuit = "addCredential" /\ AddCredential(IssuerSecret, tx.leaf)
       \/ tx.circuit = "freeze" /\ Freeze(IssuerSecret, tx.root)
    /\ inflight' = inflight \ {tx}
    /\ applied' = applied \cup {tx}
    /\ UNCHANGED <<memory, files, drawn, bounds, answers>>

(* The ledger refuses what its assertions do not allow.                     *)
LedgerRefuses(tx) ==
    /\ \/ frozen
       \/ tx.circuit = "addCredential" /\ Len(credentials) = RegistryCapacity
       \/ tx.circuit = "freeze" /\ ~CheckRoot(tx.root)
    /\ inflight' = inflight \ {tx}
    /\ UNCHANGED <<registryVars, memory, files, applied, drawn, bounds, answers>>

Restart ==
    /\ restarts < MaxRestarts
    /\ restarts' = restarts + 1
    /\ issuances' = [e \in Enrollments |-> NoRequest]
    /\ queue' = << >>
    /\ op' = IdleOp
    /\ freezing' = IdleFreeze
    /\ boundary' = "free"
    /\ privateState' = AttestationState
    /\ attesterJoined' = FALSE
    /\ UNCHANGED <<registryVars, files, chain, drawn, deliveries, faults,
                   answers>>

-----------------------------------------------------------------------------

IssueStep ==
    \/ BeginIssue \/ LookUp \/ Validate \/ EnterEpoch \/ Claim
    \/ Join \/ Call \/ AddReturns \/ Put \/ Answer

FreezeStep == FreezeJoin \/ FreezeCall \/ FreezeReturns

LedgerStep == \E tx \in inflight : LedgerApplies(tx) \/ LedgerRefuses(tx)

Next ==
    \/ \E r \in Requests : IssueCredential(r)
    \/ IssueStep
    \/ BeginFreeze
    \/ FreezeStep
    \/ AddFails
    \/ FreezeFails
    \/ AttesterJoins
    \/ LedgerStep
    \/ Restart

Spec == Init /\ [][Next]_vars

(* Promises of the process are settled, and the ledger applies or refuses   *)
(* what it was sent.  The turns of the coordinator are taken in order, so   *)
(* an issuance that waits for it gets in although others freeze.            *)
FairSpec == /\ Spec
            /\ WF_vars(IssueStep) /\ SF_vars(EnterEpoch)
            /\ WF_vars(FreezeStep) /\ WF_vars(LedgerStep)

-----------------------------------------------------------------------------
(* Properties                                                               *)

InsideIssue == {"claim", "join", "call", "await"}

(* The fields keep their types, and the coordinator is held by whoever is   *)
(* inside it.                                                               *)
TypeOK ==
    /\ credentials \in Seq(Leaves) /\ Len(credentials) <= RegistryCapacity
    /\ issuances \in [Enrollments -> Requests \cup {NoRequest}]
    /\ queue \in Seq(Requests)
    /\ op.req \in Requests \cup {NoRequest} /\ op.leaf \in Leaves
    /\ freezing.root \in Seq(Leaves)
    /\ boundary = "issue" <=> op.pc \in InsideIssue
    /\ boundary = "freeze" <=> freezing.pc # "idle"
    /\ privateState.secret \in {IssuerSecret, EmptySecret}
    /\ claims \in [Evidence -> Requests \cup {NoRequest}]
    /\ issued \in [Enrollments -> [req : Requests \cup {NoRequest},
                                   leaf : Leaves]]

(* Whatever a client was told to be its credential is a leaf of the         *)
(* registry, so it can be proved once its root is admitted: although the    *)
(* publisher may replace the witnesses between join and addCredential.      *)
AnsweredIsOnLedger ==
    \A a \in answers : a.leaf \in Range(credentials)

(* claim binds evidence for good: every credential of the registry that was *)
(* issued on the same evidence was issued for the same enrollment and the   *)
(* same claims, also those whose answer was lost.                           *)
EvidenceServesOneHolder ==
    LET Served == Requests \cap {leaf.req : leaf \in Range(credentials)}
    IN  \A r, s \in Served : r.evidence = s.evidence => r = s

(* issueCredential is idempotent across retries, lost calls and restarts:   *)
(* an enrollment is only ever told one credential, of one request, and the  *)
(* evidence it stood on serves nobody else.                                 *)
OneAnswerPerEnrollment ==
    /\ \A a, b \in answers : a.enrollment = b.enrollment => a = b
    /\ EvidenceServesOneHolder

(* The coordinator's freeze leaves nobody out: a credential that was        *)
(* answered, before or after, is under the frozen root.                     *)
FreezeKeepsEveryAnswer ==
    frozen => \A a \in answers : a.leaf \in Range(frozenRoot)

(* Every call of issueCredential is settled: with its credential or with an *)
(* error after which a retry is possible; nobody waits for the coordinator  *)
(* for good.                                                                *)
IssuanceSettles ==
    \A e \in Enrollments :
        (issuances[e] # NoRequest) ~>
            \/ issuances[e] = NoRequest
            \/ \E a \in answers : a.enrollment = e
=============================================================================
