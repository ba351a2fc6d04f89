----------------------- MODULE CredentialIssuerProofs -----------------------
(***************************************************************************)
(* Proofs about CredentialIssuer, for every set of requests, every capacity *)
(* of the registry and any number of faults and restarts.                   *)
(*                                                                          *)
(* What a client was told is what the journal holds for its enrollment, and *)
(* the journal holds leaves of the registry only; whatever was sent to the  *)
(* registry was claimed before, and claims are for good.  Between join and  *)
(* addCredential the witnesses are the issuer's or nobody's, for only the   *)
(* publisher, which has no secret, joins outside the coordinator.           *)
(***************************************************************************)
EXTENDS CredentialIssuer, TLAPS

AnyRequest == Requests \cup {NoRequest}

LeafShape == [req : AnyRequest, blind : Nat]

TxShape == [circuit : {"addCredential", "freeze"}, leaf : LeafShape, root : Seq(LeafShape)]

OpSteps == {"idle", "lookup", "validate", "enter", "put", "answer"} \cup InsideIssue

OpShape == [pc : OpSteps, req : AnyRequest, leaf : LeafShape, tx : TxShape]

FreezeShape == [pc : {"idle", "join", "call", "await"}, root : Seq(LeafShape)]

(* The registry: a frozen one is frozen as it stands.                       *)
RegistryFits ==
    /\ credentials \in Seq(LeafShape)
    /\ frozen => frozenRoot = credentials

(* The process: whose turn it is in the coordinator, and whose witnesses    *)
(* the executor has.                                                        *)
MemoryFits ==
    /\ issuances \in [Enrollments -> AnyRequest]
    /\ queue \in Seq(Requests)
    /\ op \in OpShape /\ freezing \in FreezeShape
    /\ op.pc # "idle" => op.req \in Requests
    /\ boundary = "issue" <=> op.pc \in InsideIssue
    /\ boundary = "freeze" <=> freezing.pc # "idle"
    /\ drawn \in Nat

(* A leaf is of the request it was drawn for.                               *)
LeafFits ==
    op.pc \in InsideIssue \cup {"enter", "put", "answer"} => op.leaf.req = op.req

(* From the claim on, the evidence is bound to the request.                 *)
ClaimFits ==
    /\ claims \in [Evidence -> AnyRequest]
    /\ op.pc \in {"join", "call", "await", "put", "answer"} =>
         claims[op.req.evidence] = op.req

WitnessFits ==
    op.pc = "call" => privateState \in {IssuerState(op.leaf), AttestationState}

AwaitFits == op.pc = "await" => op.tx = AddTx(op.leaf)

Bound(leaf) == leaf.req \in Requests => claims[leaf.req.evidence] = leaf.req

(* Every transaction that adds a credential was claimed for.                *)
ChainFits ==
    /\ inflight \subseteq TxShape /\ applied \subseteq TxShape
    /\ \A tx \in inflight : tx.circuit = "addCredential" => Bound(tx.leaf)
    /\ \A tx \in applied :
         tx.circuit = "addCredential" => tx.leaf \in Range(credentials)
    /\ \A leaf \in Range(credentials) : Bound(leaf)

(* The journal: of the request of its enrollment, a leaf of the registry.   *)
JournalFits ==
    /\ issued \in [Enrollments -> [req : AnyRequest, leaf : LeafShape]]
    /\ \A e \in Enrollments :
         issued[e] # NoRecord => issued[e].leaf \in Range(credentials)
    /\ op.pc \in {"put", "answer"} => op.leaf \in Range(credentials)
    /\ op.pc = "answer" => issued[op.req.enrollment] = [req |-> op.req, leaf |-> op.leaf]

(* An answer is the journal's record of its enrollment.                     *)
AnswersFit ==
    \A a \in answers :
        /\ a \in [enrollment : Enrollments, leaf : LeafShape]
        /\ issued[a.enrollment] # NoRecord
        /\ a.leaf = issued[a.enrollment].leaf

IssuerInv ==
    /\ RegistryFits /\ MemoryFits /\ LeafFits /\ ClaimFits /\ WitnessFits
    /\ AwaitFits /\ ChainFits /\ JournalFits /\ AnswersFit

(* What the steps of an operation keep and set.                             *)
LEMMA OpFields ==
    ASSUME NEW o \in OpShape, NEW p \in OpSteps
    PROVE  /\ [o EXCEPT !.pc = p] \in OpShape
           /\ [o EXCEPT !.pc = p].pc = p
           /\ [o EXCEPT !.pc = p].req = o.req
           /\ [o EXCEPT !.pc = p].leaf = o.leaf
           /\ [o EXCEPT !.pc = p].tx = o.tx
  BY DEF OpShape

LEMMA EmptyFits == EmptyLeaf \in LeafShape /\ EmptyLeaf.req = NoRequest
  BY DEF EmptyLeaf, LeafOf, LeafShape, AnyRequest

LEMMA TxFits ==
    /\ \A leaf \in LeafShape :
         /\ AddTx(leaf) \in TxShape
         /\ AddTx(leaf).circuit = "addCredential" /\ AddTx(leaf).leaf = leaf
    /\ \A root \in Seq(LeafShape) :
         FreezeTx(root) \in TxShape /\ FreezeTx(root).circuit = "freeze"
  BY EmptyFits DEF AddTx, FreezeTx, TxShape

LEMMA IdleFits ==
    /\ IdleOp \in OpShape /\ IdleOp.pc = "idle"
    /\ IdleFreeze \in FreezeShape /\ IdleFreeze.pc = "idle"
<1>1. AddTx(EmptyLeaf) \in TxShape /\ NoRequest \in AnyRequest /\ "idle" \in OpSteps
  BY EmptyFits, TxFits DEF AnyRequest, OpSteps
<1>. QED
  BY <1>1, EmptyFits DEF IdleOp, IdleFreeze, OpShape, FreezeShape

(* An operation that has ended leaves nothing to show about it.             *)
LEMMA OpEnds ==
    ASSUME IssuerInv, op' = IdleOp
    PROVE  /\ op' \in OpShape /\ (op'.pc # "idle" => op'.req \in Requests)
           /\ op'.pc \notin InsideIssue
           /\ LeafFits' /\ WitnessFits' /\ AwaitFits'
           /\ op'.pc \notin {"join", "call", "await", "put", "answer"}
  BY IdleFits DEF LeafFits, WitnessFits, AwaitFits, InsideIssue

LEMMA IssuerInitInv == Init => IssuerInv
<1>. SUFFICES ASSUME Init PROVE IssuerInv
  OBVIOUS
<1>1. credentials = << >> /\ Range(credentials) = {}
  BY DEF Init, RegistryInit, Range
<1>2. RegistryFits
  BY <1>1 DEF Init, RegistryInit, RegistryFits
<1>3. op = IdleOp /\ freezing = IdleFreeze
  BY DEF Init, Fresh
<1>4. MemoryFits
  BY <1>3, IdleFits DEF Init, Fresh, MemoryFits, InsideIssue, AnyRequest
<1>5. LeafFits /\ WitnessFits /\ AwaitFits /\ ClaimFits
  BY <1>3, IdleFits DEF Init, LeafFits, WitnessFits, AwaitFits, ClaimFits, InsideIssue, AnyRequest
<1>6. ChainFits
  BY <1>1 DEF Init, ChainFits
<1>7. JournalFits /\ AnswersFit
  <2>1. NoRecord \in [req : AnyRequest, leaf : LeafShape]
    BY EmptyFits DEF NoRecord, AnyRequest
  <2>. QED
    BY <1>3, <2>1, IdleFits DEF Init, JournalFits, AnswersFit
<1>. QED
  BY <1>2, <1>4, <1>5, <1>6, <1>7 DEF IssuerInv

(* The parts no step of the process touches while registry, files, chain    *)
(* and answers stay as they are.                                            *)
LEMMA OutsideKept ==
    ASSUME IssuerInv, UNCHANGED <<registryVars, files, chain, answers>>
    PROVE  /\ RegistryFits' /\ ChainFits' /\ AnswersFit'
           /\ claims' = claims /\ issued' = issued /\ credentials' = credentials
  BY DEF IssuerInv, RegistryFits, ChainFits, Bound, AnswersFit, registryVars, files, chain

LEMMA IssueCredentialKeeps ==
    ASSUME IssuerInv, NEW r \in Requests, IssueCredential(r) PROVE IssuerInv'
<1>1. RegistryFits' /\ ChainFits' /\ AnswersFit'
  BY OutsideKept DEF IssueCredential
<1>2. MemoryFits'
  BY IssuerAssumption DEF IssueCredential, IssuerInv, MemoryFits, AnyRequest
<1>3. LeafFits' /\ ClaimFits' /\ WitnessFits' /\ AwaitFits' /\ JournalFits'
  BY DEF IssueCredential, IssuerInv, LeafFits, ClaimFits, WitnessFits, AwaitFits, JournalFits,
         files, registryVars
<1>. QED
  BY <1>1, <1>2, <1>3 DEF IssuerInv

(* The operation is forgotten.                                              *)
LEMMA ForgottenFits ==
    ASSUME IssuerInv, op.pc # "idle", Rejected
    PROVE  issuances' \in [Enrollments -> AnyRequest]
  BY IssuerAssumption DEF IssuerInv, MemoryFits, Rejected, AnyRequest

LEMMA BeginIssueKeeps ==
    ASSUME IssuerInv, BeginIssue PROVE IssuerInv'
<1>1. RegistryFits' /\ ChainFits' /\ AnswersFit' /\ claims' = claims /\ issued' = issued
  BY OutsideKept DEF BeginIssue
<1>2. Head(queue) \in Requests /\ Tail(queue) \in Seq(Requests)
  BY DEF BeginIssue, IssuerInv, MemoryFits
<1>. DEFINE next == [IdleOp EXCEPT !.pc = "lookup", !.req = Head(queue)]
<1>3. next \in OpShape /\ next.pc = "lookup" /\ next.req = Head(queue)
  <2>1. Head(queue) \in AnyRequest /\ "lookup" \in OpSteps
    BY <1>2 DEF AnyRequest, OpSteps
  <2>. QED
    BY <2>1, IdleFits DEF OpShape
<1>4. op' = next
  BY DEF BeginIssue
<1>. HIDE DEF next
<1>5. op'.pc = "lookup"
  BY <1>3, <1>4
<1>6. MemoryFits'
  BY <1>2, <1>3, <1>4 DEF BeginIssue, IssuerInv, MemoryFits, InsideIssue
<1>7. LeafFits' /\ WitnessFits' /\ AwaitFits'
  BY <1>5 DEF LeafFits, WitnessFits, AwaitFits, InsideIssue
<1>8. ClaimFits' /\ JournalFits'
  BY <1>1, <1>5 DEF BeginIssue, IssuerInv, ClaimFits, JournalFits, registryVars
<1>. QED
  BY <1>1, <1>6, <1>7, <1>8 DEF IssuerInv

LEMMA LookUpKeeps ==
    ASSUME IssuerInv, LookUp PROVE IssuerInv'
<1>. DEFINE record == issued[op.req.enrollment]
<1>0. /\ op \in OpShape /\ op.req \in Requests /\ op.req.enrollment \in Enrollments
      /\ boundary # "issue"
  BY IssuerAssumption DEF LookUp, IssuerInv, MemoryFits, InsideIssue
<1>1. RegistryFits' /\ ChainFits'
  BY DEF LookUp, IssuerInv, RegistryFits, ChainFits, Bound, registryVars, chain, files
<1>2. CASE record = NoRecord
  <2>1. OpGoes("validate") /\ UNCHANGED <<issuances, answers>>
    BY <1>2 DEF LookUp
  <2>2. op' \in OpShape /\ op'.pc = "validate" /\ op'.req = op.req
    BY <1>0, <2>1, OpFields DEF OpGoes, OpSteps
  <2>3. MemoryFits'
    BY <1>0, <2>1, <2>2 DEF LookUp, IssuerInv, MemoryFits, InsideIssue
  <2>4. LeafFits' /\ WitnessFits' /\ AwaitFits'
    BY <2>2 DEF LeafFits, WitnessFits, AwaitFits, InsideIssue
  <2>5. ClaimFits' /\ JournalFits' /\ AnswersFit'
    BY <2>1, <2>2 DEF LookUp, IssuerInv, ClaimFits, JournalFits, AnswersFit, registryVars, files
  <2>. QED
    BY <1>1, <2>3, <2>4, <2>5 DEF IssuerInv
<1>3. CASE record # NoRecord
  <2>1. op' = IdleOp
    BY <1>3 DEF LookUp, Answered, Rejected
  <2>2. issuances' \in [Enrollments -> AnyRequest]
    BY <1>0, <1>3, ForgottenFits DEF LookUp, Answered, IssuerInv, MemoryFits
  <2>3. MemoryFits'
    BY <1>0, <2>1, <2>2, OpEnds DEF LookUp, IssuerInv, MemoryFits
  <2>4. LeafFits' /\ WitnessFits' /\ AwaitFits'
    BY <2>1, OpEnds
  <2>5. ClaimFits' /\ JournalFits'
    BY <2>1, OpEnds DEF LookUp, IssuerInv, ClaimFits, JournalFits, registryVars, files
  <2>6. AnswersFit'
    <3>1. record \in [req : AnyRequest, leaf : LeafShape]
      BY <1>0 DEF IssuerInv, JournalFits
    <3>2. \/ answers' = answers
          \/ answers' = answers \cup {[enrollment |-> op.req.enrollment, leaf |-> record.leaf]}
      BY <1>3 DEF LookUp, Answered
    <3>. QED
      BY <1>0, <1>3, <3>1, <3>2 DEF LookUp, IssuerInv, AnswersFit, files
  <2>. QED
    BY <1>1, <2>3, <2>4, <2>5, <2>6 DEF IssuerInv
<1>. QED
  BY <1>2, <1>3

(* An operation that throws, wherever it is, gives up its turn.             *)
LEMMA RejectedKeeps ==
    ASSUME IssuerInv, op.pc # "idle", Rejected,
           boundary' = IF op.pc \in InsideIssue THEN "free" ELSE boundary,
           UNCHANGED <<registryVars, queue, freezing, files, chain, drawn, answers>>
    PROVE  IssuerInv'
<1>0. op' = IdleOp
  BY DEF Rejected
<1>1. RegistryFits' /\ ChainFits' /\ AnswersFit' /\ claims' = claims /\ issued' = issued
  BY OutsideKept
<1>2. LeafFits' /\ WitnessFits' /\ AwaitFits'
  BY <1>0, OpEnds
<1>3. ClaimFits' /\ JournalFits'
  BY <1>0, <1>1, OpEnds DEF IssuerInv, ClaimFits, JournalFits, registryVars
<1>4. MemoryFits'
  BY <1>0, OpEnds, ForgottenFits DEF IssuerInv, MemoryFits
<1>. QED
  BY <1>1, <1>2, <1>3, <1>4 DEF IssuerInv

LEMMA ValidateKeeps ==
    ASSUME IssuerInv, Validate PROVE IssuerInv'
<1>0. /\ op \in OpShape /\ op.req \in Requests /\ op.pc = "validate" /\ drawn \in Nat
      /\ boundary # "issue"
  BY DEF Validate, IssuerInv, MemoryFits, InsideIssue
<1>1. CASE Rejected /\ UNCHANGED drawn
  BY <1>0, <1>1, RejectedKeeps DEF Validate, InsideIssue
<1>2. CASE drawn' = drawn + 1 /\ UNCHANGED issuances
           /\ op' = [op EXCEPT !.pc = "enter", !.leaf = LeafOf(op.req, drawn')]
  <2>. DEFINE leaf == LeafOf(op.req, drawn')
              next == [op EXCEPT !.pc = "enter", !.leaf = leaf]
  <2>1. leaf \in LeafShape /\ leaf.req = op.req
    BY <1>0, <1>2 DEF LeafOf, LeafShape, AnyRequest
  <2>. HIDE DEF leaf
  <2>2. next \in OpShape /\ next.pc = "enter" /\ next.req = op.req /\ next.leaf = leaf
    <3>1. "enter" \in OpSteps
      BY DEF OpSteps
    <3>. QED
      BY <1>0, <2>1, <3>1 DEF OpShape
  <2>3. op' = next
    BY <1>2 DEF leaf
  <2>. HIDE DEF next
  <2>4. op' \in OpShape /\ op'.pc = "enter" /\ op'.req = op.req /\ op'.leaf.req = op.req
    BY <2>1, <2>2, <2>3
  <2>5. RegistryFits' /\ ChainFits' /\ AnswersFit' /\ claims' = claims /\ issued' = issued
    BY OutsideKept DEF Validate
  <2>6. MemoryFits'
    BY <1>0, <1>2, <2>4 DEF Validate, IssuerInv, MemoryFits, InsideIssue
  <2>7. LeafFits' /\ WitnessFits' /\ AwaitFits'
    BY <2>4 DEF LeafFits, WitnessFits, AwaitFits
  <2>8. ClaimFits' /\ JournalFits'
    BY <2>4, <2>5 DEF Validate, IssuerInv, ClaimFits, JournalFits, registryVars
  <2>. QED
    BY <2>5, <2>6, <2>7, <2>8 DEF IssuerInv
<1>. QED
  BY <1>1, <1>2 DEF Validate

LEMMA EnterEpochKeeps ==
    ASSUME IssuerInv, EnterEpoch PROVE IssuerInv'
<1>0. op \in OpShape /\ op.req \in Requests /\ op.pc = "enter" /\ op.leaf.req = op.req
  BY DEF EnterEpoch, IssuerInv, MemoryFits, LeafFits
<1>1. CASE Rejected /\ UNCHANGED boundary
  BY <1>0, <1>1, RejectedKeeps DEF EnterEpoch, InsideIssue
<1>2. CASE boundary' = "issue" /\ OpGoes("claim") /\ UNCHANGED issuances
  <2>1. op' \in OpShape /\ op'.pc = "claim" /\ op'.req = op.req /\ op'.leaf = op.leaf
    BY <1>0, <1>2, OpFields DEF OpGoes, OpSteps, InsideIssue
  <2>2. RegistryFits' /\ ChainFits' /\ AnswersFit' /\ claims' = claims /\ issued' = issued
    BY OutsideKept DEF EnterEpoch
  <2>3. MemoryFits'
    BY <1>0, <1>2, <2>1 DEF EnterEpoch, IssuerInv, MemoryFits, InsideIssue
  <2>4. LeafFits' /\ WitnessFits' /\ AwaitFits'
    BY <1>0, <2>1 DEF LeafFits, WitnessFits, AwaitFits
  <2>5. ClaimFits' /\ JournalFits'
    BY <2>1, <2>2 DEF EnterEpoch, IssuerInv, ClaimFits, JournalFits, registryVars
  <2>. QED
    BY <2>2, <2>3, <2>4, <2>5 DEF IssuerInv
<1>. QED
  BY <1>1, <1>2 DEF EnterEpoch

(* A claim is made once for all: whoever holds one keeps it.                *)
LEMMA ClaimKeeps ==
    ASSUME IssuerInv, Claim PROVE IssuerInv'
<1>0. /\ op \in OpShape /\ op.req \in Requests /\ op.pc = "claim" /\ op.leaf.req = op.req
      /\ op.req.evidence \in Evidence
  BY IssuerAssumption DEF Claim, IssuerInv, MemoryFits, LeafFits, InsideIssue
<1>1. CASE ~MayClaim(op.req)
  BY <1>0, <1>1, RejectedKeeps DEF Claim, InsideIssue, files
<1>2. CASE MayClaim(op.req)
  <2>1. /\ claims' = [claims EXCEPT ![op.req.evidence] = op.req]
        /\ OpGoes("join") /\ UNCHANGED <<issuances, boundary>>
    BY <1>2 DEF Claim
  <2>2. op' \in OpShape /\ op'.pc = "join" /\ op'.req = op.req /\ op'.leaf = op.leaf
    BY <1>0, <2>1, OpFields DEF OpGoes, OpSteps, InsideIssue
  <2>3. RegistryFits' /\ AnswersFit'
    BY DEF Claim, IssuerInv, RegistryFits, AnswersFit, registryVars
  <2>4. MemoryFits'
    BY <1>0, <2>1, <2>2 DEF Claim, IssuerInv, MemoryFits, InsideIssue
  <2>5. LeafFits' /\ WitnessFits' /\ AwaitFits'
    BY <1>0, <2>2 DEF LeafFits, WitnessFits, AwaitFits
  <2>6. ClaimFits'
    BY <1>0, <2>1, <2>2 DEF IssuerInv, ClaimFits, AnyRequest
  <2>7. JournalFits'
    BY <2>2 DEF Claim, IssuerInv, JournalFits, registryVars
  <2>8. ASSUME NEW leaf, Bound(leaf) PROVE Bound(leaf)'
    <3>1. CASE leaf.req \in Requests
      <4>1. leaf.req.evidence \in Evidence /\ claims[leaf.req.evidence] = leaf.req
        BY <2>8, <3>1, IssuerAssumption DEF Bound
      <4>2. claims \in [Evidence -> AnyRequest] /\ leaf.req # NoRequest
        BY <3>1, IssuerAssumption DEF IssuerInv, ClaimFits
      <4>. QED
        BY <1>0, <1>2, <2>1, <4>1, <4>2 DEF Bound, MayClaim
    <3>. QED
      BY <3>1 DEF Bound
  <2>9. ChainFits'
    BY <2>8 DEF Claim, IssuerInv, ChainFits, registryVars, chain
  <2>. QED
    BY <2>3, <2>4, <2>5, <2>6, <2>7, <2>9 DEF IssuerInv
<1>. QED
  BY <1>1, <1>2

LEMMA JoinKeeps ==
    ASSUME IssuerInv, Join PROVE IssuerInv'
<1>0. op \in OpShape /\ op.req \in Requests /\ op.pc = "join" /\ op.leaf.req = op.req
  BY DEF Join, IssuerInv, MemoryFits, LeafFits, InsideIssue
<1>1. op' \in OpShape /\ op'.pc = "call" /\ op'.req = op.req /\ op'.leaf = op.leaf
  BY <1>0, OpFields DEF Join, OpGoes, OpSteps, InsideIssue
<1>2. RegistryFits' /\ ChainFits' /\ AnswersFit' /\ claims' = claims /\ issued' = issued
  BY OutsideKept DEF Join
<1>3. MemoryFits'
  BY <1>0, <1>1 DEF Join, IssuerInv, MemoryFits, InsideIssue
<1>4. LeafFits' /\ WitnessFits' /\ AwaitFits'
  BY <1>0, <1>1 DEF Join, LeafFits, WitnessFits, AwaitFits, IssuerState
<1>5. ClaimFits' /\ JournalFits'
  BY <1>0, <1>1, <1>2 DEF Join, IssuerInv, ClaimFits, JournalFits, registryVars
<1>. QED
  BY <1>2, <1>3, <1>4, <1>5 DEF IssuerInv

(* Nobody's witnesses do not pass requireIssuer, so what is sent is the     *)
(* leaf the operation has joined with.                                      *)
LEMMA CallKeeps ==
    ASSUME IssuerInv, Call PROVE IssuerInv'
<1>0. /\ op \in OpShape /\ op.req \in Requests /\ op.pc = "call" /\ op.leaf.req = op.req
      /\ op.leaf \in LeafShape /\ claims[op.req.evidence] = op.req
  BY DEF Call, IssuerInv, MemoryFits, LeafFits, ClaimFits, InsideIssue, OpShape
<1>1. CASE ~RequireIssuer(privateState.secret)
  BY <1>0, <1>1, RejectedKeeps DEF Call, InsideIssue, chain
<1>2. CASE RequireIssuer(privateState.secret)
  <2>. DEFINE tx == AddTx(op.leaf)
              next == [op EXCEPT !.pc = "await", !.tx = tx]
  <2>1. privateState.leaf = op.leaf
    <3>1. CASE privateState = AttestationState
      BY <1>2, <3>1, IssuerAssumption DEF RequireIssuer, IssuerRoleKey, AttestationState
    <3>2. CASE privateState = IssuerState(op.leaf)
      BY <3>2 DEF IssuerState
    <3>. QED
      BY <1>0, <3>1, <3>2 DEF IssuerInv, WitnessFits
  <2>2. tx \in TxShape /\ tx.circuit = "addCredential" /\ tx.leaf = op.leaf
    BY <1>0, TxFits
  <2>3. /\ inflight' = inflight \cup {tx} /\ op' = next
        /\ UNCHANGED <<issuances, boundary>>
    BY <1>2, <2>1 DEF Call
  <2>. HIDE DEF tx
  <2>4. next \in OpShape /\ next.pc = "await" /\ next.req = op.req /\ next.leaf = op.leaf
        /\ next.tx = tx
    <3>1. "await" \in OpSteps
      BY DEF OpSteps, InsideIssue
    <3>. QED
      BY <1>0, <2>2, <3>1 DEF OpShape
  <2>. HIDE DEF next
  <2>5. /\ op' \in OpShape /\ op'.pc = "await" /\ op'.req = op.req /\ op'.leaf = op.leaf
        /\ op'.tx = AddTx(op.leaf)
    BY <2>3, <2>4 DEF tx
  <2>6. RegistryFits' /\ AnswersFit' /\ claims' = claims /\ issued' = issued
    BY DEF Call, IssuerInv, RegistryFits, AnswersFit, registryVars, files
  <2>7. MemoryFits'
    BY <1>0, <2>3, <2>5 DEF Call, IssuerInv, MemoryFits, InsideIssue
  <2>8. LeafFits' /\ WitnessFits' /\ AwaitFits'
    BY <1>0, <2>5 DEF LeafFits, WitnessFits, AwaitFits
  <2>9. ClaimFits' /\ JournalFits'
    BY <1>0, <2>5, <2>6 DEF Call, IssuerInv, ClaimFits, JournalFits, registryVars
  <2>10. ChainFits'
    BY <1>0, <2>2, <2>3 DEF Call, IssuerInv, ChainFits, Bound, registryVars, files
  <2>. QED
    BY <2>6, <2>7, <2>8, <2>9, <2>10 DEF IssuerInv
<1>. QED
  BY <1>1, <1>2

LEMMA AddReturnsKeeps ==
    ASSUME IssuerInv, AddReturns PROVE IssuerInv'
<1>0. /\ op \in OpShape /\ op.req \in Requests /\ op.pc = "await" /\ op.leaf.req = op.req
      /\ op.leaf \in LeafShape /\ op.tx = AddTx(op.leaf)
  BY DEF AddReturns, IssuerInv, MemoryFits, LeafFits, AwaitFits, InsideIssue, OpShape
<1>1. CASE op.tx \notin applied
  BY <1>0, <1>1, RejectedKeeps DEF AddReturns, InsideIssue
<1>2. CASE op.tx \in applied
  <2>1. op.leaf \in Range(credentials)
    BY <1>0, <1>2, TxFits DEF IssuerInv, ChainFits
  <2>2. OpGoes("put") /\ UNCHANGED issuances
    BY <1>2 DEF AddReturns
  <2>3. op' \in OpShape /\ op'.pc = "put" /\ op'.req = op.req /\ op'.leaf = op.leaf
    BY <1>0, <2>2, OpFields DEF OpGoes, OpSteps
  <2>4. /\ RegistryFits' /\ ChainFits' /\ AnswersFit' /\ claims' = claims /\ issued' = issued
        /\ credentials' = credentials
    BY OutsideKept DEF AddReturns
  <2>5. MemoryFits'
    BY <1>0, <2>2, <2>3 DEF AddReturns, IssuerInv, MemoryFits, InsideIssue
  <2>6. LeafFits' /\ WitnessFits' /\ AwaitFits'
    BY <1>0, <2>3 DEF LeafFits, WitnessFits, AwaitFits
  <2>7. ClaimFits' /\ JournalFits'
    BY <1>0, <2>1, <2>3, <2>4 DEF IssuerInv, ClaimFits, JournalFits
  <2>. QED
    BY <2>4, <2>5, <2>6, <2>7 DEF IssuerInv
<1>. QED
  BY <1>1, <1>2

LEMMA AddFailsKeeps ==
    ASSUME IssuerInv, AddFails PROVE IssuerInv'
  BY RejectedKeeps DEF AddFails, InsideIssue

(* put writes where nothing was written, so what was answered stays.        *)
LEMMA PutKeeps ==
    ASSUME IssuerInv, Put PROVE IssuerInv'
<1>. DEFINE record == [req |-> op.req, leaf |-> op.leaf]
            e == op.req.enrollment
<1>0. /\ op \in OpShape /\ op.req \in Requests /\ op.pc = "put" /\ op.leaf.req = op.req
      /\ op.leaf \in LeafShape /\ op.leaf \in Range(credentials) /\ e \in Enrollments
      /\ claims[op.req.evidence] = op.req
  BY IssuerAssumption DEF Put, IssuerInv, MemoryFits, LeafFits, JournalFits, ClaimFits, OpShape
<1>1. CASE issued[e] \notin {NoRecord, record}
  BY <1>0, <1>1, RejectedKeeps DEF Put, InsideIssue, files
<1>2. CASE issued[e] \in {NoRecord, record}
  <2>1. /\ issued' = [issued EXCEPT ![e] = record] /\ OpGoes("answer")
        /\ UNCHANGED issuances
    BY <1>2 DEF Put
  <2>2. op' \in OpShape /\ op'.pc = "answer" /\ op'.req = op.req /\ op'.leaf = op.leaf
    BY <1>0, <2>1, OpFields DEF OpGoes, OpSteps
  <2>3. record \in [req : AnyRequest, leaf : LeafShape] /\ record # NoRecord
    BY <1>0, IssuerAssumption DEF AnyRequest, NoRecord
  <2>4. issued \in [Enrollments -> [req : AnyRequest, leaf : LeafShape]]
    BY DEF IssuerInv, JournalFits
  <2>5. record = [req |-> op'.req, leaf |-> op'.leaf] /\ record.leaf = op.leaf
    BY <2>2
  <2>. HIDE DEF record
  <2>6. /\ issued'[e] = record /\ \A d \in Enrollments : d # e => issued'[d] = issued[d]
        /\ issued' \in [Enrollments -> [req : AnyRequest, leaf : LeafShape]]
    BY <1>0, <2>1, <2>3, <2>4
  <2>7. RegistryFits' /\ ChainFits' /\ credentials' = credentials /\ claims' = claims
    BY DEF Put, IssuerInv, RegistryFits, ChainFits, Bound, registryVars, chain
  <2>8. MemoryFits'
    BY <1>0, <2>1, <2>2 DEF Put, IssuerInv, MemoryFits, InsideIssue
  <2>9. LeafFits' /\ WitnessFits' /\ AwaitFits' /\ ClaimFits'
    BY <1>0, <2>2, <2>7 DEF LeafFits, WitnessFits, AwaitFits, IssuerInv, ClaimFits
  <2>10. JournalFits'
    BY <1>0, <2>2, <2>5, <2>6, <2>7 DEF IssuerInv, JournalFits
  <2>11. AnswersFit'
    <3>1. answers' = answers
      BY DEF Put
    <3>2. ASSUME NEW a \in answers
          PROVE  issued'[a.enrollment] # NoRecord /\ a.leaf = issued'[a.enrollment].leaf
      BY <1>2, <2>3, <2>6 DEF IssuerInv, AnswersFit
    <3>. QED
      BY <3>1, <3>2 DEF IssuerInv, AnswersFit
  <2>. QED
    BY <2>7, <2>8, <2>9, <2>10, <2>11 DEF IssuerInv
<1>. QED
  BY <1>1, <1>2

LEMMA AnswerKeeps ==
    ASSUME IssuerInv, Answer PROVE IssuerInv'
<1>0. /\ op \in OpShape /\ op.req \in Requests /\ op.pc = "answer"
      /\ op.leaf \in LeafShape /\ op.req.enrollment \in Enrollments
      /\ issued[op.req.enrollment] = [req |-> op.req, leaf |-> op.leaf]
  BY IssuerAssumption DEF Answer, IssuerInv, MemoryFits, JournalFits, OpShape
<1>1. op' = IdleOp /\ UNCHANGED issuances
      /\ answers' = answers \cup {[enrollment |-> op.req.enrollment, leaf |-> op.leaf]}
  BY DEF Answer, Answered
<1>2. RegistryFits' /\ ChainFits' /\ claims' = claims /\ issued' = issued
  BY DEF Answer, IssuerInv, RegistryFits, ChainFits, Bound, registryVars, chain, files
<1>3. LeafFits' /\ WitnessFits' /\ AwaitFits'
  BY <1>1, OpEnds
<1>4. ClaimFits' /\ JournalFits'
  BY <1>1, <1>2, OpEnds DEF Answer, IssuerInv, ClaimFits, JournalFits, registryVars
<1>5. MemoryFits'
  BY <1>0, <1>1, OpEnds DEF Answer, IssuerInv, MemoryFits, InsideIssue
<1>6. AnswersFit'
  <2>1. [req |-> op.req, leaf |-> op.leaf] # NoRecord
    BY <1>0, IssuerAssumption DEF NoRecord
  <2>. QED
    BY <1>0, <1>1, <1>2, <2>1 DEF IssuerInv, AnswersFit
<1>. QED
  BY <1>2, <1>3, <1>4, <1>5, <1>6 DEF IssuerInv

(* The steps of a freeze: it joins only while it is alone in the            *)
(* coordinator, so never between an issuance's join and its call.           *)
LEMMA FreezeKeeps ==
    ASSUME IssuerInv,
           BeginFreeze \/ FreezeJoin \/ FreezeCall \/ FreezeReturns \/ FreezeFails
    PROVE  IssuerInv'
<1>0. /\ op' = op /\ issuances' = issuances /\ queue' = queue /\ drawn' = drawn
      /\ UNCHANGED <<registryVars, files, answers>>
  BY DEF BeginFreeze, FreezeJoin, FreezeCall, FreezeReturns, FreezeFails
<1>1. RegistryFits' /\ AnswersFit' /\ LeafFits' /\ AwaitFits' /\ ClaimFits' /\ JournalFits'
  BY <1>0 DEF IssuerInv, RegistryFits, AnswersFit, LeafFits, AwaitFits, ClaimFits, JournalFits,
              registryVars, files
<1>2. MemoryFits'
  <2>1. CASE BeginFreeze
    <3>1. PICK n \in 1..Len(credentials) :
            freezing' = [pc |-> "join", root |-> SubSeq(credentials, 1, n)]
      BY <2>1 DEF BeginFreeze
    <3>2. SubSeq(credentials, 1, n) \in Seq(LeafShape)
      BY DEF IssuerInv, RegistryFits
    <3>3. freezing' \in FreezeShape /\ freezing'.pc = "join"
      BY <3>1, <3>2 DEF FreezeShape
    <3>. QED
      BY <1>0, <2>1, <3>3 DEF BeginFreeze, IssuerInv, MemoryFits
  <2>2. CASE freezing' = IdleFreeze /\ boundary' = "free" /\ freezing.pc # "idle"
    BY <1>0, <2>2, IdleFits DEF IssuerInv, MemoryFits
  <2>3. ASSUME NEW p \in {"call", "await"}, FreezeGoes(p), freezing.pc # "idle"
        PROVE  MemoryFits'
    <3>1. freezing' \in FreezeShape /\ freezing'.pc # "idle"
      BY <2>3 DEF FreezeGoes, IssuerInv, MemoryFits, FreezeShape
    <3>. QED
      BY <1>0, <2>3, <3>1 DEF FreezeGoes, IssuerInv, MemoryFits
  <2>. QED
    BY <2>1, <2>2, <2>3 DEF FreezeJoin, FreezeCall, FreezeReturns, FreezeFails, FreezeEnds
<1>3. WitnessFits'
  <2>1. CASE FreezeJoin
    <3>1. op.pc # "call"
      BY <2>1 DEF FreezeJoin, IssuerInv, MemoryFits, InsideIssue
    <3>. QED
      BY <1>0, <3>1 DEF WitnessFits
  <2>2. CASE ~FreezeJoin
    BY <1>0, <2>2 DEF BeginFreeze, FreezeCall, FreezeReturns, FreezeFails, IssuerInv, WitnessFits
  <2>. QED
    BY <2>1, <2>2
<1>4. ChainFits'
  <2>1. CASE FreezeCall
    <3>1. freezing.root \in Seq(LeafShape)
      BY DEF IssuerInv, MemoryFits, FreezeShape
    <3>2. /\ FreezeTx(freezing.root) \in TxShape
          /\ FreezeTx(freezing.root).circuit = "freeze"
      BY <3>1, TxFits
    <3>3. /\ inflight' \subseteq inflight \cup {FreezeTx(freezing.root)}
          /\ applied' = applied
      BY <2>1 DEF FreezeCall
    <3>. QED
      BY <1>0, <3>2, <3>3 DEF IssuerInv, ChainFits, Bound, registryVars, files
  <2>2. CASE UNCHANGED chain
    BY <1>0, <2>2 DEF IssuerInv, ChainFits, Bound, registryVars, files, chain
  <2>. QED
    BY <2>1, <2>2 DEF BeginFreeze, FreezeJoin, FreezeReturns, FreezeFails
<1>. QED
  BY <1>1, <1>2, <1>3, <1>4 DEF IssuerInv

LEMMA AttesterJoinsKeeps ==
    ASSUME IssuerInv, AttesterJoins PROVE IssuerInv'
<1>1. RegistryFits' /\ ChainFits' /\ AnswersFit'
  BY OutsideKept DEF AttesterJoins
<1>2. MemoryFits' /\ LeafFits' /\ AwaitFits'
  BY DEF AttesterJoins, IssuerInv, MemoryFits, LeafFits, AwaitFits
<1>3. ClaimFits' /\ JournalFits' /\ WitnessFits'
  BY DEF AttesterJoins, IssuerInv, ClaimFits, JournalFits, WitnessFits, registryVars, files
<1>. QED
  BY <1>1, <1>2, <1>3 DEF IssuerInv

LEMMA RestartKeeps ==
    ASSUME IssuerInv, Restart PROVE IssuerInv'
<1>0. op' = IdleOp /\ freezing' = IdleFreeze
  BY DEF Restart
<1>1. RegistryFits' /\ ChainFits' /\ AnswersFit' /\ claims' = claims /\ issued' = issued
  BY OutsideKept DEF Restart
<1>2. LeafFits' /\ WitnessFits' /\ AwaitFits'
  BY <1>0, OpEnds
<1>3. ClaimFits' /\ JournalFits'
  BY <1>0, <1>1, OpEnds DEF Restart, IssuerInv, ClaimFits, JournalFits, registryVars
<1>4. MemoryFits'
  BY <1>0, IdleFits DEF Restart, IssuerInv, MemoryFits, InsideIssue, AnyRequest
<1>. QED
  BY <1>1, <1>2, <1>3, <1>4 DEF IssuerInv

LEMMA RangeOfAppend ==
    ASSUME NEW S, NEW s \in Seq(S), NEW x \in S
    PROVE  Range(Append(s, x)) = Range(s) \cup {x}
<1>1. /\ DOMAIN Append(s, x) = 1..(Len(s) + 1) /\ Append(s, x)[Len(s) + 1] = x
      /\ \A i \in 1..Len(s) : Append(s, x)[i] = s[i]
  OBVIOUS
<1>2. DOMAIN s = 1..Len(s) /\ Len(s) \in Nat
  OBVIOUS
<1>. QED
  BY <1>1, <1>2 DEF Range

(* The registry only grows, until it is frozen as it stands.                *)
LEMMA LedgerAppliesKeeps ==
    ASSUME IssuerInv, NEW tx \in inflight, LedgerApplies(tx) PROVE IssuerInv'
<1>0. /\ tx \in TxShape /\ tx.leaf \in LeafShape /\ credentials \in Seq(LeafShape)
      /\ inflight' = inflight \ {tx} /\ applied' = applied \cup {tx}
      /\ UNCHANGED <<memory, files, drawn, bounds, answers>>
  BY DEF LedgerApplies, IssuerInv, ChainFits, RegistryFits, TxShape
<1>1. MemoryFits' /\ LeafFits' /\ AwaitFits' /\ WitnessFits' /\ ClaimFits' /\ AnswersFit'
  BY <1>0 DEF IssuerInv, MemoryFits, LeafFits, AwaitFits, WitnessFits, ClaimFits, AnswersFit,
              memory, files
<1>2. CASE tx.circuit = "addCredential" /\ AddCredential(IssuerSecret, tx.leaf)
  <2>1. credentials' = Append(credentials, tx.leaf) /\ ~frozen' /\ ~frozen
    BY <1>2 DEF AddCredential
  <2>2. credentials' \in Seq(LeafShape)
        /\ Range(credentials') = Range(credentials) \cup {tx.leaf}
    BY <1>0, <2>1, RangeOfAppend
  <2>3. RegistryFits'
    BY <2>1, <2>2 DEF RegistryFits
  <2>4. Bound(tx.leaf)
    BY <1>2 DEF IssuerInv, ChainFits
  <2>5. ChainFits'
    BY <1>0, <2>2, <2>4 DEF IssuerInv, ChainFits, Bound, files
  <2>6. JournalFits'
    BY <1>0, <2>2 DEF IssuerInv, JournalFits, files, memory
  <2>. QED
    BY <1>1, <2>3, <2>5, <2>6 DEF IssuerInv
<1>3. CASE tx.circuit = "freeze" /\ Freeze(IssuerSecret, tx.root)
  <2>1. credentials' = credentials /\ frozenRoot' = credentials
    BY <1>3 DEF Freeze, CheckRoot
  <2>2. RegistryFits' /\ JournalFits'
    BY <1>0, <2>1 DEF IssuerInv, RegistryFits, JournalFits, files, memory
  <2>3. ChainFits'
    BY <1>0, <1>3, <2>1 DEF IssuerInv, ChainFits, Bound, files
  <2>. QED
    BY <1>1, <2>2, <2>3 DEF IssuerInv
<1>. QED
  BY <1>2, <1>3 DEF LedgerApplies

LEMMA LedgerRefusesKeeps ==
    ASSUME IssuerInv, NEW tx \in inflight, LedgerRefuses(tx) PROVE IssuerInv'
<1>0. /\ inflight' = inflight \ {tx} /\ applied' = applied
      /\ UNCHANGED <<registryVars, memory, files, drawn, answers>>
  BY DEF LedgerRefuses
<1>1. MemoryFits' /\ LeafFits' /\ AwaitFits' /\ WitnessFits' /\ ClaimFits' /\ AnswersFit'
  BY <1>0 DEF IssuerInv, MemoryFits, LeafFits, AwaitFits, WitnessFits, ClaimFits, AnswersFit,
              memory, files
<1>2. RegistryFits' /\ ChainFits' /\ JournalFits'
  BY <1>0 DEF IssuerInv, RegistryFits, ChainFits, Bound, JournalFits, registryVars, files, memory
<1>. QED
  BY <1>1, <1>2 DEF IssuerInv

LEMMA IssuerNextInv == IssuerInv /\ [Next]_vars => IssuerInv'
<1>. SUFFICES ASSUME IssuerInv, [Next]_vars PROVE IssuerInv'
  OBVIOUS
<1>1. CASE UNCHANGED vars
  BY <1>1 DEF vars, memory, files, chain, bounds, registryVars, IssuerInv, RegistryFits,
       MemoryFits, LeafFits, ClaimFits, WitnessFits, AwaitFits, ChainFits, Bound, JournalFits,
       AnswersFit
<1>2. CASE \E r \in Requests : IssueCredential(r)
  BY <1>2, IssueCredentialKeeps
<1>3. CASE IssueStep
  BY <1>3, BeginIssueKeeps, LookUpKeeps, ValidateKeeps, EnterEpochKeeps, ClaimKeeps, JoinKeeps,
     CallKeeps, AddReturnsKeeps, PutKeeps, AnswerKeeps DEF IssueStep
<1>4. CASE BeginFreeze \/ FreezeStep \/ FreezeFails
  BY <1>4, FreezeKeeps DEF FreezeStep
<1>5. CASE AddFails \/ AttesterJoins \/ Restart
  BY <1>5, AddFailsKeeps, AttesterJoinsKeeps, RestartKeeps
<1>6. CASE LedgerStep
  BY <1>6, LedgerAppliesKeeps, LedgerRefusesKeeps DEF LedgerStep
<1>. QED
  BY <1>1, <1>2, <1>3, <1>4, <1>5, <1>6 DEF Next

LEMMA IssuerAlways == Spec => []IssuerInv
  BY IssuerInitInv, IssuerNextInv, PTL DEF Spec

(* issueCredential never tells a client a credential the registry does not  *)
(* hold, whoever replaced the witnesses of the shared executor meanwhile.   *)
THEOREM IssuedIsOnLedger == Spec => []AnsweredIsOnLedger
<1>1. IssuerInv => AnsweredIsOnLedger
  BY DEF IssuerInv, JournalFits, AnswersFit, AnsweredIsOnLedger
<1>. QED
  BY <1>1, IssuerAlways, PTL

(* issueCredential is idempotent, for any requests, retries, lost calls and *)
(* restarts: one credential for an enrollment, and evidence that claim has  *)
(* bound is never used for anybody else.                                    *)
THEOREM IssuedOnce == Spec => []OneAnswerPerEnrollment
<1>1. ASSUME IssuerInv, NEW a \in answers, NEW b \in answers, a.enrollment = b.enrollment
      PROVE  a = b
  <2>1. /\ a \in [enrollment : Enrollments, leaf : LeafShape]
        /\ b \in [enrollment : Enrollments, leaf : LeafShape] /\ a.leaf = b.leaf
    BY <1>1 DEF IssuerInv, AnswersFit
  <2>. QED
    BY <1>1, <2>1
<1>2. IssuerInv => EvidenceServesOneHolder
  BY DEF IssuerInv, ChainFits, Bound, EvidenceServesOneHolder
<1>3. IssuerInv => OneAnswerPerEnrollment
  BY <1>1, <1>2 DEF OneAnswerPerEnrollment
<1>. QED
  BY <1>3, IssuerAlways, PTL

(* closeAndFreeze leaves nobody out who was answered, before or after it.   *)
THEOREM FreezeIsFair == Spec => []FreezeKeepsEveryAnswer
<1>1. IssuerInv => FreezeKeepsEveryAnswer
  BY DEF IssuerInv, RegistryFits, JournalFits, AnswersFit, FreezeKeepsEveryAnswer
<1>. QED
  BY <1>1, IssuerAlways, PTL
=============================================================================
