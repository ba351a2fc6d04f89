----------------------------- MODULE Deployment -----------------------------
(***************************************************************************)
(* Deploying a referendum: deploy-passport-v2.mjs and its manifest, run by *)
(* an operator again and again or, once, by evidence-undeployed-v2.mjs.    *)
(*                                                                         *)
(* A run reads the manifest, goes through its stages and saves the         *)
(* manifest after each; it may die at any point, also after a transaction  *)
(* has landed and before it is saved.  Meanwhile other people enroll and   *)
(* vote, the root publisher of the credential service publishes roots, and *)
(* the deadlines pass.  The root of a registry is its number of leaves.    *)
(* Enrollment is open: a manifest of the frozen model is refused by its    *)
(* own validation the first time it is saved, so no such run goes on.      *)
(***************************************************************************)
EXTENDS Naturals, Sequences, FiniteSets

CONSTANTS MaxContracts,   \* bound: registries, and referenda, ever deployed
          MaxLeaves,      \* bound: credentials of a registry
          MaxFailures,    \* bound: deaths and failed calls
          MaxEvidence     \* bound: starts of the evidence runner

ASSUME DeploymentAssumption == {MaxContracts, MaxLeaves, MaxFailures, MaxEvidence} \subseteq Nat

Milestones == {"registry.deploy", "registry.issue", "referendum.deploy",
               "lifecycle.cast", "lifecycle.close", "lifecycle.reveal", "lifecycle.finalize"}

Stages == {"stopped", "registry", "issue", "attest", "referendum", "admit", "publish",
           "cast", "replay", "close", "reveal", "finalize", "seal"}

VARIABLES
    registries,   \* the registry contracts on the chain
    referenda,    \* the referendum contracts on the chain
    period,       \* of the schedule: enroll, vote, count, over
    manifest,     \* the file; registry and referendum are 0 before they have an address
    run,          \* the running script: its stage, its V2_EVIDENCE_PHASE, the root its fixture's
                  \* path was found under and the root it is admitting; or Idle
    runner,       \* where the evidence runner is
    captured,     \* whether the runner has seen the cast go by
    failures,
    evidenceRuns

ovars == <<registries, referenda, period, manifest, run, runner, captured, failures, evidenceRuns>>
chain == <<registries, referenda, period>>
script == <<run, runner, captured, failures, evidenceRuns>>

Roots == 0..MaxLeaves

Idle == [stage |-> "stopped", upTo |-> "prepare", path |-> 0, root |-> 0]

NoManifest ==
    [exists |-> FALSE, registry |-> 0, referendum |-> 0, initial |-> 0, accepted |-> {0}, attests |-> {}, publishes |-> {},
     steps |-> [m \in Milestones |-> "none"], replayRejected |-> FALSE, sealed |-> FALSE, complete |-> FALSE]

OTypeOK ==
    /\ registries \in Seq([leaves : Roots, fixture : BOOLEAN, attested : SUBSET Roots]) /\ Len(registries) <= MaxContracts
    /\ referenda \in Seq([registry : 1..MaxContracts, initial : Roots, accepted : SUBSET Roots, phase : {"COMMIT", "REVEAL", "FINALIZED"},
                          votes : SUBSET {"fixture", "other"}, revealed : BOOLEAN]) /\ Len(referenda) <= MaxContracts
    /\ period \in {"enroll", "vote", "count", "over"}
    /\ manifest.registry \in 0..Len(registries) /\ manifest.referendum \in 0..Len(referenda)
    /\ manifest.steps \in [Milestones -> {"none", "reconciled", "receipt"}]
    /\ run \in [stage : Stages, upTo : {"prepare", "complete"}, path : Roots, root : Roots]
    /\ runner \in {"off", "prepare", "complete", "done", "failed"} /\ captured \in BOOLEAN
    /\ failures \in 0..MaxFailures /\ evidenceRuns \in 0..MaxEvidence

OInit ==
    /\ registries = << >> /\ referenda = << >> /\ period = "enroll" /\ manifest = NoManifest
    /\ run = Idle /\ runner = "off" /\ captured = FALSE /\ failures = 0 /\ evidenceRuns = 0

registry == registries[manifest.registry]
referendum == referenda[manifest.referendum]

\* recordStep keeps the receipt a step already has.
recordStep(m, id, status) == [m EXCEPT !.steps[id] = IF @ = "receipt" THEN @ ELSE status]

\* validatePassportV2DeploymentManifest, beyond the shape of the fields: what an address and
\* a root must agree with.
validates(m) ==
    /\ m.accepted # {} /\ m.initial \in m.accepted
    /\ m.referendum # 0 => m.registry # 0 /\ referenda[m.referendum].registry = m.registry

\* A run that stops before its end fails the evidence runner that started it.
Stops == run' = Idle /\ runner' = IF runner \in {"prepare", "complete"} THEN "failed" ELSE runner

Dies == failures < MaxFailures /\ failures' = failures + 1 /\ Stops

At(to) == [run EXCEPT !.stage = to]

Goes(next) == run' = next /\ UNCHANGED <<runner, failures>>

\* The contract has rejected the call and the error ends the run.
Rejected == Stops /\ UNCHANGED <<failures, manifest>>

\* A transaction has landed: the manifest is saved, unless the run dies before.
Saved(saved, next) == (manifest' = saved /\ Goes(next)) \/ (Dies /\ UNCHANGED manifest)

\* The run dies, or a call fails without effect.
Fail == run.stage # "stopped" /\ Dies /\ UNCHANGED <<chain, manifest, captured, evidenceRuns>>

\* loadOrCreateManifest.  Every save of a complete manifest would change it under its digest.
Begin(p) ==
    /\ run.stage = "stopped" /\ runner \in {"off", "failed", p} /\ ~manifest.complete
    /\ validates(manifest)
    /\ run' = [Idle EXCEPT !.stage = "registry", !.upTo = p] /\ manifest' = [manifest EXCEPT !.exists = TRUE]
    /\ UNCHANGED <<chain, runner, captured, failures, evidenceRuns>>

DeployRegistry ==
    /\ run.stage = "registry"
    /\ \/ /\ manifest.registry # 0
          /\ manifest' = recordStep(manifest, "registry.deploy", "reconciled") /\ Goes(At("issue")) /\ UNCHANGED registries
       \/ /\ manifest.registry = 0 /\ Len(registries) < MaxContracts
          /\ registries' = Append(registries, [leaves |-> 0, fixture |-> FALSE, attested |-> {}])
          /\ LET addressed == [manifest EXCEPT !.registry = Len(registries')]
             IN  \/ Saved(recordStep(addressed, "registry.deploy", "receipt"), At("issue"))
                 \/ manifest' = addressed /\ Dies
    /\ UNCHANGED <<referenda, period, captured, evidenceRuns>>

\* registry.issue: the fixture's credential is added unless its path is in the tree.
Issue ==
    /\ run.stage = "issue"
    /\ \/ /\ registry.fixture /\ UNCHANGED registries
          /\ manifest' = recordStep(manifest, "registry.issue", "reconciled") /\ Goes([At("attest") EXCEPT !.path = registry.leaves])
       \/ /\ ~registry.fixture /\ registry.leaves < MaxLeaves
          /\ registries' = [registries EXCEPT ![manifest.registry].leaves = @ + 1, ![manifest.registry].fixture = TRUE]
          /\ Saved(recordStep(manifest, "registry.issue", "receipt"), [At("attest") EXCEPT !.path = registry.leaves + 1])
    /\ UNCHANGED <<referenda, period, captured, evidenceRuns>>

Attested(root) == registries' = [registries EXCEPT ![manifest.registry].attested = @ \cup {root}]

\* The initial root is the attested current one, unless a referendum has pinned one already.
AttestInitial ==
    /\ run.stage = "attest"
    /\ LET attested == [manifest EXCEPT !.attests = @ \cup {run.path}]
           pinned   == [attested EXCEPT !.initial = run.path, !.accepted = {run.path}]
       IN  \/ manifest.referendum # 0 /\ Goes(At("referendum")) /\ UNCHANGED <<registries, manifest>>
           \/ /\ manifest.referendum = 0 /\ run.path \in manifest.attests
              /\ manifest' = pinned /\ Goes(At("referendum")) /\ UNCHANGED registries
           \/ /\ manifest.referendum = 0 /\ run.path \notin manifest.attests /\ registry.leaves = run.path
              /\ Attested(run.path) /\ (Saved(pinned, At("referendum")) \/ (manifest' = attested /\ Dies))
           \/ /\ manifest.referendum = 0 /\ run.path \notin manifest.attests /\ registry.leaves # run.path
              /\ Rejected /\ UNCHANGED registries
    /\ UNCHANGED <<referenda, period, captured, evidenceRuns>>

\* assertReferendumState: what the run joins is what the manifest says.
joinable == referendum.initial = manifest.initial /\ manifest.initial \in referendum.accepted

DeployReferendum ==
    /\ run.stage = "referendum"
    /\ \/ /\ manifest.referendum # 0 /\ joinable
          /\ manifest' = recordStep(manifest, "referendum.deploy", "reconciled") /\ Goes(At("admit")) /\ UNCHANGED referenda
       \/ /\ manifest.referendum = 0 /\ Len(referenda) < MaxContracts
          /\ referenda' = Append(referenda, [registry |-> manifest.registry, initial |-> manifest.initial, accepted |-> {manifest.initial},
                                             phase |-> "COMMIT", votes |-> {}, revealed |-> FALSE])
          /\ LET addressed == [manifest EXCEPT !.referendum = Len(referenda')]
             IN  \/ Saved(recordStep(addressed, "referendum.deploy", "receipt"), At("admit"))
                 \/ manifest' = addressed /\ Dies
    /\ UNCHANGED <<registries, period, captured, evidenceRuns>>

\* A run of the prepare phase ends here, and the evidence runner goes on to the next.
Admitted ==
    IF run.upTo = "complete" THEN Goes(At("cast"))
    ELSE /\ run' = Idle /\ runner' = IF runner = "prepare" THEN "complete" ELSE runner
         /\ UNCHANGED failures

\* admitRegistryRoot, its first transaction: the latest root is attested.
Admit ==
    /\ run.stage = "admit"
    /\ \/ registry.leaves \in manifest.accepted /\ Admitted /\ UNCHANGED <<registries, manifest>>
       \/ /\ registry.leaves \notin manifest.accepted /\ registry.leaves \in manifest.attests
          /\ Goes([At("publish") EXCEPT !.root = registry.leaves]) /\ UNCHANGED <<registries, manifest>>
       \/ /\ registry.leaves \notin manifest.accepted \cup manifest.attests /\ Attested(registry.leaves)
          /\ Saved([manifest EXCEPT !.attests = @ \cup {registry.leaves}], [At("publish") EXCEPT !.root = registry.leaves])
    /\ UNCHANGED <<referenda, period, captured, evidenceRuns>>

\* publishCredentialRoot refuses a root it has and any root after the enrollment.
Publishable(f, root) == f.phase = "COMMIT" /\ period = "enroll" /\ root \notin f.accepted

Accepts(f, root) == referenda' = [referenda EXCEPT ![f].accepted = @ \cup {root}]

\* Mutant: a root is written down as accepted although its publication was rejected.
PublishAnyway ==
    /\ run.stage = "publish"
    /\ manifest' = [manifest EXCEPT !.publishes = @ \cup {run.root}, !.accepted = @ \cup {run.root}]
    /\ Admitted /\ UNCHANGED referenda
    /\ UNCHANGED <<registries, period, captured, evidenceRuns>>

\* admitRegistryRoot, its second transaction.
Publish ==
    /\ run.stage = "publish"
    /\ LET published == [manifest EXCEPT !.publishes = @ \cup {run.root}]
           accepted  == [published EXCEPT !.accepted = @ \cup {run.root}]
       IN  \/ run.root \in manifest.publishes /\ manifest' = accepted /\ Admitted /\ UNCHANGED referenda
           \/ /\ run.root \notin manifest.publishes /\ Publishable(referendum, run.root)
              /\ Accepts(manifest.referendum, run.root)
              /\ \/ manifest' = accepted /\ Admitted
                 \/ Dies /\ manifest' \in {manifest, published}
           \/ /\ run.root \notin manifest.publishes /\ ~Publishable(referendum, run.root)
              /\ Rejected /\ UNCHANGED referenda
    /\ UNCHANGED <<registries, period, captured, evidenceRuns>>

\* castVote of the fixture: it needs an open vote, an accepted root and a fresh nullifier.
Castable == referendum.phase = "COMMIT" /\ period \in {"enroll", "vote"} /\ run.path \in referendum.accepted /\ "fixture" \notin referendum.votes

Casts(voter) == referenda' = [referenda EXCEPT ![manifest.referendum].votes = @ \cup {voter}]

\* verifyLifecycle: the fixture votes unless somebody has.
Cast ==
    /\ run.stage = "cast"
    /\ \/ /\ referendum.phase # "COMMIT" \/ referendum.votes # {}
          /\ manifest' = recordStep(manifest, "lifecycle.cast", "reconciled")
          /\ Goes(At("replay")) /\ UNCHANGED <<referenda, captured>>
       \/ /\ referendum.phase = "COMMIT" /\ referendum.votes = {} /\ Castable /\ Casts("fixture") /\ captured' = TRUE
          /\ Saved(recordStep(manifest, "lifecycle.cast", "receipt"), At("replay"))
       \/ /\ referendum.phase = "COMMIT" /\ referendum.votes = {} /\ ~Castable
          /\ Rejected /\ UNCHANGED <<referenda, captured>>
    /\ UNCHANGED <<registries, period, evidenceRuns>>

\* A second vote of the fixture must fail; any failure counts as the contract's rejection.
Replay ==
    /\ run.stage = "replay"
    /\ \/ /\ referendum.phase # "COMMIT" /\ manifest.replayRejected
          /\ Goes(At("close")) /\ UNCHANGED <<referenda, captured, manifest>>
       \/ /\ Castable /\ Casts("fixture") /\ captured' = TRUE /\ Rejected
       \/ /\ (~Castable \/ failures < MaxFailures)
          /\ failures' = failures + (IF Castable THEN 1 ELSE 0)
          /\ manifest' = [manifest EXCEPT !.replayRejected = TRUE]
          /\ run' = At("close") /\ UNCHANGED <<referenda, captured, runner>>
    /\ UNCHANGED <<registries, period, evidenceRuns>>

\* One milestone of verifyLifecycle: a phase that is gone is reconciled, one that is there is
\* acted on when the contract allows it.  awaitScheduleDeadline ends a run that comes early.
Milestone(at, from, ready, effect, id, next) ==
    /\ run.stage = at
    /\ \/ /\ referendum.phase # from /\ manifest' = recordStep(manifest, id, "reconciled")
          /\ Goes(At(next)) /\ UNCHANGED referenda
       \/ /\ referendum.phase = from /\ ready
          /\ referenda' = [referenda EXCEPT ![manifest.referendum] = effect]
          /\ Saved(recordStep(manifest, id, "receipt"), At(next))
       \/ /\ referendum.phase = from /\ ~ready /\ Rejected /\ UNCHANGED referenda
    /\ UNCHANGED <<registries, period, captured, evidenceRuns>>

CloseVote == Milestone("close", "COMMIT", period \in {"count", "over"}, [referendum EXCEPT !.phase = "REVEAL"], "lifecycle.close", "reveal")

RevealVote ==
    /\ run.stage = "reveal" /\ (referendum.phase # "REVEAL" \/ ~referendum.revealed)
    /\ Milestone("reveal", "REVEAL", "fixture" \in referendum.votes, [referendum EXCEPT !.revealed = TRUE], "lifecycle.reveal", "finalize")

\* Mutant: a ballot that has been revealed is an error like any other.
AlreadyRevealedThrows ==
    /\ run.stage = "reveal" /\ referendum.phase = "REVEAL" /\ referendum.revealed /\ Rejected
    /\ UNCHANGED <<chain, captured, evidenceRuns>>

\* The contract's word that the ballot has been revealed is as good as a receipt.
AlreadyRevealed ==
    /\ run.stage = "reveal" /\ referendum.phase = "REVEAL" /\ referendum.revealed
    /\ manifest' = recordStep(manifest, "lifecycle.reveal", "reconciled") /\ Goes(At("finalize"))
    /\ UNCHANGED <<chain, captured, evidenceRuns>>

FinalizeVote == Milestone("finalize", "REVEAL", period = "over", [referendum EXCEPT !.phase = "FINALIZED"], "lifecycle.finalize", "seal")

\* finalizeLifecycleManifest; the manifest stays in progress.
Seal ==
    /\ run.stage = "seal" /\ referendum.phase = "FINALIZED"
    /\ manifest' = [manifest EXCEPT !.sealed = TRUE] /\ run' = Idle
    /\ UNCHANGED <<chain, runner, captured, failures, evidenceRuns>>

\* The evidence runner: a new manifest, one run of each phase, and the completion.
StartEvidence ==
    /\ run.stage = "stopped" /\ runner \in {"off", "failed"} /\ evidenceRuns < MaxEvidence
    /\ evidenceRuns' = evidenceRuns + 1 /\ runner' = "prepare" /\ captured' = FALSE /\ manifest' = NoManifest
    /\ UNCHANGED <<chain, run, failures>>

\* assertCompletePassportV2DeploymentManifest: addresses, roots, transcript and receipts.
hasAddresses(m) == m.registry # 0 /\ m.referendum # 0

hasProvenance(m) == \A root \in m.accepted \ {m.initial} : root \in m.publishes /\ root \in m.attests

hasTranscript(m) == (\A id \in Milestones : m.steps[id] # "none") /\ m.replayRejected

hasReceipts(m) == \A id \in {"lifecycle.cast", "lifecycle.close", "lifecycle.reveal", "lifecycle.finalize"} : m.steps[id] = "receipt"

isComplete(m) == hasAddresses(m) /\ hasProvenance(m) /\ hasTranscript(m) /\ hasReceipts(m) /\ m.sealed

\* finalizeManifest marks the manifest complete and then has it validated.
FinalizeEvidence ==
    /\ run.stage = "stopped" /\ runner = "complete" /\ manifest.sealed
    /\ IF captured THEN manifest' = [manifest EXCEPT !.complete = TRUE] ELSE UNCHANGED manifest
    /\ runner' = IF captured /\ isComplete(manifest) THEN "done" ELSE "failed"
    /\ UNCHANGED <<chain, run, captured, failures, evidenceRuns>>

\* The rest of the world, which knows the contracts the manifest names: enrollments, votes,
\* the root publisher, the schedule.
Enroll ==
    /\ manifest.registry # 0 /\ registry.leaves < MaxLeaves
    /\ registries' = [registries EXCEPT ![manifest.registry].leaves = @ + 1]
    /\ UNCHANGED <<referenda, period, manifest, script>>

OthersVote ==
    /\ manifest.referendum # 0 /\ referendum.phase = "COMMIT" /\ period \in {"enroll", "vote"} /\ "other" \notin referendum.votes
    /\ Casts("other")
    /\ UNCHANGED <<registries, period, manifest, script>>

PublishOther ==
    /\ manifest.referendum # 0 /\ Publishable(referendum, registry.leaves)
    /\ Accepts(manifest.referendum, registry.leaves) /\ Attested(registry.leaves)
    /\ UNCHANGED <<period, manifest, script>>

PeriodEnds ==
    /\ period # "over"
    /\ period' = CASE period = "enroll" -> "vote" [] period = "vote" -> "count" [] period = "count" -> "over"
    /\ UNCHANGED <<registries, referenda, manifest, script>>

ScriptStep ==
    \/ DeployRegistry \/ Issue \/ AttestInitial \/ DeployReferendum \/ Admit \/ Publish \/ Cast \/ Replay
    \/ CloseVote \/ RevealVote \/ AlreadyRevealed \/ FinalizeVote \/ Seal

ONext ==
    \/ ScriptStep \/ Fail \/ \E p \in {"prepare", "complete"} : Begin(p)
    \/ StartEvidence \/ FinalizeEvidence \/ PeriodEnds
    \/ Enroll \/ OthersVote \/ PublishOther

\* A run goes on, the operator starts another until it is done, and time passes.
OFairness == WF_ovars(ScriptStep) /\ SF_ovars(Begin("complete")) /\ WF_ovars(PeriodEnds)

OSpec == OInit /\ [][ONext]_ovars /\ OFairness

-----------------------------------------------------------------------------

\* Wherever the runs have died, the manifest tells the truth about the chain: its referendum
\* reads its registry and was given its initial root, every root it calls accepted is accepted
\* and attested, and a receipt of the fixture's ballot stands for one (deploy-passport-v2.mjs).
JournalIsTrue ==
    /\ manifest.registry # 0 => manifest.attests \subseteq registry.attested
    /\ manifest.referendum # 0 =>
         /\ referendum.registry = manifest.registry /\ referendum.initial = manifest.initial
         /\ manifest.accepted \subseteq referendum.accepted \cap registry.attested
         /\ manifest.publishes \subseteq referendum.accepted
         /\ manifest.steps["lifecycle.cast"] = "receipt" => "fixture" \in referendum.votes

\* A restarted run is safe: once the fixture has voted in the referendum of the manifest,
\* running the script again finishes it, unless its evidence is thrown away, as long as
\* the registry keeps the last root the manifest knows (deploy-passport-v2.mjs).
JournaledRunFinishes ==
    (manifest.referendum # 0 /\ manifest.steps["lifecycle.cast"] = "receipt")
        ~> (manifest.sealed \/ manifest.referendum = 0 \/ registry.leaves \notin manifest.accepted)
=============================================================================
