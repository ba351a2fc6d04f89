# Verification of the Midnight referendum application

TLA+ models of this repository, from the contracts to the screens, checked with
TLC on small instances. Every safety property and action property that a passing
run checks is also proved with TLAPS for every value of the constants, two of
them under a hypothesis section 4 states; what is only model-checked is liveness.
Paths are relative to the repository
root.

## 1. The system

| Component | State | Operations | Interacts with |
|---|---|---|---|
| Referendum contract V2, `contracts/referendum-v2` | accepted and revoked roots, schedule, ballot tree, nullifiers, tally, phase | `castVote`, `publishCredentialRoot`, `revokeCredentialRoot`, `closeEnrollment`, `closeVote`, `revealVote`, `finalizeVote` | voters, publisher, organizer, anybody |
| Referendum contract V1, `contracts/referendum`, and its scripts | issued tokens, ballots, tally, phase; files of secrets | issue, cast and count through `/balance` and `/submit` | relayer, one DUST coin |
| Credential registry V1, `contracts/credential-registry-v1` | append-only tree of leaves, frozen root | `addCredential`, `attestCurrentRoot`, `freeze` | issuer, publisher |
| Sponsored relay, `relayer/src` | durable jobs and consumed capabilities; queue, timers and bytes in memory | `accept`, wallet stage, `reconcile`, `start`, polls | browser, node, indexer, wallet |
| Fee wallets and operator tools, `relayer/src/register-dust.ts` and others | UTXOs and DUST of a wallet, as far as its replay of the chain has come | fund, register, book and return coins | chain, relay |
| Credential issuer, `cico-service/src` | operations in memory, claims and issuances in files | `issueCredential`, `closeAndFreeze` | registry, through an executor it shares with the publisher |
| Root publisher, `cico-service/src/credential-root-publisher.ts` | last published root and count, pending batch, all in memory | one cycle per timer tick | registry, every referendum |
| File stores, `cico-service/src/durable-stores.ts`, `relayer/src/v2-store.ts` | a JSON file, a lock file, temporary files | locked read, modify, replace; recovery of stale locks | several processes |
| Rarimo gateway, `cico-service/src/rarimo-http-gateway.ts` | verification contexts and authorizations in memory | create, status, evidence, authorize, delete | browser, verificator, issuer |
| Vote client, `api/src/passport-v2` | private state, pending actions, locks, receipts | cast through the wallet or the relay, recover | relay, contracts, browser storage |
| Credential adapter, `api/src/passport-v2/rarimo-credential-adapter.ts` | enrollments, active and restored credential, vault | begin, check, issue, restore, clear | gateway, issuer, journey on screen |
| Wallet session, passport session, document, onboarding, screens, pulse, `ui/src` | React state, refs, local and session storage | clicks and late answers | wallet extension, Passport, camera |
| Deployment and evidence, `scripts/*.mjs`, `deployment-manifest.ts` | the manifest saved after each step | deploy, issue, attest, admit, lifecycle, finalize | both contracts |
| Capability issuer, HTTP layers, derivations, catalogue | none | parse, sign, hash, present | not modelled, section 6 |

What is hard here: the relay interleaves at every await and survives a death of
its process; the answer of the node may be lost; the publisher acts on a root it
read several awaits ago while the issuer adds credentials; issuer and publisher
share one slot of private state; the organizer and the publisher change the
electorate of a running vote with different keys; everything on chain is a race
with block time; in the browser a wallet, a Passport window, a camera, a vote
and an enrollment answer long after the user has left, reloaded, retried or
cleared; scripts die between a transaction and the record of it; and file locks
are taken over from the dead. `PROJECT.json` lists the hazards, each at its line.

What makes each part correct:

* the relay sends each transaction at most once, confirms only what the indexer
  saw, never balances two jobs against the same DUST, and forgets no job;
* a referendum gives each voter one ballot, counts exactly what was opened,
  keeps to its published deadlines and needs no organizer to end; version 1
  counts truly and wholly, whatever its scripts do;
* the publisher admits only attested roots and, in the end, everybody;
* the issuer answers each enrollment with one credential that is on the ledger;
* the vote client shows a receipt only for a ballot that landed, has one live
  action per poll, and no attempt of it waits but for a call out of the browser;
* the credential adapter keeps only credentials that open a leaf on the ledger
  and that were issued on its own evidence, and the journey on screen follows
  only its own answers;
* wallet, providers, session, camera and screens belong to the newest attempt;
* an update of a file is atomic, a deployment's journal is true of the chain,
  and a run that died is finished by the next.

## 2. Modules

| Module | Models |
|---|---|
| `SponsoredAction` | abstract: what the relay promises about one action |
| `RelayerV2` | `v2-service.ts`, the store (`v2-store.ts`, `v2-postgres.ts`), the resolver (`v2-indexer.ts`), crash and restart |
| `RelayerV2Proofs` | theorems about `RelayerV2`, and that it implements `SponsoredAction` |
| `ReferendumV2`, `ReferendumV2Proofs` | `referendum-v2.compact` and theorems about it |
| `ReferendumV1` | `referendum.compact` as compiled, `issue-`, `cast-` and `count-referendum.mjs`, the legacy routes of `relayer/src/server.ts` |
| `ReferendumV1Proofs` | theorems about `ReferendumV1` |
| `CredentialRegistryV1` | `credential-registry-v1.compact`; its circuits are actions that the next two modules compose |
| `CredentialRootPublisher` | `credential-root-publisher.ts` with the registry and the referenda |
| `CredentialRootPublisherProofs` | theorems about it |
| `CredentialIssuer` | `credential-issuer-service.ts`, `credential-epoch-coordinator.ts`, the stores as atomic steps, with the registry |
| `CredentialIssuerProofs` | theorems about it |
| `FileLock` | the lock file, temporary files and rename below the stores of both services |
| `VoteClient` | from the choice on screen to the receipt: `CivicRuntime.tsx`, `VoteFlow.tsx`, the action adapter, executors, direct and sponsored providers, private state, receipt vault |
| `Enrollment` | credential adapter, Rarimo gateway, HTTP ports, vault, `PreviewPassportJourney.tsx` |
| `ClientProofs` | theorems about `VoteClient` and `Enrollment` |
| `WalletSession` | `wallet-context.tsx`, provider runtime |
| `PassportBridge` | the handshake with Passport, framed or in a window |
| `Mrz`, `DocumentJourney` | check digits, dates and ages of a machine readable page; camera, reading and confirmation |
| `Onboarding` | the unified onboarding and its history in each build of the application |
| `CivicFront` | which screen is open, the catalogue guide, removal of local data |
| `CivicPulse` | the questionnaire and the reflection in local storage |
| `SessionsProofs` | theorems about the six rows above it |
| `DustWallet` | registration of DUST from a wallet that replays the chain |
| `Deployment` | `deploy-passport-v2.mjs`, `deployment-manifest.ts`, `evidence-undeployed-v2.mjs` over both contracts |
| `OpsProofs` | theorems about `FileLock` and `Deployment` |
| `MC*` | the instances TLC checks; `MCLive` and `MCClient` put the parts side by side whose liveness, or whose safety in the browser, one run checks |

`PROJECT.json` maps every definition to the lines it stands for. Definitions
marked *Mutant* are plausible bugs; each replaces one mapped definition to show
that a property depends on it, and none is part of a specification.

**Conventions.** An action is the code between two awaits, one circuit, or one
call of the file system. Where a store method is a database transaction, or runs
under the file lock, it is one step; `FileLock` is the reason why it may be.
Hashes, commitments and signatures are collision free and are represented by
what they are computed from: a registry root is the sequence of its leaves, a
ballot commitment its opening, a nullifier the secret, a role key the pair of
domain and secret. Failed calls are counted as *faults* and bounded, as are
restarts, deliveries, clicks that start something, and time.

**Sums.** Some MC modules put several specifications side by side that share no
variable. A behaviour of such a product projects onto one of each part, and each
property is about one part, so nothing is lost by exploring one part while the
others rest: a variable (`active`, `side`) chosen by Init says which. Fairness
is stated for the part that is active.

**RelayerV2.** `jobs` and `consumed` are the store; the other variables are the
maps, queue and timers of `V2ActionService`, plus `chain` and `submits` for what
the network has seen. `CreateJob`/`FindJob`, `CheckKey`, `ConsumeCapability`,
`RejectReplay` and `Attach` are the awaits of `accept`; `Stage*` those of
`runWalletStage`; `ReconcileRead`, `ResolverAnswers`, `ResolverThrows` and
`ReconcileApply` those of `reconcile`; `Start*` those of `start`. `NodeReceives`
is separate from the answer of `submit`, so that every combination of sent,
answered and died is reached. A job's transaction is named after the job;
`AlienTx` is an identifier the node should not have answered. One process runs
at a time, as `docs/DEPLOYMENT.md:154` requires.

**ReferendumV2.** Init ranges over every schedule the constructor accepts. The
variable `electors` is a history of who cast which ballot and is not part of the
ledger. `FreshSalt` says that 32 random bytes do not repeat: two equal
commitments would be counted once by `revealVote`.

**ReferendumV1.** A circuit is executed twice: by the script on the state it
read, and by the chain on the state it finds. The scripts go through the routes
of the relayer, whose wallet has one DUST coin; a script may be killed at any
point and started again, and the relayer restarted.

**CredentialRootPublisher.** `cycle` is the local state of `runCycle`. The
issuer (`Issue`), the coordinator (`FreezeRegistry`), the organizer
(`CloseEnrollment`, `RevokeRoot`), the clock and restarts interleave with it.
A call that throws may have been applied (`AttestFails`, `PublishFails`).
Of a referendum only what decides `publishCredentialRoot` is kept.

**CredentialIssuer.** `op` is the `issueOnce` under way (the service's queue
allows one), `boundary` says who is inside the coordinator, `privateState` is
the slot of the shared executor. A transaction is sent by `Call` or
`FreezeCall`, and applied or refused by the ledger at any later time, also after
its caller gave up or died. What the evidence gateway accepts is left open.

**VoteClient.** `ui` and `page` are the React state, `op[a]` the call stack of
attempt `a` (from `confirmVote` through `castVote`, the lock, `join`, the
circuit, `submitTx` and the wait for a receipt to the vault), `queue` the
promise chain of the lock, `pendingStore`, `privateState` and `vault` the
stores, `job` and `ledger` what became of a transaction outside. The relay is
what its two HTTP endpoints show; `Land`, `Drop` and `Arrives` are external. A
request whose call failed may still be on its way (`travelling`) and reach the
relay after a retry was told that it knows nothing of the action (`late`). The
watch over a direct transaction has no time limit, so one that no block ever
holds keeps its attempt, and the line of its provider, for good; the requests to
the relay have none either. The key of a pending action holds the handle of the
credential too: a page that loses its credential has none again before it is
reloaded, so one handle per page is enough.

**Enrollment.** `begin`, `poll` and `clearing` are the three asynchronous
operations of the adapter, `st`, `inMap`, `live` and `active` its maps,
`restored` and `kept` memory and vault; `adapter` is the one the application
uses and `home` the one a call was made to, since `CivicRuntime.tsx:243` builds
another, with an empty memory, when the wallet or its providers change
(`ReplaceAdapter`), and a call under way goes on with the old one; `screen`, `shown`, `attempt` and `owner`
the journey. `world` is the verificator, which may answer with a proof made for
somebody else; the service may be restarted and forget its contexts.

**Wallet, session, document.** In `WalletSession` each answer of the extension
belongs to an attempt number and may come at any time; each state is assumed to
be rendered before the next answer arrives, and `refreshBalances`, which nothing
calls, is left out. In `PassportBridge` a handshake has its window or frame, its
listeners and its deadline; `getHolderBinding` changes no state. In
`DocumentJourney` going back in the browser is slower than a render. `Mrz`
covers pages of holders under a hundred years, read with at most one wrong
digit. A passport that expires today has expired: the code compares the midnight
its last day begins with to the present instant.

**DustWallet.** A wallet knows a prefix of its history. A wait that nothing can
end any more times out for certain; any other times out at most `MaxTimeouts`
times. One tool runs at a time, by an operator who repeats it; `fund-undeployed`
calls the wallet SDK without a limit, so for it a time-out is the operator who
stops it, and the SDK is assumed to answer when it is left alone.

**Onboarding, CivicFront, CivicPulse.** Attempt counters are abstracted to
"current" and "outdated" calls. `CivicFront` knows journey and vote flow as
screens only, with one removal and one vote under way at once. In `CivicPulse`
`finish` is one step, since its adapter answers without a network, and the cap
on priorities (3 in the code) is a constant.

**FileLock.** One action per call: create exclusively, write the owner, read,
write the temporary file, rename, unlink, stat, judge. The store is the relay's
or the credential service's; they differ in how a stale lock is judged.

**Deployment.** `manifest` is the file, `registry` and `referendum` the chain.
A run may end at any call, after the transaction and before `recordStep`. Others
enroll, vote and publish meanwhile. Only open enrollment is modelled: a manifest
of the frozen model is refused at its first save.

## 3. Runs

| Run | Instance | Shows |
|---|---|---|
| `relay` | two votes and a request that clashes with both, two handlers, three requests of which one may be a poll, one death | at most one submission; what may be replayed has sent nothing; lease exclusive and kept while a transaction is unsettled; receipts backed by the indexer; no pending job forgotten; refinement of `SponsoredAction` |
| `live` | relay: two requests of two votes, one of them maybe a poll, a death; vote: two polls, two attempts, the first on a given one, since polls are interchangeable; publisher: two referenda, two credentials, time 2, a fault and a restart; fair where stated | a job whose transaction is indexed settles; an attempt to vote ends unless a call out of the browser, made on its provider, never returns; admitted roots are attested prefixes of the registry, small batches are flagged, and without a lost call everybody is admitted |
| `relay_lease` | *violation* | finding 1 |
| `referendum` | V2: two voters, four credentials, three roots, every schedule up to time 3, two leaves. V1: two voters and an organizer, one coin, two starts each, deaths. Fair for V2 | V2: one ballot per voter, exact tally, no vote after an opening, the electorate settles, the count ends. V1: the tally is true, and a count that ended well has opened all it was given |
| `issuer` | three calls that share an enrollment or evidence, a lost answer, a restart; fair | answers are on the ledger and unique per enrollment, and evidence serves one holder; a freeze leaves no answer out; calls settle |
| `client` | vote: one poll, two answers, two attempts, one event; enrollment: two enrollments, two adapters, one second, three disturbances | receipts are of landed ballots; one live action per poll; a kept credential opens its leaf and was issued on its own evidence; a credential reported ready can be used through the adapter that was asked |
| `vote_retry` | *violation* | finding 2 |
| `enroll_retry` | *violation* | finding 3 |
| `enroll_ready` | *violation* | finding 5 |
| `sessions` | three wallet attempts; three handshakes; eight pages; four wallet histories; four builds; two messages; two edits of the pulse; fair where stated | the wallet shown is the newest, and providers and sponsored mode are its own; sessions stand on the user's consent to that handshake; cameras are released; a page read is that of a valid adult; a funded wallet pays in the end; a session arrives where it is awaited; no screen is left open behind another; what is marked saved is saved and reads back |
| `ops` | three updates, two pids, two deaths of the relay; two contracts, two leaves, one failure, one evidence run; fair | a claim is granted once; an orphaned lock is recovered; the journal is true of the chain; a journaled run finishes |
| `lock_race` | *violation* | finding 4 |

The type of every variable is documented where it is declared or by the type
invariant of its module; that of `RelayerV2` is part of a run. `RelayerV2` and
`ReferendumV2` have a type theorem of their own; in the other modules the types
of the variables a proof reads are part of its invariant.

**Why the bounds are enough.** Two jobs are the least for which the lease and
clashes matter, and three requests allow two votes and a concurrent retry
or poll; the two handlers are interchangeable, which `relay` uses as a
symmetry; one death reaches every await, and a second adds only what a
start-up interrupted half way adds, which `Crash` during `starting` covers. In
the referendum every deadline may coincide with every other or not within three
ticks, and two voters with two credentials each give double votes a chance; two
leaves are the least number that two ballots fill. In the publisher the batch
minimum is two and the registry grows to two, so batches that are short, exact
and overdue occur. In the issuer three blinds allow a lost credential, its retry
and a stranger. Two attempts to vote are a first and its retry, two enrollments
an attempt and the one that replaces it; three disturbances are enough for a
reload or a clear, a lost answer and an expiry in one behaviour, and a second
adapter is the least that makes a check and a vote disagree. Three connects or
handshakes allow one outdated call on either side of the current one. Three
updates are one that died, one that recovers and one that comes in between.
In `ops` the credential service has one process and does not die: its recovery
of a lock is a race, which `lock_race` shows. `EnrolledEventuallyAdmitted`
excuses behaviours with a lost call, since a lost publication is never repeated.
The runs switch off deadlock checking because all these systems may stop: what
the environment does is bounded.

**Fairness.** Weak fairness of what the event loop has queued and of timers that
are set; of block production; of `closeVote` and `finalizeVote`, which anybody
can call; of the ledger's decision on a transaction it received; of a
supervisor restarting the relay; of the steps of an attempt to vote that stay in
the page, and of no call it makes to the indexer, the prover, the wallet, the
relay or the chain; of a wallet's replay; of the waits of a
script and of a lock growing old. Strong
fairness is used four times: an indexer that is asked again and again answers in
the end (`live`), an issuance gets its turn in the coordinator (`issuer`), whose
queue is first in first out, and an operator who may start a script again does
so in the end (`register-dust` in `sessions`, the completing deployment in
`ops`). No fairness is assumed of users, organizers, crashes or faults.

## 4. Proofs

The theorems are of the form `Spec => []Inv`, `Spec => [][A]_vars` or
`Spec => Promise!Spec`, and hold for all values of the constants that satisfy the
named assumptions of the modules: any number of jobs, handlers, voters, roots,
attempts, referenda, tasks, deaths and clicks. Each module has one inductive
invariant per component, written as a conjunction of named parts and commented
where it is defined; an action, or a group of actions that disturb the same
parts, is one lemma. What a property lacks to be inductive is said below.

**RelayerV2Proofs.** `TypeCorrect`, `AtMostOnce`, `ReplayIsSafe`,
`LeaseExclusive` rest on `SafeInv`. That a transaction is sent at most once needs
that the counter is still zero whenever the wallet stage is about to send:
`Anchored` (what handlers, the wallet stage and reconcile calls refer to exists
in the journal), `StageFits` (each point of the wallet stage fixes the status of
its job, and before the call of `submit` nothing was sent) and `ErrorFits` (a job
parked with `recovery_required` never passed the submission intent). The step
from `authorized` to `submitted` is only ever taken by the one wallet stage under
way, and compare-and-set keeps every other writer of the job out.

`ReceiptsBacked` says that a job is confirmed exactly when it has a receipt, and
that both a receipt and a failure that names the indexer are what the chain says
of the identifier in its journal, after its transaction was sent once. When no
identifier could be derived that is the one the node answered with, which may be
`AlienTx`: nothing in the code compares it with the transaction sent.
`ReceiptsBacked` and `UnsettledHoldsLease` need in addition `LinkInv`, which ties
a job to the identifier its transaction is known by: the indexer has heard of a
transaction exactly when it was sent (`NetworkFits`), an identifier is the job's
own or the foreign one a node answered with, which it only does after the
transaction was sent (`TxidFits`), the wallet stage and the journal agree
(`WalletFits`), and the verdict of a `reconcile` under way is still what the
indexer says (`TasksFit`). `PendingWatched` needs `StartWatches`: while `start()`
is still running, the jobs it has yet to visit are watched by its own loop.
`RelayKeepsPromise` is the refinement of `SponsoredAction`: the initial states
map to its initial state, and each step to a step of one action or to a stutter.
The step that confirms is the one that needs `LinkInv`, to know that what the
indexer saw was sent.

**ReferendumV2Proofs.** `TypeCorrect`, `OneVoterOneBallot`,
`ElectorateStaysSound`, `TallyExact`, `NoEarlyEnd`, `NoPeeking`, `ResultStays`,
`RevocationWorks`, `ElectorateStaysSettled`. `SafeInv` strengthens the listed
properties by `PhaseFits` (nothing is revealed in the commit phase, the flag
`closed` agrees with the phase), `NullifiersFit` (the spent nullifiers are those
of the electors so far) and `CountFits` (the tally of a choice is the number of
revealed commitments of that choice, and revealed commitments are among the
ballots). Counting needs `OccurringBound`: a set of values that all occur in a
sequence has at most its length as cardinality. The action properties follow
from `SafeInv` and the guards.

**ReferendumV1Proofs.** `V1TallyIsTrue`, `V1CountIsWhole`. A transaction is built
on a state that is old when a block takes it, so the invariant speaks of what
each transaction under way has read: its assertions held there, and a reveal
writes one more vote than it read (`TxFits`, for transactions in flight and in
the hands of scripts). The chain takes a transaction only if what it read still
stands, which makes the written tally the new one. For the count, what the script
has still to do is the end of what it was given, and what comes before has taken
effect (`CountFits`); only the organizer's calls end a phase, and effects are
never undone.

**CredentialIssuerProofs.** `IssuedIsOnLedger`, `IssuedOnce`, `FreezeIsFair`.
An answer is given after the journal says the leaf is on the ledger, and it says
so after a transaction with this very leaf was applied; the lost answers and
deaths between these steps are why the invariant follows a leaf through the
operation (`LeafFits`, `WitnessFits`, `AwaitFits`), the transactions in flight and
applied (`ChainFits`), the journal and the answers. `Bound` says that each of them was
claimed for, and a claim is never given to anybody else. `MemoryFits` says
who is inside the coordinator. The slot of the shared executor then holds the
witnesses of the operation that calls, or those the publisher joined with, with
which `addCredential` fails: no other leaf is sent than the one that was meant.

**CredentialRootPublisherProofs.** `PublishedIsAttested`, `UndersizedIsFlagged`.
Between reading a root and publishing it the registry grows: the root of a cycle
is a beginning of the registry (`Beginning`, preserved by every `Append`), and it
is among the attested ones from the step that attests it (`CycleFits`). Flagging
needs that what any referendum has is counted by `lastPublishedCount`, or belongs
to the cycle under way (`Counted`), including the roots whose publication threw;
a restart loses this, as the code does.

**ClientProofs.** `VoteClient`: `ReceiptsAreBacked`, `OneLiveAction`. Who proves,
sends or waits holds the lock of its provider (`Locked`: the head of the line), and
so the stored pending action is that of every action that is asked for, awaited
or undecided (`RecordsFit`), but for those whose request came late; a transaction is sent once and for the poll of its
attempt (`JobsFit`), and what is awaited was sent (`ActionsFit`).
`Enrollment`: `KeptCredentialStands`, `ReadyIsUsableHolds`, for any number of
adapters. The second is about the adapter the check was made to; that it need not
be the one a vote uses is finding 5. An enrollment is
begun once, so its verification, evidence and leaf are settled in that order
(`Begun`, `Proven`, `ChecksFit`), and no check writes other claims for what is
kept already (`KeptFits`); the secrets of a record live as long as it can be used
(`RecordsLive`).

**SessionsProofs.** `NothingLeftBehind`, `WalletIsFollowed`, `SessionIsApproved`,
`SessionsArriveAwaited`, `CameraIsReleased`, `SavedMarkStaysTrue`,
`ReadPagesAreEligible`, and `MisreadIsFound`. The late answers decide these: a
wallet on screen is of an attempt that has answered (`WalletInv`); an approval
under way is one the user gave (`BridgeInv`); a call counts as current only while
the journey waits for it (`JourneyInv`); a stream is held only when the request
it came from is answered (`CameraInv`); the complete screen of the pulse is the
last of its trail and shows a draft the adapter accepts (`PulseInv`).
`NothingLeftBehind` needs the types only. It excepts what the code does leave
behind another screen: the flow of a vote that ends while something else is
shown, and the policy from which a journey was opened.
`MisreadIsFound` is about the check digits, for any digits: a field of which one
digit was misread, in the field or in its check digit, passes only if it is read
as printed. The weights 7, 3, 1 have no common factor with 10; the fold over the
six positions is unrolled, so no induction is needed. `ReadPagesAreEligible`
combines it with the reading of two-digit years.

**OpsProofs.** `EvidenceClaimedOnce`: an update that has read the file is the
only one that writes until it has renamed, in the relay because its updates are
queued (`QueueInv`), in the credential service because the task that created the
lock is the only one inside (`OneProcess`). `ManifestIsTrue`: the manifest is true
of the chain when written (`TrueOf`), what a run under way is about to record is
true (`ReliesOn`), and the chain only grows (`Grows`), so neither becomes false
while others act.

**Assumptions.** One capability authenticates one request
(`CapabilityBinding`), and identifiers are distinct (`DistinctValues`); members of
roots are credentials of voters (`CredentialsAssumption`), the ballot tree has room
for at least one leaf (`BoundAssumption`) and the role keys differ
(`RolesAssumption`, asserted by the constructor). In version 1 the organizer is
no voter (`V1Assumption`). The issuer's secret is the one the registry was
deployed for and is not empty (`IssuerAssumption`); minimum batch and wait are
positive (`PublisherAssumption`). The pulse offers at most five values and five
areas (`PulseAssumption`; the code offers five and four), so that a choice of
them fits in what the adapter reads back. The others say that bounds are natural
numbers, sets of tasks finite, and that the marks for "nothing" are not values.

**Hypotheses.** Two theorems have one in addition.

* `CredentialLives` (`EvidenceClaimedOnce`): the process of the credential
  service does not die. Without it the property is false, which is finding 4; the
  relay needs no such hypothesis.
* `PagesOfTheCentury` (`ReadPagesAreEligible`): nobody is born after the year of
  the reading, and a passport that has expired has done so in the century of the
  reading and within fifty years. The code says why it may read years as it does
  ("A birth date is always in the past; an expiry within a passport's lifetime",
  `ui/src/integration/mrz.ts:112`). A passport that expired in 19yy would be read as
  valid until 20yy.

The instances of `ops` and `sessions` satisfy both.

**Only model-checked.** Liveness, which is outside the prover's reach (fairness,
`ENABLED`): `VoteSettles`, `AttemptsEnd`, `V2CountEnds`,
`EnrolledEventuallyAdmitted`, `IssuanceSettles`, `FundedWalletPays` (all that is
said of `DustWallet`), `OrphanLockRecovered`, `JournaledRunFinishes`. **Only
proved**, because a run would add nothing: `ElectorateSound`, `DeadlinesHonoured`,
`ResultIsFinal`, `RevokedAdmitsNobody` and the types of `ReferendumV2`, and
`MisreadIsFound`, of which the pages of `sessions` are instances.

## 5. Findings

1. `relay_lease`, `relayer/src/v2-service.ts:291`. A job that is refused the
   DUST lease has already moved to `validated`, and the timer that is to run it
   again runs a stage that accepts `authorized` only. Votes that arrive while
   another one waits for its confirmation are stuck until a restart parks them.
2. `vote_retry`, `api/src/passport-v2/midnight-civic-action-adapter.ts:170`. A
   retry or a second vote draws a new salt and overwrites the stored opening
   before the circuit or the pending action has a say; the ballot that is on the
   ledger can no longer be opened from this browser.
3. `enroll_retry`, `api/src/passport-v2/rarimo-credential-adapter.ts:305`. Each
   check writes a new `validFrom` into the claims, which the issuer
   fingerprints; the retry after a lost answer is refused for ever.
4. `lock_race`, `cico-service/src/durable-stores.ts:622`. A waiter that judged
   the lock of a dead process unlinks the lock a faster waiter has just taken.
5. `enroll_ready`, `ui/src/CivicRuntime.tsx:275`. When the wallet changes while
   the journey checks an enrollment, the new credential adapter reads the vault
   (line 298) before the old one writes it, and remembers that it is empty. The
   journey says "Your credential is ready"; every vote is refused for want of a
   credential until the page is loaded, or the providers are built, again.

Other disagreements met while modelling:

* a vote whose attempt ends while the settings are in front puts its flow behind
  them, and a journey opened from a policy leaves the policy behind it
  (`CivicRuntime.tsx:473` and `:182`): `NoScreenForgotten` excepts both;
* a concurrent exact retry may consume the capability first, and the creator of
  the job then fails it as a replay (`relayer/src/v2-service.ts:180`, against the
  comment at `:192`);
* after `closeEnrollment` roots can be revoked until the scheduled deadline
  (`contracts/referendum-v2/referendum-v2.compact:361`, against ADR-007);
* a root whose publication failed is remembered as published
  (`cico-service/src/credential-root-publisher.ts:358`, against `:182`);
* of two overlapping calls of `beginEnrollment` the older may become the active
  one (`rarimo-credential-adapter.ts:160`, against the comment at `:158`);
* a deployment started again after others enrolled admits the later root and
  leaves a manifest its own checks refuse
  (`scripts/deploy-passport-v2.mjs:649`, against line 2 of the file).

Hazards without a property carry a note why: waits without a time limit,
and states the code neither prevents nor promises to prevent.

## 6. Not modelled, and what is left

Not modelled because there is no protocol state: parsing, validation and
formatting of requests, the capability issuer (a stateless signer),
cryptographic derivations, configuration, presentation of results, theme, locale
and country filter, copy and layout, generated code (read where it decides how a
circuit executes), tests. Not modelled because it is the same again: the
canonical receipt store, the relay evidence of the evidence runner, the fixture
adapter of the tests. Not modelled because it is far away: the expiry of an
issued credential, a year later. External: the wallet SDK, the node and the
indexer, the verificator, the text recogniser and the camera of the browser.

Left, in this order:

1. type theorems of the remaining modules, stated apart from the invariants that
   now contain them;
2. abstract specifications of the issuer (one answer per enrollment) and of the
   file store (an update is one step), each shown to be implemented as
   `SponsoredAction` is by the relay;
3. what the ledger of the second referendum promises a voter, joined with
   `VoteClient`, where both are now proved apart.
