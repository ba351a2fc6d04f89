----------------------------- MODULE VoteClient -----------------------------
(***************************************************************************)
(* The browser that casts a ballot: the voting screens of CivicRuntime and *)
(* VoteFlow, the action adapter with its per-provider lock, the contract   *)
(* executor, the walletless relay provider with its pending-action store,  *)
(* the encrypted private state and the receipt vault.                      *)
(*                                                                         *)
(* An attempt is one run of confirmVote; its awaits are its steps, and     *)
(* attempts interleave with each other, with the screens, with a wallet    *)
(* reconnection (new provider objects), with a page reload, and with the   *)
(* relay and the chain, which are the environment here (RelayerV2 and      *)
(* ReferendumV2 model them).  A ballot's opening is its choice and its     *)
(* salt; the salt is the attempt that drew it.                             *)
(***************************************************************************)
EXTENDS Naturals, Sequences, FiniteSets

CONSTANTS Polls,        \* the referenda of the runtime catalogue
          Answers,      \* YES, NO, ABSTAIN
          MaxAttempts,  \* bound: runs of confirmVote
          MaxEvents,    \* bound: reconnections, reloads, removals and closures
          NULL

Attempts == 1..MaxAttempts
Pages == 1..(MaxEvents + 1)   \* generations of provider objects
Opening == [choice : Answers, salt : Attempts]

ASSUME VoteClientAssumption ==
    /\ MaxAttempts \in Nat /\ MaxEvents \in Nat
    /\ NULL \notin Polls \cup Answers \cup Attempts /\ NULL \notin Opening

VARIABLES
    ui,            \* flowStage, activePollId and choice of CivicApp
    page,          \* generation of the providers, execution mode, credential, events so far
    op,            \* the attempts
    queue,         \* privateStateActionTails: per provider, the attempts in line
    pendingStore,  \* per generation and poll: the action the relay was last asked for
    privateState,  \* per poll: the opening kept in IndexedDB
    job,           \* per attempt: the transaction it sent, and what became of it
    ledger,        \* per poll: the opening whose commitment the contract holds
    accepting,     \* the polls that still accept ballots
    vault          \* attempts whose receipt the receipt vault holds

vvars == <<ui, page, op, queue, pendingStore, privateState, job, ledger, accepting, vault>>

Modes == {"direct", "sponsored"}
Providers == Pages \X Modes

Screens == {"home", "choose", "review", "processing", "receipt"}
InCastVote == {"queued", "prove", "submit", "post", "wait", "finalize"}
InLock == InCastVote \ {"queued"}
Saving == {"load", "save"}
Running == InCastVote \cup Saving \cup {"authorize", "joined"}
Over == {"done", "refused", "failed", "gone"}

NoOp == [pc |-> "free", poll |-> NULL, choice |-> NULL, provider |-> NULL,
         opening |-> NULL, action |-> NULL, seen |-> {}]
Unsent == [poll |-> NULL, opening |-> NULL, status |-> "none"]

VTypeOK ==
    /\ ui \in [stage : Screens, poll : Polls \cup {NULL}, choice : Answers \cup {NULL}]
    /\ page \in [gen : Pages, mode : Modes, credential : BOOLEAN, events : 0..MaxEvents]
    /\ page.gen <= page.events + 1
    /\ op \in [Attempts ->
                 [pc : Running \cup Over \cup {"free"}, poll : Polls \cup {NULL},
                  choice : Answers \cup {NULL}, provider : Providers \cup {NULL},
                  opening : Opening \cup {NULL}, action : Attempts \cup {NULL},
                  seen : SUBSET Attempts]]
    /\ queue \in [Providers -> Seq(Attempts)]
    /\ pendingStore \in [Pages \X Polls -> Attempts \cup {NULL}]
    /\ privateState \in [Polls -> Opening \cup {NULL}]
    /\ job \in [Attempts ->
                  [poll : Polls \cup {NULL}, opening : Opening \cup {NULL},
                   status : {"none", "travelling", "pending", "late", "confirmed", "failed",
                             "parked"}]]
    /\ ledger \in [Polls -> Opening \cup {NULL}]
    /\ accepting \subseteq Polls
    /\ vault \subseteq Attempts

VInit ==
    /\ ui = [stage |-> "home", poll |-> NULL, choice |-> NULL]
    /\ page = [gen |-> 1, mode |-> "direct", credential |-> TRUE, events |-> 0]
    /\ op = [a \in Attempts |-> NoOp]
    /\ queue = [r \in Providers |-> <<>>]
    /\ pendingStore = [k \in Pages \X Polls |-> NULL]
    /\ privateState = [p \in Polls |-> NULL]
    /\ job = [a \in Attempts |-> Unsent]
    /\ ledger = [p \in Polls |-> NULL]
    /\ accepting = Polls
    /\ vault = {}

client == <<ui, page>>
network == <<job, ledger, accepting>>
stores == <<pendingStore, privateState, vault>>

-----------------------------------------------------------------------------
(* The screens. *)

\* getPollAvailability: neither the clock nor the chain has closed the poll.
IsOpen(p) == p \in accepting

\* startVote, from a list or a policy page: both are hidden while a flow is on screen.
StartVote(p) ==
    /\ ui.stage = "home" /\ IsOpen(p) /\ page.credential
    /\ ui' = [stage |-> "choose", poll |-> p, choice |-> NULL]
    /\ UNCHANGED <<page, op, queue, stores, network>>

Choose(c) ==
    /\ ui.stage = "choose"
    /\ ui' = [ui EXCEPT !.choice = c]
    /\ UNCHANGED <<page, op, queue, stores, network>>

\* The review sheet opens only with a choice; "change" goes back to the choices.
OnStage ==
    /\ \/ ui.stage = "choose" /\ ui.choice # NULL /\ ui' = [ui EXCEPT !.stage = "review"]
       \/ ui.stage = "review" /\ ui' = [ui EXCEPT !.stage = "choose"]
    /\ UNCHANGED <<page, op, queue, stores, network>>

\* The close button of every stage but processing, and "view receipt".
CloseFlow ==
    /\ ui.stage \notin {"home", "processing"}
    /\ ui' = [ui EXCEPT !.stage = "home"]
    /\ UNCHANGED <<page, op, queue, stores, network>>

\* The header stays on screen in every stage: its settings end the flow, not the attempt.
OpenSettings ==
    /\ ui.stage = "processing"
    /\ ui' = [ui EXCEPT !.stage = "home"]
    /\ UNCHANGED <<page, op, queue, stores, network>>

SetExecutionMode(m) ==
    /\ ui.stage = "review" /\ m # page.mode
    /\ page' = [page EXCEPT !.mode = m]
    /\ UNCHANGED <<ui, op, queue, stores, network>>

-----------------------------------------------------------------------------
(* The environment of the page: the wallet, the reload, "remove local data". *)

Happens(p) == /\ page.events < MaxEvents
              /\ page' = [p EXCEPT !.events = @ + 1]

\* The wallet is lost and connected again: new provider objects, so an empty lock, an
\* empty pending store and an adapter without pending votes; attempts under way keep
\* the providers they have.
WalletReconnects ==
    /\ Happens([page EXCEPT !.gen = @ + 1, !.mode = "direct"])
    /\ UNCHANGED <<ui, op, queue, stores, network>>

\* A reload ends every attempt; what IndexedDB, the relay and the chain hold stays.
Reload ==
    /\ Happens([page EXCEPT !.gen = @ + 1, !.mode = "direct"])
    /\ ui' = [stage |-> "home", poll |-> NULL, choice |-> NULL]
    /\ op' = [a \in Attempts |->
                IF op[a].pc \in Running THEN [op[a] EXCEPT !.pc = "gone"] ELSE op[a]]
    /\ queue' = [r \in Providers |-> <<>>]
    /\ UNCHANGED <<stores, network>>

ClearReceipts == vault' = {}

\* removeLocalData clears the credential and the receipts, not the openings.
RemoveLocalData ==
    /\ ui.stage = "home" /\ Happens([page EXCEPT !.credential = FALSE])
    /\ ClearReceipts
    /\ UNCHANGED <<ui, op, queue, pendingStore, privateState, network>>

-----------------------------------------------------------------------------
(* confirmVote and castVote. *)

\* getPreviewReadiness and resolvePassportV2ActionRoute: what confirmVote asks for.
Ready == page.credential

\* pendingVotes of the adapter built on provider r.
PendingVote(r, p) == {a \in Attempts : /\ op[a].pc \in InCastVote
                                       /\ op[a].provider = r /\ op[a].poll = p}

MayConfirm == ui.stage = "review" /\ Ready /\ ui.poll # NULL /\ IsOpen(ui.poll) /\ ui.choice # NULL

ConfirmVote(a) ==
    /\ op[a].pc = "free" /\ \A b \in Attempts : b < a => op[b].pc # "free"
    /\ MayConfirm
    /\ ui' = [ui EXCEPT !.stage = "processing"]
    /\ op' = [op EXCEPT ![a] = [NoOp EXCEPT !.pc = "authorize", !.poll = ui.poll,
                                  !.choice = ui.choice, !.provider = <<page.gen, page.mode>>]]
    /\ UNCHANGED <<page, queue, stores, network>>

\* withPrivateStateActionLock: the attempt at the head of its provider's line runs.
Holds(a) == queue[op[a].provider] # <<>> /\ Head(queue[op[a].provider]) = a

\* Mutant: an attempt that throws keeps its place in the line.
EndInLine(a, how) ==
    /\ op' = [op EXCEPT ![a].pc = how]
    /\ ui' = [ui EXCEPT !.stage = "review"]
    /\ UNCHANGED queue

\* An attempt that throws while it has the lock passes it on, and confirmVote puts the
\* review sheet on screen, whatever is there.  "refused": it ended before it touched
\* anything.
End(a, how) ==
    /\ op' = [op EXCEPT ![a].pc = how]
    /\ queue' = IF Holds(a) THEN [queue EXCEPT ![op[a].provider] = Tail(@)] ELSE queue
    /\ ui' = [ui EXCEPT !.stage = "review"]

Fail(a) == End(a, "failed")

Differs(a, b) == op[b].choice # op[a].choice

\* castVote: an attempt for the poll under way on this adapter is joined when the
\* choice is the same, a conflict otherwise; a new one takes its place in the line.
CastVote(a) ==
    /\ op[a].pc = "authorize"
    /\ LET others == PendingVote(op[a].provider, op[a].poll) IN
       \/ /\ \/ ~page.credential
             \/ \E b \in others : Differs(a, b)
          /\ End(a, "refused")
       \/ /\ page.credential
          /\ \E b \in others : /\ ~Differs(a, b)
                               /\ op' = [op EXCEPT ![a].pc = "joined", ![a].action = b]
          /\ UNCHANGED <<ui, queue>>
       \/ /\ page.credential /\ others = {}
          /\ op' = [op EXCEPT ![a].pc = "queued"]
          /\ queue' = [queue EXCEPT ![op[a].provider] = Append(@, a)]
          /\ UNCHANGED ui
    /\ UNCHANGED <<page, stores, network>>

\* The scope of the walletless context is taken: run throws.
ScopeTaken(a) == /\ op[a].provider[2] = "sponsored"
                 /\ \E b \in Attempts \ {a} : /\ op[b].pc \in InLock
                                              /\ op[b].provider = op[a].provider

\* browserPrivateStateProvider: one record per contract, shared by every provider.
ReadState(p) == privateState[p]
WriteState(p, o) == privateState' = [privateState EXCEPT ![p] = o]

\* assertCanonicalBinding: the registry is the catalogue's and the referendum takes votes.
CanonicalBinding(p) == p \in accepting

\* buildReferendumV2VoterPrivateState, with a salt of its own.
NewOpening(a) == [choice |-> op[a].choice, salt |-> a]

\* castVoteOnce up to the call: authorisation, canonical binding, a fresh salt, and
\* join, which overwrites the private state of the contract.
CastVoteOnce(a) ==
    /\ op[a].pc = "queued" /\ Holds(a)
    /\ \/ /\ ~page.credential \/ ~CanonicalBinding(op[a].poll)
          /\ End(a, "refused") /\ UNCHANGED privateState
       \/ /\ page.credential /\ CanonicalBinding(op[a].poll)
          /\ WriteState(op[a].poll, NewOpening(a))
          /\ IF ScopeTaken(a) THEN Fail(a)
             ELSE op' = [op EXCEPT ![a].pc = "prove"] /\ UNCHANGED <<ui, queue>>
    /\ UNCHANGED <<page, pendingStore, vault, network>>

\* callTx runs the circuit on the public state and the stored opening, then proves;
\* the circuit refuses a second ballot of the voter, the prover may be unavailable.
Prove(a) ==
    /\ op[a].pc = "prove"
    /\ \/ Fail(a)
       \/ /\ ledger[op[a].poll] = NULL
          /\ op' = [op EXCEPT ![a].pc = "submit", ![a].opening = ReadState(op[a].poll)]
          /\ UNCHANGED <<ui, queue>>
    /\ UNCHANGED <<page, stores, network>>

-----------------------------------------------------------------------------
(* submitTx. *)

Sent(a, s) == job' = [job EXCEPT ![a] = [poll |-> op[a].poll, opening |-> op[a].opening,
                                         status |-> s]]

Send(a) == Sent(a, "pending")

\* The connected wallet balances and submits: it may refuse, and a call that fails
\* after the transaction left looks the same to the page.
SubmitDirect(a) ==
    /\ op[a].pc = "submit" /\ op[a].provider[2] = "direct"
    /\ \/ Fail(a) /\ UNCHANGED job
       \/ Fail(a) /\ Send(a)
       \/ /\ Send(a)
          /\ op' = [op EXCEPT ![a].pc = "wait", ![a].action = a]
          /\ UNCHANGED <<ui, queue>>
    /\ UNCHANGED <<page, stores, ledger, accepting>>

\* The digest of the contract, the circuit and the credential's handle: a page that lost
\* its credential has none again (page.credential), so its attempts share one handle.
Key(a) == <<op[a].provider[1], op[a].poll>>

\* Mutant: the record is to be stored with the relay's answer.
RememberLater(a) == UNCHANGED pendingStore

Remember(a) == pendingStore' = [pendingStore EXCEPT ![Key(a)] = a]

\* relay.getAction: the answer of the relay for a recorded action.
Known(previous) == previous # NULL /\ job[previous].status \notin {"none", "travelling"}

\* A pending record whose action the relay knows is waited for; one it does not know
\* is deleted.  Then a capability is obtained and the record is stored before the
\* request leaves.  Any call may fail.
SubmitSponsored(a) ==
    /\ op[a].pc = "submit" /\ op[a].provider[2] = "sponsored"
    /\ LET previous == pendingStore[Key(a)]
           known == Known(previous) IN
       \/ Fail(a) /\ UNCHANGED pendingStore
       \/ ~known /\ previous # NULL /\ Fail(a) /\ pendingStore' = [pendingStore EXCEPT ![Key(a)] = NULL]
       \/ /\ known /\ op' = [op EXCEPT ![a].pc = "wait", ![a].action = previous]
          /\ UNCHANGED <<ui, queue, pendingStore>>
       \/ /\ ~known /\ op' = [op EXCEPT ![a].pc = "post", ![a].action = a]
          /\ Remember(a)
          /\ UNCHANGED <<ui, queue>>
    /\ UNCHANGED <<page, privateState, vault, network>>

\* relay.submit: the request or its answer may be lost, and the call may fail while the
\* request is still on its way to the relay.
Post(a) ==
    /\ op[a].pc = "post"
    /\ \/ Fail(a) /\ UNCHANGED job
       \/ Fail(a) /\ Sent(a, "travelling")
       \/ Fail(a) /\ Send(a)
       \/ Send(a) /\ op' = [op EXCEPT ![a].pc = "wait"] /\ UNCHANGED <<ui, queue>>
    /\ UNCHANGED <<page, stores, ledger, accepting>>

\* Mutant: an accepted action is taken for a confirmed one.
ConfirmedWhenAccepted(a) == job[op[a].action].status \in {"pending", "confirmed"}

Confirmed(a) == job[op[a].action].status = "confirmed"

\* waitForCanonicalReceipt, or the SDK's watch for a direct transaction, which has no time
\* limit: it ends when a block holds the transaction.  The wait for the relay also ends by
\* its deadline or a failed request; the record is then kept.
Wait(a) ==
    /\ op[a].pc = "wait"
    /\ \/ /\ Confirmed(a)
          /\ op' = [op EXCEPT ![a].pc = "finalize"]
          /\ pendingStore' = IF op[a].provider[2] = "sponsored"
                             THEN [pendingStore EXCEPT ![Key(a)] = NULL] ELSE pendingStore
          /\ UNCHANGED <<ui, queue>>
       \/ /\ job[op[a].action].status \in {"failed", "parked"} \/ op[a].provider[2] = "sponsored"
          /\ Fail(a) /\ UNCHANGED pendingStore
    /\ UNCHANGED <<page, privateState, vault, network>>

\* The SDK stores the private state of the call that was proved; the receipt is
\* returned, the lock passes on, and everyone who joined gets the same receipt.
Finalize(a) ==
    /\ op[a].pc = "finalize"
    /\ WriteState(op[a].poll, op[a].opening)
    /\ op' = [op EXCEPT ![a].pc = "load"]
    /\ queue' = [queue EXCEPT ![op[a].provider] = Tail(@)]
    /\ UNCHANGED <<ui, page, pendingStore, vault, network>>

\* An attempt that joined ends as the one it joined.
JoinedEnds(a) ==
    /\ op[a].pc = "joined"
    /\ LET b == op[a].action IN
       \/ op[b].pc \in {"refused", "failed"} /\ End(a, op[b].pc)
       \/ /\ op[b].pc \in Saving \cup {"done"}
          /\ op' = [op EXCEPT ![a].pc = "load", ![a].action = op[b].action]
          /\ UNCHANGED <<ui, queue>>
    /\ UNCHANGED <<page, stores, network>>

\* savePassportReceipt: the list is read, then written back with the new receipt.
LoadReceipts(a) ==
    /\ op[a].pc = "load"
    /\ op' = [op EXCEPT ![a].pc = "save", ![a].seen = vault]
    /\ UNCHANGED <<ui, page, queue, stores, network>>

SaveReceipt(a) ==
    /\ op[a].pc = "save"
    /\ vault' = op[a].seen \cup {op[a].action}
    /\ op' = [op EXCEPT ![a].pc = "done", ![a].seen = {}]
    /\ ui' = [ui EXCEPT !.stage = "receipt"]
    /\ UNCHANGED <<page, queue, pendingStore, privateState, network>>

-----------------------------------------------------------------------------
(* The relay and the chain. *)

\* A request whose call has failed reaches the relay all the same.
Arrives(a) ==
    /\ job[a].status = "travelling"
    /\ job' = [job EXCEPT ![a].status = "late"]
    /\ UNCHANGED <<client, op, queue, stores, ledger, accepting>>

\* A ballot is included: the first of the voter's nullifier for the poll counts.  A
\* parked action may have been included too; its status says nothing of it.
Land(a) ==
    /\ job[a].status \in {"pending", "late", "parked"}
    /\ job[a].poll \in accepting /\ ledger[job[a].poll] = NULL
    /\ ledger' = [ledger EXCEPT ![job[a].poll] = job[a].opening]
    /\ job' = IF job[a].status = "parked" THEN job ELSE [job EXCEPT ![a].status = "confirmed"]
    /\ UNCHANGED <<client, op, queue, stores, accepting>>

\* A block holds a transaction that failed, or the relay fails or parks an action.  A
\* direct transaction that expires before any block holds it stays as it is: nobody answers.
Drop(a) ==
    /\ job[a].status \in {"pending", "late"}
    /\ \E s \in {"failed"} \cup (IF op[a].provider[2] = "sponsored" THEN {"parked"} ELSE {}) :
         job' = [job EXCEPT ![a].status = s]
    /\ UNCHANGED <<client, op, queue, stores, ledger, accepting>>

CloseBallot(p) ==
    /\ p \in accepting /\ Happens(page)
    /\ accepting' = accepting \ {p}
    /\ UNCHANGED <<ui, op, queue, stores, job, ledger>>

-----------------------------------------------------------------------------
Step(a) == \/ CastVote(a) \/ CastVoteOnce(a) \/ Prove(a) \/ SubmitDirect(a)
           \/ SubmitSponsored(a) \/ Post(a) \/ Wait(a) \/ Finalize(a) \/ JoinedEnds(a)
           \/ LoadReceipts(a) \/ SaveReceipt(a)

User == \/ \E p \in Polls : StartVote(p)
        \/ \E c \in Answers : Choose(c)
        \/ \E m \in Modes : SetExecutionMode(m)
        \/ \E a \in Attempts : ConfirmVote(a)
        \/ OnStage \/ CloseFlow \/ OpenSettings \/ RemoveLocalData

VNext == \/ User \/ WalletReconnects \/ Reload
        \/ \E a \in Attempts : Step(a) \/ Arrives(a) \/ Land(a) \/ Drop(a)
        \/ \E p \in Polls : CloseBallot(p)

VSpec == VInit /\ [][VNext]_vvars

\* What the page does by itself, without a call out of the browser.
LocalStep(a) == CastVote(a) \/ Finalize(a) \/ JoinedEnds(a) \/ LoadReceipts(a) \/ SaveReceipt(a)

\* The event loop runs every attempt on.  Nothing else is fair: the indexer, the prover,
\* the wallet, the relay and the chain may never answer, and no call to them has a limit.
VFairness == \A a \in Attempts : WF_vvars(LocalStep(a))

VFairSpec == VSpec /\ VFairness

-----------------------------------------------------------------------------
(* Properties. *)

HasReceipt(a) == op[a].pc \in {"finalize", "done"} \cup Saving

\* Every receipt the app holds or shows is that of a transaction the chain
\* included, and its ballot is the voter's ballot in the poll of the attempt
\* (waitForCanonicalReceipt and the dedupe of castVote).
ReceiptBackedByLedger ==
    /\ \A a \in Attempts : HasReceipt(a) =>
         LET j == job[op[a].action] IN
         j.status = "confirmed" /\ j.poll = op[a].poll /\ j.opening = ledger[op[a].poll]
    /\ \A a \in vault : job[a].status = "confirmed"

\* The pending record is stored before the request leaves, so one page never has two
\* sponsored actions for the same referendum that may both still be sent (submitTx of
\* createReferendumV2WalletlessProviders).  A "late" action is not counted: its request
\* reached the relay after the call had failed, when a retry that was told 404 may have
\* deleted the record and asked for another action.
OneLiveActionPerPoll ==
    \A a, b \in Attempts :
       /\ a # b /\ job[a].status = "pending" /\ job[b].status = "pending"
       /\ op[a].provider = op[b].provider /\ op[a].provider[2] = "sponsored"
       => job[a].poll # job[b].poll

\* The opening in the private state is the one the contract holds for the poll.
Countable(p) == ledger[p] # NULL /\ privateState[p] = ledger[p]

\* Any throw returns to the review sheet, so the user can retry or change the
\* answer: and whatever was tried before, a receipt then stands for the answer that
\* was confirmed and the opening kept in the browser is that of the counted ballot.
ConfirmedVoteCountable ==
    \A a \in Attempts : op[a].pc = "done" =>
       Countable(op[a].poll) /\ ledger[op[a].poll].choice = op[a].choice

\* An attempt that has the line of its provider and awaits a call out of the browser: the
\* indexer and the prover, the wallet, the relay, the chain.
Outside(a) == Holds(a) /\ op[a].pc \in {"queued", "prove", "submit", "post", "wait"}

\* In the end every attempt is over, unless a call out of the browser that never returns has
\* the line of its provider: the line moves on when its head throws, one that joined ends as
\* the one it joined, and no attempt waits for one of another provider (finally of
\* withPrivateStateActionLock, pendingVotes of castVote, catch of confirmVote).
AttemptsEnd ==
    <>[](\A a \in Attempts :
            op[a].pc \in Running =>
              \E b \in Attempts : op[b].provider = op[a].provider /\ Outside(b))
=============================================================================
