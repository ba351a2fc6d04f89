---------------------------- MODULE ReferendumV1 ----------------------------
(***************************************************************************)
(* The first referendum and the scripts that drive it through the legacy   *)
(* routes of the relayer.  A script executes the circuit on the state it   *)
(* has queried, which fixes what the transaction read; it has the relayer  *)
(* balance the transaction with its only DUST coin, submits it, and waits  *)
(* until it is in a block.  The chain executes the transaction again and   *)
(* refuses it when a read comes out differently.  Scripts may die anywhere *)
(* and be started again; the relayer may be restarted.                     *)
(*                                                                         *)
(* A voter is her secret, her eligibility commitment and her nullifier at  *)
(* once, an opening is a choice with a salt and the commitment to both: the*)
(* hashes have no collisions.                                              *)
(***************************************************************************)
EXTENDS Integers, Sequences, FiniteSets, Functions

CONSTANTS
    Voters,
    Openings,      \* pairs of a choice and a salt
    MayUse,        \* the openings a voter may come up with; nothing keeps two voters' apart
    ChoiceOf,      \* the choice of an opening
    CountArgs,     \* the lists of openings the organizer may give to a count
    Capacity,      \* leaves of a Merkle tree, 2^10 in the contract
    MaxStarts,     \* bound: how often scripts are started, by seat
    MaxCrashes     \* bound: deaths of scripts and restarts of the relayer

VARIABLES
    board,         \* the contract's ledger
    flight,        \* transactions submitted and in no block yet
    dust,          \* which coin is unspent on the chain: each spend creates the next one
    purse,         \* the coin the relayer's wallet would spend, NoCoin while it is booked
    observed,      \* the newest coin the wallet has seen
    relayRuns,     \* how often the relayer was started
    seat,          \* the script that runs for each voter and for the organizer
    starts, crashes

v1vars == <<board, flight, dust, purse, observed, relayRuns, seat, starts, crashes>>

Organizer == "organizer"
Seats == Voters \union {Organizer}
Buckets == {ChoiceOf[o] : o \in Openings}
NoCoin == 0

\* The organizer is no voter, and openings are openings.
ASSUME V1Assumption ==
    /\ Organizer \notin Voters /\ Capacity \in Nat
    /\ MayUse \in [Voters -> SUBSET Openings] /\ CountArgs \subseteq Seq(Openings)

\* No script runs, or the last one has ended with exit code 1 or been killed.
Ended == [pc |-> "ended", todo |-> <<>>, given |-> <<>>, tx |-> <<>>]

\* What the constructor leaves: empty trees and sets, and a bucket of zero votes for each choice.
noVotes == [c \in Buckets |-> 0]

constructed ==
    [phase |-> "COMMIT", eligible |-> <<>>, spent |-> {}, ballots |-> <<>>, revealed |-> {}, tally |-> noVotes]

\* The contract is deployed and its address is in ui/.env.
V1Init ==
    /\ board = constructed
    /\ flight = {} /\ dust = 1 /\ purse = 1 /\ observed = 1 /\ relayRuns = 1
    /\ seat = [s \in Seats |-> Ended]
    /\ starts = [s \in Seats |-> 0] /\ crashes = 0

-----------------------------------------------------------------------------
(* The circuits.  A call is <<circuit, argument, opening>>.                  *)

\* What readers see of the ledger.  The trees keep their former roots, so a path never expires.
isEligible(b, v) == v \in Range(b.eligible)

isCommitted(b, o) == o \in Range(b.ballots)

isSpent(b, v) == v \in b.spent

isRevealed(b, o) == o \in b.revealed

tallyOf(b, o) == b.tally[ChoiceOf[o]]

\* What the transcript of each circuit reads, in its order.
issueReads(b) == <<b.phase, Len(b.eligible) >= Capacity>>

castReads(b, v) == <<b.phase, isEligible(b, v), isSpent(b, v)>>

phaseRead(b) == <<b.phase>>

\* Mutant: the tally is not part of what the transaction read.
revealReadsBlind(b, o) == <<b.phase, isCommitted(b, o), isRevealed(b, o)>>

revealReads(b, o) == <<b.phase, isCommitted(b, o), isRevealed(b, o), tallyOf(b, o)>>

Reads(call, b) ==
    CASE call[1] = "issue" -> issueReads(b)
      [] call[1] = "cast" -> castReads(b, call[2])
      [] call[1] = "reveal" -> revealReads(b, call[3])
      [] OTHER -> phaseRead(b)

\* The assertions, of what was read.
issueAllowed(r) == r[1] = "COMMIT" /\ ~r[2]

castAllowed(r) == r[1] = "COMMIT" /\ r[2] /\ ~r[3]

revealAllowed(r) == r[1] = "REVEAL" /\ r[2] /\ ~r[3]

Allowed(call, r) ==
    CASE call[1] = "issue" -> issueAllowed(r)
      [] call[1] = "cast" -> castAllowed(r)
      [] call[1] = "reveal" -> revealAllowed(r)
      [] call[1] = "close" -> r[1] = "COMMIT"
      [] call[1] = "finalize" -> r[1] = "REVEAL"

\* The writes.  The new tally is computed when the transaction is built.
withVoter(b, v) == [b EXCEPT !.eligible = Append(@, v)]

withBallot(b, v, o) == [b EXCEPT !.spent = @ \union {v}, !.ballots = Append(@, o)]

closing(b) == [b EXCEPT !.phase = "REVEAL"]

withOpening(b, o, count) == [b EXCEPT !.revealed = @ \union {o}, !.tally[ChoiceOf[o]] = count]

finalizing(b) == [b EXCEPT !.phase = "FINALIZED"]

Writes(tx, b) ==
    CASE tx.call[1] = "issue" -> withVoter(b, tx.call[2])
      [] tx.call[1] = "cast" -> withBallot(b, tx.call[2], tx.call[3])
      [] tx.call[1] = "close" -> closing(b)
      [] tx.call[1] = "reveal" -> withOpening(b, tx.call[3], tx.count)
      [] tx.call[1] = "finalize" -> finalizing(b)

-----------------------------------------------------------------------------
(* One call of the executor: build, /balance, /submit, wait for the block.   *)

\* A call throws and nobody catches it.
Throws(s) == seat' = [seat EXCEPT ![s] = Ended]

\* The next call, or process.exit(0); what a count was given is kept.
Continues(script) ==
    IF script.todo # <<>> THEN [script EXCEPT !.pc = "next"]
    ELSE IF script.given # <<>> THEN [script EXCEPT !.pc = "done"] ELSE Ended

Running(s) == seat[s].pc \notin {"ended", "done"}

\* The next call opens a ballot the tree does not hold.
PathMissing(s) ==
    /\ seat[s].pc = "next" /\ seat[s].todo # <<>>
    /\ LET call == Head(seat[s].todo)
       IN  call[1] = "reveal" /\ ~isCommitted(board, call[3])

\* executor.call: the circuit runs on the state the indexer has.
Build(s) ==
    /\ seat[s].pc = "next" /\ seat[s].todo # <<>> /\ ~PathMissing(s)
    /\ LET call == Head(seat[s].todo)
           r == Reads(call, board)
       IN  IF Allowed(call, r)
           THEN seat' = [seat EXCEPT ![s].pc = "built",
                         ![s].tx = [call |-> call, reads |-> r, coin |-> NoCoin, by |-> s, relay |-> relayRuns,
                                    count |-> IF call[1] = "reveal"
                                              THEN tallyOf(board, call[3]) + 1 ELSE 0]]
           ELSE Throws(s)
    /\ UNCHANGED <<board, flight, dust, purse, observed, relayRuns, starts, crashes>>

\* createQueue: a job starts once the one before it has ended.
QueueFree == \A s \in Seats : seat[s].pc # "balancing"

\* POST /balance: the wallet picks its coin.  Without one the request fails.
Balance(s) ==
    /\ seat[s].pc = "built" /\ QueueFree
    /\ IF purse = NoCoin
       THEN Throws(s)
       ELSE seat' = [seat EXCEPT ![s].pc = "balancing", ![s].tx.coin = purse, ![s].tx.relay = relayRuns]
    /\ UNCHANGED <<board, flight, dust, purse, observed, relayRuns, starts, crashes>>

\* balanceAndFinalize has returned: the coin is booked for this transaction.
Finalize(s) ==
    /\ seat[s].pc = "balancing"
    /\ purse' = IF purse = seat[s].tx.coin THEN NoCoin ELSE purse
    /\ seat' = [seat EXCEPT ![s].pc = "balanced"]
    /\ UNCHANGED <<board, flight, dust, observed, relayRuns, starts, crashes>>

\* POST /submit: the node refuses a coin that is spent; otherwise the transaction waits for a block.
Submit(s) ==
    /\ seat[s].pc = "balanced" /\ QueueFree
    /\ IF seat[s].tx.coin # dust
       THEN Throws(s) /\ flight' = flight
       ELSE seat' = [seat EXCEPT ![s].pc = "submitted"] /\ flight' = flight \union {seat[s].tx}
    /\ UNCHANGED <<board, dust, purse, observed, relayRuns, starts, crashes>>

\* The call has returned its receipt.  count-referendum waits for the change of the relayer's coin
\* after each reveal, and after closeVote if there is something to reveal; a script that has
\* nothing left to do exits with 0.
Returned(script) ==
    LET rest == Tail(script.todo)
    IN  IF Head(script.todo)[1] = "reveal" \/ (Head(script.todo)[1] = "close" /\ rest # <<>> /\ rest[1][1] = "reveal")
        THEN [script EXCEPT !.pc = "change", !.todo = rest, !.tx = <<>>]
        ELSE Continues([script EXCEPT !.todo = rest, !.tx = <<>>])

\* A block takes a transaction.  Its fee is paid in any case, and transactions with the same coin
\* are dropped; its writes are made if every read comes out as it did when it was built.
Land(tx) ==
    LET valid == Reads(tx.call, board) = tx.reads
        s == tx.by
    IN  /\ tx \in flight
        /\ board' = IF valid THEN Writes(tx, board) ELSE board
        /\ dust' = dust + 1
        /\ flight' = {t \in flight : t.coin # tx.coin}
        /\ IF seat[s].pc # "submitted" \/ seat[s].tx # tx THEN seat' = seat
           ELSE IF ~valid THEN Throws(s)
           ELSE seat' = [seat EXCEPT ![s] = Returned(@)]
        /\ UNCHANGED <<purse, observed, relayRuns, starts, crashes>>

\* The wallet sees the block that paid it the change of its coin.
SeeBlock ==
    /\ observed < dust
    /\ observed' = dust /\ purse' = dust
    /\ UNCHANGED <<board, flight, dust, relayRuns, seat, starts, crashes>>

-----------------------------------------------------------------------------
(* The scripts.                                                              *)

\* The operator or a voter starts a script with what it is to do.
Starts(s, calls) ==
    /\ ~Running(s) /\ starts[s] < MaxStarts[s]
    /\ seat' = [seat EXCEPT ![s] = Continues([pc |-> "next", todo |-> calls, tx |-> <<>>,
                                               given |-> IF s = Organizer THEN calls ELSE <<>>])]
    /\ starts' = [starts EXCEPT ![s] = @ + 1]
    /\ UNCHANGED <<board, flight, dust, purse, observed, relayRuns, crashes>>

\* GET /health reports a balance.
hasDust == purse # NoCoin

\* deploy-referendum --issue: a relayer without DUST stops it at once.
IssueScript(v) == hasDust /\ Starts(v, <<<<"issue", v, v>>>>)

\* The private state castVote is proved with: the voter's secret and path, her choice and salt.
castCall(v, o) == <<"cast", v, o>>

\* cast-vote-e2e: a voter who is not in the tree stops it at once.
CastScript(v, o) == isEligible(board, v) /\ Starts(v, <<castCall(v, o)>>)

\* The private state of a count holds the path of the ballot it opens.
revealCall(o) == <<"reveal", Organizer, o>>

\* count-referendum: the calls that follow from the phase it reads and its arguments.
CountScript(openings, flag) ==
    LET close == IF board.phase = "COMMIT" THEN <<<<"close", Organizer, Organizer>>>> ELSE <<>>
        reveals == [i \in DOMAIN openings |-> revealCall(openings[i])]
    IN  Starts(Organizer, CASE flag = "--close-only" -> close
                            [] flag = "--no-finalize" -> close \o reveals
                            [] OTHER -> close \o reveals \o <<<<"finalize", Organizer, Organizer>>>>)

\* Mutant: an opening that matches no ballot is passed over.
NoPathPassed ==
    /\ PathMissing(Organizer)
    /\ seat' = [seat EXCEPT ![Organizer].todo = Tail(@)]
    /\ UNCHANGED <<board, flight, dust, purse, observed, relayRuns, starts, crashes>>

\* The script looks for the path of an opening before it calls revealVote, and exits with 1
\* when no ballot matches.
NoPath ==
    /\ PathMissing(Organizer)
    /\ Throws(Organizer)
    /\ UNCHANGED <<board, flight, dust, purse, observed, relayRuns, starts, crashes>>

\* waitForRelayerChange: /health reports a balance once the change has landed, or the three
\* minutes are over.
ChangeLanded ==
    /\ seat[Organizer].pc = "change"
    /\ IF hasDust THEN seat' = [seat EXCEPT ![Organizer] = Continues(@)] ELSE Throws(Organizer)
    /\ UNCHANGED <<board, flight, dust, purse, observed, relayRuns, starts, crashes>>

\* A script is killed, with its transaction wherever it is.
ScriptDies(s) ==
    /\ Running(s) /\ crashes < MaxCrashes
    /\ seat' = [seat EXCEPT ![s] = Ended] /\ crashes' = crashes + 1
    /\ UNCHANGED <<board, flight, dust, purse, observed, relayRuns, starts>>

\* The relayer is shut down and started again: its wallet derives its coin from the chain, and a
\* request it was working on fails.
RestartRelayer ==
    /\ crashes < MaxCrashes /\ crashes' = crashes + 1
    /\ relayRuns' = relayRuns + 1 /\ purse' = dust /\ observed' = dust
    /\ seat' = [s \in Seats |-> IF seat[s].pc = "balancing" THEN Ended ELSE seat[s]]
    /\ UNCHANGED <<board, flight, dust, starts>>

V1Next ==
    \/ \E s \in Seats : Build(s) \/ Balance(s) \/ Finalize(s) \/ Submit(s) \/ ScriptDies(s)
    \/ \E tx \in flight : Land(tx)
    \/ SeeBlock \/ NoPath \/ ChangeLanded \/ RestartRelayer
    \/ \E v \in Voters : IssueScript(v) \/ \E o \in MayUse[v] : CastScript(v, o)
    \/ \E os \in CountArgs, flag \in {"", "--no-finalize", "--close-only"} : CountScript(os, flag)

V1Spec == V1Init /\ [][V1Next]_v1vars

-----------------------------------------------------------------------------
V1TypeOK ==
    /\ board.phase \in {"COMMIT", "REVEAL", "FINALIZED"}
    /\ Len(board.eligible) <= Capacity /\ Range(board.eligible) \subseteq Voters
    /\ board.spent \subseteq Voters /\ Range(board.ballots) \union board.revealed \subseteq Openings
    /\ \A tx \in flight : tx.coin = dust
    /\ observed <= dust /\ purse \in {NoCoin, observed}

\* What the panel shows as the result is the result: every ballot was cast by a voter of her own
\* who had been issued eligibility, there is room for each of them in the tree, only cast ballots
\* are opened, and each choice has exactly as many votes as opened ballots, whatever
\* transactions of dead, repeated or concurrent scripts land in whatever order.
TallyIsTrue ==
    /\ board.spent \subseteq Range(board.eligible)
    /\ Len(board.ballots) = Cardinality(board.spent) /\ Len(board.ballots) <= Capacity
    /\ board.revealed \subseteq Range(board.ballots)
    /\ \A c \in Buckets : board.tally[c] = Cardinality({o \in board.revealed : ChoiceOf[o] = c})

\* A count that ended well has done all it was asked to: the commit phase is over, every opening
\* it was given is counted, and the referendum is final unless it was told not to.
CountIsWhole ==
    seat[Organizer].pc = "done" =>
        \A i \in DOMAIN seat[Organizer].given :
            LET call == seat[Organizer].given[i]
            IN  /\ board.phase # "COMMIT"
                /\ call[1] = "reveal" => call[3] \in board.revealed
                /\ call[1] = "finalize" => board.phase = "FINALIZED"
=============================================================================
