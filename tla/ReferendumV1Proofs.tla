------------------------- MODULE ReferendumV1Proofs -------------------------
(***************************************************************************)
(* Theorems about ReferendumV1, for any number of voters, openings, script *)
(* starts and deaths: the tally of the first referendum is true, and a     *)
(* count that ended well has done all it was asked to.  The argument rests *)
(* on what a transaction carries from the state it was built on to the     *)
(* block that takes it, and on what a script has behind it.                *)
(***************************************************************************)
EXTENDS ReferendumV1, FiniteSetTheorems, SequenceTheorems, TLAPS

OrganizerCalls ==
    {<<"close", Organizer, Organizer>>, <<"finalize", Organizer, Organizer>>}
      \union {<<"reveal", Organizer, o>> : o \in Openings}

VoterCalls ==
    {<<"issue", v, v>> : v \in Voters} \union {<<"cast", v, o>> : v \in Voters, o \in Openings}

Calls == VoterCalls \union OrganizerCalls

(* The ledger is well typed and the eligibility tree has room.              *)
BoardFits ==
    /\ board \in [phase : {"COMMIT", "REVEAL", "FINALIZED"}, eligible : Seq(Voters),
                  spent : SUBSET Voters, ballots : Seq(Openings),
                  revealed : SUBSET Openings, tally : [Buckets -> Nat]]
    /\ Len(board.eligible) <= Capacity
    /\ IsFiniteSet(board.revealed)

(* A transaction was built from a call whose assertions held for what it    *)
(* read, and a reveal writes one more vote than it read.                    *)
TxFits(tx) ==
    /\ tx \in [call : Calls, reads : {tx.reads}, coin : {tx.coin}, by : Seats,
               relay : {tx.relay}, count : {tx.count}]
    /\ Allowed(tx.call, tx.reads)
    /\ tx.call[1] = "reveal" => tx.count = tx.reads[4] + 1

FlightFits == \A tx \in flight : TxFits(tx)

(* The calls a script may make: only the organizer's opens and closes.      *)
CallsOf(s) == IF s = Organizer THEN OrganizerCalls ELSE VoterCalls

Carrying == {"built", "balancing", "balanced", "submitted"}

Locations == Carrying \union {"ended", "done", "next", "change"}

ScriptFits(s, script) ==
    /\ script \in [pc : Locations, todo : Seq(CallsOf(s)), given : Seq(CallsOf(s)),
                   tx : {script.tx}]
    /\ script.pc \in Carrying =>
         script.todo # <<>> /\ TxFits(script.tx) /\ script.tx.call = Head(script.todo)
    /\ script.pc = "done" => script.todo = <<>>

SeatsFit ==
    /\ seat = [s \in Seats |-> seat[s]]
    /\ \A s \in Seats : ScriptFits(s, seat[s])

(* A call of a count has taken effect.                                      *)
Effected(b, call) ==
    /\ b.phase # "COMMIT"
    /\ call[1] = "reveal" => call[3] \in b.revealed
    /\ call[1] = "finalize" => b.phase = "FINALIZED"

(* What the count still has to do is the end of what it was given, and what *)
(* comes before has taken effect.                                           *)
CountFits ==
    LET given == seat[Organizer].given
        todo == seat[Organizer].todo
        behind == Len(given) - Len(todo)
    IN  /\ behind >= 0
        /\ \A i \in 1..Len(todo) : todo[i] = given[behind + i]
        /\ \A i \in 1..behind : Effected(board, given[i])

V1Inv == BoardFits /\ TallyIsTrue /\ FlightFits /\ SeatsFit /\ CountFits

-----------------------------------------------------------------------------
(* Sequences as the trees of the contract.                                  *)

(* A tree has at least as many leaves as different entries.                 *)
LEMMA RangeBound ==
    ASSUME NEW S, NEW e \in Seq(S), NEW T \in SUBSET Range(e)
    PROVE  IsFiniteSet(T) /\ Cardinality(T) <= Len(e) /\ Cardinality(T) \in Nat
<1>1. IsFiniteSet(1..Len(e)) /\ Cardinality(1..Len(e)) = Len(e) /\ Len(e) \in Nat
  <2>1. Len(e) \in Nat
    OBVIOUS
  <2>. QED
    BY <2>1, FS_Interval
<1>2. e \in Surjection(1..Len(e), Range(e))
  BY DEF Surjection, Range
<1>3. /\ IsFiniteSet(Range(e)) /\ Cardinality(Range(e)) <= Len(e)
      /\ Cardinality(Range(e)) \in Nat
  BY <1>1, <1>2, FS_Surjection, FS_CardinalityType
<1>4. IsFiniteSet(T) /\ Cardinality(T) <= Cardinality(Range(e))
  BY <1>3, FS_Subset
<1>5. Cardinality(T) \in Nat
  BY <1>4, FS_CardinalityType
<1>. QED
  BY <1>1, <1>3, <1>4, <1>5

(* An insertion adds one entry.                                             *)
LEMMA RangeAppend ==
    ASSUME NEW S, NEW e \in Seq(S), NEW x \in S
    PROVE  Range(Append(e, x)) = Range(e) \union {x}
<1>1. /\ DOMAIN Append(e, x) = 1..(Len(e) + 1) /\ Append(e, x)[Len(e) + 1] = x
      /\ \A i \in 1..Len(e) : Append(e, x)[i] = e[i]
  OBVIOUS
<1>2. DOMAIN e = 1..Len(e) /\ Len(e) \in Nat
  OBVIOUS
<1>. QED
  BY <1>1, <1>2 DEF Range

-----------------------------------------------------------------------------
(* What a block does to the ledger.                                         *)

(* The assertions of the circuits, of what their transcripts read.          *)
LEMMA AssertionsHold ==
    ASSUME NEW b, NEW v, NEW o
    PROVE  /\ issueAllowed(issueReads(b)) => ~(Len(b.eligible) >= Capacity)
           /\ castAllowed(castReads(b, v)) => isEligible(b, v) /\ ~isSpent(b, v)
           /\ revealAllowed(revealReads(b, o)) =>
                b.phase = "REVEAL" /\ isCommitted(b, o) /\ ~isRevealed(b, o)
           /\ revealReads(b, o)[4] = tallyOf(b, o)
<1>1. ASSUME NEW p, NEW q \in BOOLEAN, issueAllowed(<<p, q>>) PROVE ~q
  BY <1>1 DEF issueAllowed
<1>2. ASSUME NEW p, NEW q \in BOOLEAN, NEW r \in BOOLEAN, castAllowed(<<p, q, r>>)
      PROVE  q /\ ~r
  BY <1>2 DEF castAllowed
<1>3. ASSUME NEW p, NEW q \in BOOLEAN, NEW r \in BOOLEAN, NEW t, revealAllowed(<<p, q, r, t>>)
      PROVE  p = "REVEAL" /\ q /\ ~r
  BY <1>3 DEF revealAllowed
<1>4. /\ (Len(b.eligible) >= Capacity) \in BOOLEAN
      /\ isEligible(b, v) \in BOOLEAN /\ isSpent(b, v) \in BOOLEAN
      /\ isCommitted(b, o) \in BOOLEAN /\ isRevealed(b, o) \in BOOLEAN
  BY DEF isEligible, isSpent, isCommitted, isRevealed
<1>5. issueAllowed(issueReads(b)) => ~(Len(b.eligible) >= Capacity)
  BY <1>1, <1>4 DEF issueReads
<1>6. castAllowed(castReads(b, v)) => isEligible(b, v) /\ ~isSpent(b, v)
  BY <1>2, <1>4 DEF castReads
<1>7. revealAllowed(revealReads(b, o)) =>
        b.phase = "REVEAL" /\ isCommitted(b, o) /\ ~isRevealed(b, o)
  BY <1>3, <1>4 DEF revealReads
<1>8. revealReads(b, o)[4] = tallyOf(b, o)
  BY DEF revealReads
<1>. QED
  BY <1>5, <1>6, <1>7, <1>8

(* A transaction all of whose reads come out as they did keeps the ledger   *)
(* true.                                                                    *)
LEMMA WritesKeep ==
    ASSUME BoardFits, TallyIsTrue, NEW tx, TxFits(tx),
           Reads(tx.call, board) = tx.reads, board' = Writes(tx, board)
    PROVE  /\ BoardFits' /\ TallyIsTrue'
           /\ \A call : Effected(board, call) => Effected(board', call)
           /\ tx.call \in OrganizerCalls => Effected(board', tx.call)
<1>. DEFINE call == tx.call
<1>0. Allowed(call, Reads(call, board)) /\ Capacity \in Nat
  BY V1Assumption DEF TxFits
<1>1. ASSUME NEW v \in Voters, call = <<"issue", v, v>>
      PROVE  /\ BoardFits' /\ TallyIsTrue'
             /\ \A c : Effected(board, c) => Effected(board', c)
             /\ tx.call \notin OrganizerCalls
  <2>1. board' = [board EXCEPT !.eligible = Append(@, v)]
    BY <1>1 DEF Writes, withVoter
  <2>2. ~(Len(board.eligible) >= Capacity)
    <3>1. Reads(call, board) = issueReads(board)
      BY <1>1 DEF Reads
    <3>2. issueAllowed(issueReads(board))
      BY <1>0, <1>1, <3>1 DEF Allowed
    <3>. QED
      BY <3>2, AssertionsHold
  <2>3. /\ board'.eligible = Append(board.eligible, v) /\ board'.phase = board.phase
        /\ board'.spent = board.spent /\ board'.ballots = board.ballots
        /\ board'.revealed = board.revealed /\ board'.tally = board.tally
    BY <2>1 DEF BoardFits
  <2>4. BoardFits'
    <3>1. Len(board.eligible) + 1 <= Capacity
      BY <1>0, <2>2 DEF BoardFits
    <3>2. Append(board.eligible, v) \in Seq(Voters)
          /\ Len(Append(board.eligible, v)) = Len(board.eligible) + 1
      BY DEF BoardFits
    <3>. QED
      BY <2>1, <2>3, <3>1, <3>2 DEF BoardFits
  <2>5. Range(board.eligible) \subseteq Range(board'.eligible)
    BY <2>3, RangeAppend DEF BoardFits
  <2>6. TallyIsTrue'
    BY <2>3, <2>5 DEF TallyIsTrue
  <2>. QED
    BY <1>1, <2>3, <2>4, <2>6 DEF Effected, OrganizerCalls
<1>2. ASSUME NEW v \in Voters, NEW o \in Openings, call = <<"cast", v, o>>
      PROVE  /\ BoardFits' /\ TallyIsTrue'
             /\ \A c : Effected(board, c) => Effected(board', c)
             /\ tx.call \notin OrganizerCalls
  <2>1. board' = [board EXCEPT !.spent = @ \union {v}, !.ballots = Append(@, o)]
    BY <1>2 DEF Writes, withBallot
  <2>2. v \in Range(board.eligible) /\ v \notin board.spent
    <3>1. Reads(call, board) = castReads(board, v)
      BY <1>2 DEF Reads
    <3>2. castAllowed(castReads(board, v))
      BY <1>0, <1>2, <3>1 DEF Allowed
    <3>. QED
      BY <3>2, AssertionsHold DEF isEligible, isSpent
  <2>3. /\ board'.eligible = board.eligible /\ board'.phase = board.phase
        /\ board'.spent = board.spent \union {v}
        /\ board'.ballots = Append(board.ballots, o)
        /\ board'.revealed = board.revealed /\ board'.tally = board.tally
    BY <2>1 DEF BoardFits
  <2>4. BoardFits'
    <3>1. Append(board.ballots, o) \in Seq(Openings)
      BY DEF BoardFits
    <3>. QED
      BY <2>1, <2>3, <3>1 DEF BoardFits
  <2>5. board'.spent \subseteq Range(board'.eligible)
    BY <2>2, <2>3 DEF TallyIsTrue
  <2>6. Cardinality(board'.spent) = Cardinality(board.spent) + 1
    <3>1. IsFiniteSet(board.spent)
      BY RangeBound DEF BoardFits, TallyIsTrue
    <3>. QED
      BY <2>2, <2>3, <3>1, FS_AddElement
  <2>7. Len(board'.ballots) = Cardinality(board'.spent)
    BY <2>3, <2>6 DEF BoardFits, TallyIsTrue
  <2>8. Cardinality(board'.spent) <= Len(board'.eligible) /\ Len(board'.eligible) \in Nat
        /\ Cardinality(board'.spent) \in Nat
    BY <2>3, <2>5, RangeBound DEF BoardFits
  <2>9. board'.revealed \subseteq Range(board'.ballots)
    BY <2>3, RangeAppend DEF BoardFits, TallyIsTrue
  <2>10. TallyIsTrue'
    BY <1>0, <2>3, <2>4, <2>5, <2>7, <2>8, <2>9 DEF TallyIsTrue, BoardFits
  <2>. QED
    BY <1>2, <2>3, <2>4, <2>10 DEF Effected, OrganizerCalls
<1>3. ASSUME NEW o \in Openings, call = <<"reveal", Organizer, o>>
      PROVE  /\ BoardFits' /\ TallyIsTrue' /\ Effected(board', call)
             /\ \A c : Effected(board, c) => Effected(board', c)
  <2>. DEFINE b == ChoiceOf[o]
              Of(R, c) == {x \in R : ChoiceOf[x] = c}
  <2>1. b \in Buckets
    BY DEF Buckets
  <2>2. /\ board.phase = "REVEAL" /\ o \in Range(board.ballots) /\ o \notin board.revealed
        /\ tx.count = board.tally[b] + 1
    <3>1. Reads(call, board) = revealReads(board, o)
      BY <1>3 DEF Reads
    <3>2. revealAllowed(revealReads(board, o))
      BY <1>0, <1>3, <3>1 DEF Allowed
    <3>3. tx.count = revealReads(board, o)[4] + 1
      BY <1>3, <3>1 DEF TxFits
    <3>. QED
      BY <3>2, <3>3, AssertionsHold DEF isCommitted, isRevealed, tallyOf
  <2>3. board' = [board EXCEPT !.revealed = @ \union {o}, !.tally[b] = tx.count]
    BY <1>3 DEF Writes, withOpening
  <2>4. /\ board'.eligible = board.eligible /\ board'.phase = board.phase
        /\ board'.spent = board.spent /\ board'.ballots = board.ballots
        /\ board'.revealed = board.revealed \union {o}
        /\ board'.tally = [board.tally EXCEPT ![b] = tx.count]
    BY <2>3 DEF BoardFits
  <2>5. IsFiniteSet(board'.revealed)
    <3>1. IsFiniteSet(board.revealed)
      BY DEF BoardFits
    <3>. QED
      BY <2>4, <3>1, FS_AddElement
  <2>6. BoardFits'
    <3>1. [board.tally EXCEPT ![b] = tx.count] \in [Buckets -> Nat]
      BY <2>1, <2>2 DEF BoardFits
    <3>. QED
      BY <2>3, <2>4, <2>5, <3>1 DEF BoardFits
  <2>7. ASSUME NEW c \in Buckets
        PROVE  board'.tally[c] = Cardinality(Of(board'.revealed, c))
    <3>1. IsFiniteSet(Of(board.revealed, c))
      BY FS_Subset DEF BoardFits
    <3>2. CASE c = b
      <4>1. Of(board'.revealed, c) = Of(board.revealed, c) \union {o} /\ o \notin Of(board.revealed, c)
        BY <2>2, <2>4, <3>2
      <4>2. Cardinality(Of(board'.revealed, c)) = Cardinality(Of(board.revealed, c)) + 1
        BY <3>1, <4>1, FS_AddElement
      <4>. QED
        BY <2>1, <2>2, <2>4, <3>2, <4>2 DEF BoardFits, TallyIsTrue
    <3>3. CASE c # b
      <4>1. Of(board'.revealed, c) = Of(board.revealed, c)
        BY <2>4, <3>3
      <4>. QED
        BY <2>1, <2>4, <3>3, <4>1 DEF BoardFits, TallyIsTrue
    <3>. QED
      BY <3>2, <3>3
  <2>8. TallyIsTrue'
    BY <2>2, <2>4, <2>7 DEF TallyIsTrue
  <2>. QED
    BY <1>3, <2>2, <2>4, <2>6, <2>8 DEF Effected
<1>4. ASSUME call = <<"close", Organizer, Organizer>> \/ call = <<"finalize", Organizer, Organizer>>
      PROVE  /\ BoardFits' /\ TallyIsTrue' /\ Effected(board', call)
             /\ \A c : Effected(board, c) => Effected(board', c)
  <2>1. \/ /\ call = <<"close", Organizer, Organizer>> /\ board.phase = "COMMIT"
           /\ board' = [board EXCEPT !.phase = "REVEAL"]
        \/ /\ call = <<"finalize", Organizer, Organizer>> /\ board.phase = "REVEAL"
           /\ board' = [board EXCEPT !.phase = "FINALIZED"]
    <3>1. Reads(call, board) = <<board.phase>>
      BY <1>4 DEF Reads, phaseRead
    <3>2. CASE call = <<"close", Organizer, Organizer>>
      BY <1>0, <3>1, <3>2 DEF Allowed, Writes, closing
    <3>3. CASE call = <<"finalize", Organizer, Organizer>>
      BY <1>0, <3>1, <3>3 DEF Allowed, Writes, finalizing
    <3>. QED
      BY <1>4, <3>2, <3>3
  <2>2. /\ board'.eligible = board.eligible
        /\ board'.spent = board.spent /\ board'.ballots = board.ballots
        /\ board'.revealed = board.revealed /\ board'.tally = board.tally
        /\ \/ /\ call = <<"close", Organizer, Organizer>> /\ board.phase = "COMMIT"
              /\ board'.phase = "REVEAL"
           \/ /\ call = <<"finalize", Organizer, Organizer>> /\ board.phase = "REVEAL"
              /\ board'.phase = "FINALIZED"
    BY <2>1 DEF BoardFits
  <2>3. BoardFits'
    BY <2>1, <2>2 DEF BoardFits
  <2>4. TallyIsTrue'
    BY <2>2 DEF TallyIsTrue
  <2>. QED
    BY <2>2, <2>3, <2>4 DEF Effected
<1>. QED
  BY <1>1, <1>2, <1>3, <1>4 DEF TxFits, Calls, VoterCalls, OrganizerCalls

-----------------------------------------------------------------------------
(* What a script carries from one step to the next.                         *)

(* A script that has ended.                                                 *)
LEMMA EndedFits ==
    ASSUME NEW s
    PROVE  ScriptFits(s, Ended) /\ Ended.given = <<>> /\ Ended.todo = <<>>
  BY DEF Ended, ScriptFits, Carrying, Locations

(* The next call, or the end.                                               *)
LEMMA ContinuesFits ==
    ASSUME NEW s, NEW old,
           old \in [pc : {old.pc}, todo : Seq(CallsOf(s)), given : Seq(CallsOf(s)), tx : {old.tx}]
    PROVE  /\ ScriptFits(s, Continues(old))
           /\ \/ Continues(old) = Ended
              \/ Continues(old).todo = old.todo /\ Continues(old).given = old.given
<1>1. CASE old.todo # <<>>
  BY <1>1 DEF Continues, ScriptFits, Carrying, Locations
<1>2. CASE old.todo = <<>> /\ old.given # <<>>
  BY <1>2 DEF Continues, ScriptFits, Carrying, Locations
<1>3. CASE old.todo = <<>> /\ old.given = <<>>
  BY <1>3, EndedFits DEF Continues
<1>. QED
  BY <1>1, <1>2, <1>3

(* The fields of a script.                                                  *)
LEMMA SeatFields ==
    ASSUME SeatsFit, NEW s \in Seats
    PROVE  /\ seat[s] \in [pc : Locations, todo : Seq(CallsOf(s)), given : Seq(CallsOf(s)),
                            tx : {seat[s].tx}]
           /\ seat[s] = [pc |-> seat[s].pc, todo |-> seat[s].todo, given |-> seat[s].given,
                         tx |-> seat[s].tx]
           /\ \A pc : [seat[s] EXCEPT !.pc = pc] =
                [pc |-> pc, todo |-> seat[s].todo, given |-> seat[s].given, tx |-> seat[s].tx]
<1>. DEFINE x == seat[s]
<1>1. x \in [pc : Locations, todo : Seq(CallsOf(s)), given : Seq(CallsOf(s)), tx : {x.tx}]
  BY DEF SeatsFit, ScriptFits
<1>. HIDE DEF x
<1>2. x = [pc |-> x.pc, todo |-> x.todo, given |-> x.given, tx |-> x.tx]
  BY <1>1
<1>3. ASSUME NEW pc
      PROVE  [x EXCEPT !.pc = pc] =
               [pc |-> pc, todo |-> x.todo, given |-> x.given, tx |-> x.tx]
  BY <1>1
<1>. QED
  BY <1>1, <1>2, <1>3 DEF x

(* A script that goes on with a transaction.                                *)
With(script, pc, tx) == [script EXCEPT !.pc = pc, !.tx = tx]

LEMMA WithFields ==
    ASSUME SeatsFit, NEW s \in Seats, NEW pc, NEW tx
    PROVE  With(seat[s], pc, tx) =
             [pc |-> pc, todo |-> seat[s].todo, given |-> seat[s].given, tx |-> tx]
<1>. DEFINE x == seat[s]
            y == [x EXCEPT !.pc = pc, !.tx = tx]
<1>1. x \in [pc : Locations, todo : Seq(CallsOf(s)), given : Seq(CallsOf(s)), tx : {x.tx}]
  BY SeatFields
<1>. HIDE DEF x
<1>2. /\ y \in [pc : {pc}, todo : {x.todo}, given : {x.given}, tx : {tx}]
      /\ y.pc = pc /\ y.tx = tx /\ y.todo = x.todo /\ y.given = x.given
  BY <1>1
<1>. HIDE DEF y
<1>3. y = [pc |-> pc, todo |-> x.todo, given |-> x.given, tx |-> tx]
  BY ONLY <1>2
<1>. QED
  BY ONLY <1>3 DEF x, y, With

(* /balance sets the coin and the run of the relayer, and nothing else.     *)
LEMMA CoinSet ==
    ASSUME NEW tx, TxFits(tx), NEW coin, NEW relay
    PROVE  LET t == [tx EXCEPT !.coin = coin, !.relay = relay]
           IN  TxFits(t) /\ t.call = tx.call
<1>. DEFINE t == [tx EXCEPT !.coin = coin, !.relay = relay]
<1>1. /\ t \in [call : Calls, reads : {tx.reads}, coin : {coin}, by : Seats,
                relay : {relay}, count : {tx.count}]
      /\ t.call = tx.call /\ t.reads = tx.reads /\ t.count = tx.count
      /\ t.coin = coin /\ t.relay = relay
  BY DEF TxFits
<1>. HIDE DEF t
<1>2. TxFits(t)
  BY <1>1 DEF TxFits
<1>. QED
  BY <1>1, <1>2 DEF t

(* One seat changes, and the count is as far as it was, or has ended.       *)
LEMMA SeatStep ==
    ASSUME SeatsFit, CountFits, NEW s \in Seats, NEW script, ScriptFits(s, script),
           seat' = [seat EXCEPT ![s] = script],
           \A call : Effected(board, call) => Effected(board', call),
           \/ script = Ended
           \/ script.todo = seat[s].todo /\ script.given = seat[s].given
    PROVE  SeatsFit' /\ CountFits'
<1>1. /\ seat' = [x \in Seats |-> seat'[x]] /\ seat'[s] = script
      /\ \A x \in Seats \ {s} : seat'[x] = seat[x]
  BY DEF SeatsFit
<1>2. SeatsFit'
  BY <1>1 DEF SeatsFit, ScriptFits
<1>3. CASE s = Organizer /\ script = Ended
  <2>1. seat'[Organizer].given = <<>> /\ seat'[Organizer].todo = <<>>
    BY <1>1, <1>3, EndedFits
  <2>. QED
    <3>1. Len(seat'[Organizer].given) = 0 /\ Len(seat'[Organizer].todo) = 0
      BY ONLY <2>1
    <3>. QED
      BY ONLY <1>2, <3>1 DEF CountFits
<1>4. CASE ~(s = Organizer /\ script = Ended)
  <2>1. /\ seat'[Organizer].given = seat[Organizer].given
        /\ seat'[Organizer].todo = seat[Organizer].todo
    BY <1>1, <1>4 DEF Seats
  <2>. QED
    BY <1>2, <2>1 DEF CountFits
<1>. QED
  BY <1>2, <1>3, <1>4

(* The ledger stays as it is.                                               *)
LEMMA BoardKept ==
    ASSUME V1Inv, UNCHANGED board
    PROVE  /\ BoardFits' /\ TallyIsTrue'
           /\ \A call : Effected(board, call) => Effected(board', call)
  BY DEF V1Inv, BoardFits, TallyIsTrue, Effected

(* A script that throws, dies or is stopped.                                *)
LEMMA ThrowsKeeps ==
    ASSUME V1Inv, NEW s \in Seats, Throws(s), UNCHANGED <<board, flight>>
    PROVE  V1Inv'
  BY BoardKept, EndedFits, SeatStep DEF Throws, V1Inv, FlightFits

(* executor.call: what the transaction read is what the ledger said.        *)
LEMMA BuildKeeps ==
    ASSUME V1Inv, NEW s \in Seats, Build(s)
    PROVE  V1Inv'
<1>. DEFINE call == Head(seat[s].todo)
            r == Reads(call, board)
            tx == [call |-> call, reads |-> r, coin |-> NoCoin, by |-> s, relay |-> relayRuns,
                   count |-> IF call[1] = "reveal" THEN tallyOf(board, call[3]) + 1 ELSE 0]
            script == [pc |-> "built", todo |-> seat[s].todo, given |-> seat[s].given,
                       tx |-> tx]
<1>0. SeatsFit /\ CountFits /\ UNCHANGED <<board, flight>>
  BY DEF V1Inv, Build
<1>1. CASE Allowed(call, r)
  <2>1. call \in Calls
    <3>1. seat[s].todo \in Seq(CallsOf(s)) /\ seat[s].todo # <<>>
      BY <1>0, SeatFields DEF Build
    <3>2. call \in CallsOf(s)
      BY ONLY <3>1
    <3>. QED
      BY <3>2 DEF CallsOf, Calls
  <2>2. call[1] = "reveal" => r[4] = tallyOf(board, call[3])
    <3>1. call[1] = "reveal" => r = revealReads(board, call[3])
      BY DEF Reads
    <3>. QED
      BY <3>1, AssertionsHold
  <2>3. TxFits(tx)
    BY <1>1, <2>1, <2>2 DEF TxFits
  <2>4. seat' = [seat EXCEPT ![s] = script]
    <3>1. seat' = [seat EXCEPT ![s].pc = "built", ![s].tx = tx]
      BY <1>1 DEF Build
    <3>2. With(seat[s], "built", tx) = script
      <4>. HIDE DEF tx
      <4>. QED
        BY ONLY <1>0, s \in Seats, WithFields
    <3>3. seat' = [seat EXCEPT ![s] = With(seat[s], "built", tx)]
      BY ONLY <3>1 DEF With
    <3>. QED
      BY ONLY <3>2, <3>3
  <2>5. ScriptFits(s, script)
    BY <1>0, <2>3, SeatFields DEF ScriptFits, Carrying, Locations, Build
  <2>. QED
    BY <1>0, <2>4, <2>5, BoardKept, SeatStep DEF V1Inv, FlightFits
<1>2. CASE ~Allowed(call, r)
  BY <1>0, <1>2, ThrowsKeeps DEF Build
<1>. QED
  BY <1>1, <1>2

(* POST /balance and POST /submit add a coin to the transaction and hand it *)
(* over as it is.                                                           *)
LEMMA HandOverKeeps ==
    ASSUME V1Inv, NEW s \in Seats, Balance(s) \/ Finalize(s) \/ Submit(s)
    PROVE  V1Inv'
<1>0. SeatsFit /\ CountFits /\ FlightFits /\ UNCHANGED board
  BY DEF V1Inv, Balance, Finalize, Submit
<1>. DEFINE tx == seat[s].tx
            Script(pc, t) == [pc |-> pc, todo |-> seat[s].todo, given |-> seat[s].given,
                              tx |-> t]
<1>1. TxFits(tx) /\ seat[s].todo # <<>> /\ tx.call = Head(seat[s].todo)
  BY <1>0 DEF SeatsFit, ScriptFits, Carrying, Balance, Finalize, Submit
<1>2. ASSUME NEW pc \in Carrying, NEW t, TxFits(t), t.call = tx.call,
             seat' = [seat EXCEPT ![s] = Script(pc, t)], FlightFits'
      PROVE  V1Inv'
  <2>1. ScriptFits(s, Script(pc, t))
    BY <1>0, <1>1, <1>2, SeatFields DEF ScriptFits, Carrying, Locations
  <2>. QED
    BY <1>0, <1>2, <2>1, BoardKept, SeatStep DEF V1Inv
<1>3. CASE Balance(s)
  <2>1. CASE purse = NoCoin
    BY <1>3, <2>1, ThrowsKeeps DEF Balance
  <2>2. CASE purse # NoCoin
    <3>. DEFINE t == [tx EXCEPT !.coin = purse, !.relay = relayRuns]
    <3>1. seat' = [seat EXCEPT ![s].pc = "balancing", ![s].tx.coin = purse,
                               ![s].tx.relay = relayRuns]
      BY <1>3, <2>2 DEF Balance
    <3>2. seat' = [seat EXCEPT ![s].pc = "balancing", ![s].tx = t]
      BY ONLY <3>1
    <3>3. TxFits(t) /\ t.call = tx.call
      BY <1>1, CoinSet
    <3>. HIDE DEF t
    <3>4. seat' = [seat EXCEPT ![s] = Script("balancing", t)]
      <4>1. With(seat[s], "balancing", t) = Script("balancing", t)
        BY ONLY <1>0, s \in Seats, WithFields
      <4>2. seat' = [seat EXCEPT ![s] = With(seat[s], "balancing", t)]
        BY ONLY <3>2 DEF With
      <4>. QED
        BY ONLY <4>1, <4>2
    <3>5. FlightFits'
      BY <1>0, <1>3 DEF FlightFits, Balance
    <3>. QED
      BY <1>2, <3>3, <3>4, <3>5 DEF Carrying
  <2>. QED
    BY <2>1, <2>2
<1>4. CASE Finalize(s)
  <2>1. seat' = [seat EXCEPT ![s].pc = "balanced"] /\ UNCHANGED flight
    BY <1>4 DEF Finalize
  <2>2. seat' = [seat EXCEPT ![s] = Script("balanced", tx)]
    <3>1. [seat[s] EXCEPT !.pc = "balanced"] = Script("balanced", tx)
      BY <1>0, SeatFields
    <3>. QED
      BY ONLY <2>1, <3>1
  <2>. QED
    BY <1>0, <1>1, <1>2, <2>1, <2>2 DEF Carrying, FlightFits
<1>5. CASE Submit(s)
  <2>1. CASE tx.coin # dust
    BY <1>5, <2>1, ThrowsKeeps DEF Submit
  <2>2. CASE tx.coin = dust
    <3>1. seat' = [seat EXCEPT ![s].pc = "submitted"] /\ flight' = flight \union {tx}
      BY <1>5, <2>2 DEF Submit
    <3>2. seat' = [seat EXCEPT ![s] = Script("submitted", tx)]
      <4>1. [seat[s] EXCEPT !.pc = "submitted"] = Script("submitted", tx)
        BY <1>0, SeatFields
      <4>. QED
        BY ONLY <3>1, <4>1
    <3>. QED
      BY <1>0, <1>1, <1>2, <3>1, <3>2 DEF Carrying, FlightFits
  <2>. QED
    BY <2>1, <2>2
<1>. QED
  BY <1>3, <1>4, <1>5

(* The count is one call further.                                           *)
LEMMA AdvanceStep ==
    ASSUME SeatsFit, CountFits, NEW s \in Seats, NEW script, ScriptFits(s, script),
           seat' = [seat EXCEPT ![s] = script],
           \A call : Effected(board, call) => Effected(board', call),
           seat[s].todo # <<>>,
           s = Organizer => Effected(board', Head(seat[s].todo)),
           \/ script = Ended
           \/ script.todo = Tail(seat[s].todo) /\ script.given = seat[s].given
    PROVE  SeatsFit' /\ CountFits'
<1>1. CASE script = Ended \/ s # Organizer
  <2>1. /\ seat' = [x \in Seats |-> seat'[x]] /\ seat'[s] = script
        /\ \A x \in Seats \ {s} : seat'[x] = seat[x]
    BY DEF SeatsFit
  <2>2. SeatsFit'
    BY <2>1 DEF SeatsFit, ScriptFits
  <2>3. CASE s = Organizer /\ script = Ended
    <3>1. seat'[Organizer].given = <<>> /\ seat'[Organizer].todo = <<>>
      BY <2>1, <2>3, EndedFits
    <3>2. Len(seat'[Organizer].given) = 0 /\ Len(seat'[Organizer].todo) = 0
      BY ONLY <3>1
    <3>. QED
      BY ONLY <2>2, <3>2 DEF CountFits
  <2>4. CASE s # Organizer
    <3>1. /\ seat'[Organizer].given = seat[Organizer].given
          /\ seat'[Organizer].todo = seat[Organizer].todo
      BY <2>1, <2>4 DEF Seats
    <3>. QED
      BY <2>2, <3>1 DEF CountFits
  <2>. QED
    BY <1>1, <2>3, <2>4
<1>2. CASE script # Ended /\ s = Organizer
  <2>. DEFINE given == seat[Organizer].given
              todo == seat[Organizer].todo
              behind == Len(given) - Len(todo)
  <2>1. /\ seat' = [x \in Seats |-> seat'[x]] /\ seat'[s] = script
        /\ \A x \in Seats \ {s} : seat'[x] = seat[x]
    BY DEF SeatsFit
  <2>2. SeatsFit'
    BY <2>1 DEF SeatsFit, ScriptFits
  <2>3. seat'[Organizer].given = given /\ seat'[Organizer].todo = Tail(todo)
    BY <1>2, <2>1
  <2>4. /\ todo \in Seq(CallsOf(s)) /\ given \in Seq(CallsOf(s)) /\ todo # <<>>
    BY <1>2, SeatFields
  <2>5. /\ behind >= 0
        /\ \A i \in 1..Len(todo) : todo[i] = given[behind + i]
        /\ \A i \in 1..behind : Effected(board', given[i])
        /\ Effected(board', Head(todo))
    BY <1>2 DEF CountFits
  <2>. HIDE DEF given, todo
  <2>6. /\ Len(todo) \in Nat \ {0} /\ Len(given) \in Nat /\ Len(Tail(todo)) = Len(todo) - 1
        /\ Head(todo) = todo[1] /\ \A i \in 1..Len(Tail(todo)) : Tail(todo)[i] = todo[i + 1]
    BY ONLY <2>4
  <2>7. Len(given) - Len(Tail(todo)) = behind + 1 /\ behind \in Nat
    BY ONLY <2>5, <2>6
  <2>. HIDE DEF behind
  <2>8. \A i \in 1..Len(Tail(todo)) : Tail(todo)[i] = given[(behind + 1) + i]
    BY ONLY <2>5, <2>6, <2>7
  <2>9. \A i \in 1..(behind + 1) : Effected(board', given[i])
    BY ONLY <2>5, <2>6, <2>7
  <2>10. CountFits'
    <3>1. Len(seat'[Organizer].given) - Len(seat'[Organizer].todo) = behind + 1
      BY ONLY <2>3, <2>7
    <3>2. behind + 1 >= 0
      BY ONLY <2>7
    <3>. QED
      BY ONLY <2>3, <2>8, <2>9, <3>1, <3>2 DEF CountFits
  <2>. QED
    BY <2>2, <2>10
<1>. QED
  BY <1>1, <1>2

(* A call that has returned its receipt leaves the rest of the script.      *)
LEMMA ReturnedFits ==
    ASSUME SeatsFit, NEW s \in Seats, seat[s].todo # <<>>
    PROVE  /\ ScriptFits(s, Returned(seat[s]))
           /\ \/ Returned(seat[s]) = Ended
              \/ /\ Returned(seat[s]).todo = Tail(seat[s].todo)
                 /\ Returned(seat[s]).given = seat[s].given
<1>. DEFINE x == seat[s]
            rest == Tail(x.todo)
            a == [x EXCEPT !.pc = "change", !.todo = rest, !.tx = <<>>]
            b == [x EXCEPT !.todo = rest, !.tx = <<>>]
<1>1. Returned(x) = a \/ Returned(x) = Continues(b)
  BY DEF Returned
<1>2. /\ x \in [pc : Locations, todo : Seq(CallsOf(s)), given : Seq(CallsOf(s)), tx : {x.tx}]
      /\ x.todo # <<>>
  BY SeatFields
<1>. HIDE DEF x
<1>3. rest \in Seq(CallsOf(s))
  BY ONLY <1>2
<1>. HIDE DEF rest
<1>4. /\ a \in [pc : {"change"}, todo : {rest}, given : {x.given}, tx : {<<>>}]
      /\ b \in [pc : {x.pc}, todo : {rest}, given : {x.given}, tx : {<<>>}]
  BY ONLY <1>2, <1>3
<1>. HIDE DEF a, b
<1>5. ScriptFits(s, a) /\ a.todo = rest /\ a.given = x.given
  BY ONLY <1>2, <1>3, <1>4 DEF ScriptFits, Locations, Carrying
<1>6. /\ ScriptFits(s, Continues(b))
      /\ Continues(b) = Ended \/ (Continues(b).todo = rest /\ Continues(b).given = x.given)
  <2>1. /\ b \in [pc : {b.pc}, todo : Seq(CallsOf(s)), given : Seq(CallsOf(s)), tx : {b.tx}]
        /\ b.todo = rest /\ b.given = x.given
    BY ONLY <1>2, <1>3, <1>4
  <2>. QED
    BY ONLY <2>1, ContinuesFits
<1>. QED
  BY <1>1, <1>5, <1>6 DEF x, rest

(* A block takes a transaction.                                             *)
LEMMA LandKeeps ==
    ASSUME V1Inv, NEW tx \in flight, Land(tx)
    PROVE  V1Inv'
<1>. DEFINE s == tx.by
            valid == Reads(tx.call, board) = tx.reads
<1>0. BoardFits /\ TallyIsTrue /\ FlightFits /\ SeatsFit /\ CountFits
  BY DEF V1Inv
<1>1. TxFits(tx) /\ s \in Seats
  BY <1>0 DEF FlightFits, TxFits
<1>2. FlightFits'
  BY <1>0 DEF FlightFits, Land
<1>3. /\ BoardFits' /\ TallyIsTrue'
      /\ \A call : Effected(board, call) => Effected(board', call)
      /\ valid /\ tx.call \in OrganizerCalls => Effected(board', tx.call)
  <2>1. CASE valid
    <3>1. board' = Writes(tx, board)
      BY <2>1 DEF Land
    <3>. QED
      BY ONLY <1>0, <1>1, <2>1, <3>1, WritesKeep
  <2>2. CASE ~valid
    <3>1. UNCHANGED board
      BY <2>2 DEF Land
    <3>. QED
      BY <2>2, <3>1, BoardKept
  <2>. QED
    BY <2>1, <2>2
<1>4. CASE seat' = seat
  <2>1. SeatsFit' /\ CountFits'
    BY <1>0, <1>3, <1>4 DEF SeatsFit, CountFits
  <2>. QED
    BY <1>2, <1>3, <2>1 DEF V1Inv
<1>5. CASE Throws(s)
  <2>1. SeatsFit' /\ CountFits'
    BY <1>0, <1>1, <1>3, <1>5, EndedFits, SeatStep DEF Throws
  <2>. QED
    BY <1>2, <1>3, <2>1 DEF V1Inv
<1>6. CASE /\ valid /\ seat[s].pc = "submitted" /\ seat[s].tx = tx
           /\ seat' = [seat EXCEPT ![s] = Returned(seat[s])]
  <2>1. seat[s].todo # <<>> /\ tx.call = Head(seat[s].todo)
    BY <1>0, <1>1, <1>6 DEF SeatsFit, ScriptFits, Carrying
  <2>2. seat[s].todo \in Seq(CallsOf(s))
    BY <1>0, <1>1, SeatFields
  <2>3. tx.call \in CallsOf(s)
    BY ONLY <2>1, <2>2
  <2>4. s = Organizer => Effected(board', Head(seat[s].todo))
    BY <1>3, <1>6, <2>1, <2>3 DEF CallsOf
  <2>. DEFINE script == Returned(seat[s])
  <2>5. /\ ScriptFits(s, script)
        /\ script = Ended \/ (script.todo = Tail(seat[s].todo) /\ script.given = seat[s].given)
    BY ONLY <1>0, <1>1, <2>1, ReturnedFits
  <2>6. seat' = [seat EXCEPT ![s] = script]
    BY <1>6
  <2>. HIDE DEF script
  <2>7. SeatsFit' /\ CountFits'
    BY ONLY <1>0, <1>1, <1>3, <2>1, <2>4, <2>5, <2>6, AdvanceStep
  <2>. QED
    BY <1>2, <1>3, <2>7 DEF V1Inv
<1>. QED
  BY <1>4, <1>5, <1>6 DEF Land

-----------------------------------------------------------------------------
(* The scripts start with the calls that are theirs.                        *)

LEMMA StartsKeeps ==
    ASSUME V1Inv, NEW s \in Seats, NEW calls \in Seq(CallsOf(s)), Starts(s, calls)
    PROVE  V1Inv'
<1>. DEFINE old == [pc |-> "next", todo |-> calls, tx |-> <<>>,
                    given |-> IF s = Organizer THEN calls ELSE <<>>]
            script == Continues(old)
<1>0. SeatsFit /\ CountFits /\ FlightFits /\ UNCHANGED <<board, flight>>
  BY DEF V1Inv, Starts
<1>1. /\ old \in [pc : {old.pc}, todo : Seq(CallsOf(s)), given : Seq(CallsOf(s)),
                  tx : {old.tx}]
      /\ old.todo = calls /\ (s = Organizer => old.given = calls)
  OBVIOUS
<1>2. seat' = [seat EXCEPT ![s] = script]
  BY DEF Starts
<1>. HIDE DEF old
<1>3. /\ ScriptFits(s, script)
      /\ script = Ended \/ (script.todo = old.todo /\ script.given = old.given)
  BY ONLY <1>1, ContinuesFits
<1>. HIDE DEF script
<1>4. /\ seat' = [x \in Seats |-> seat'[x]] /\ seat'[s] = script
      /\ \A x \in Seats \ {s} : seat'[x] = seat[x]
  BY <1>0, <1>2 DEF SeatsFit
<1>5. SeatsFit'
  BY <1>0, <1>3, <1>4 DEF SeatsFit, ScriptFits
<1>6. CASE s = Organizer
  <2>1. seat'[Organizer].given = seat'[Organizer].todo
    BY <1>1, <1>3, <1>4, <1>6, EndedFits
  <2>2. seat'[Organizer].todo \in Seq(CallsOf(s))
    BY <1>5, <1>6 DEF SeatsFit, ScriptFits
  <2>3. Len(seat'[Organizer].todo) \in Nat
    BY ONLY <2>2
  <2>4. CountFits'
    BY ONLY <2>1, <2>3 DEF CountFits
  <2>. QED
    BY <1>0, <1>5, <2>4, BoardKept DEF V1Inv, FlightFits
<1>7. CASE s # Organizer
  <2>1. /\ seat'[Organizer].given = seat[Organizer].given
        /\ seat'[Organizer].todo = seat[Organizer].todo
    BY <1>4, <1>7 DEF Seats
  <2>2. CountFits'
    BY <1>0, <2>1 DEF CountFits
  <2>. QED
    BY <1>0, <1>5, <2>2, BoardKept DEF V1Inv, FlightFits
<1>. QED
  BY <1>6, <1>7

(* Lists of calls: of none, of one, and joined. *)
LEMMA ListsOfCalls ==
    ASSUME NEW S
    PROVE  /\ <<>> \in Seq(S)
           /\ \A x \in S : <<x>> \in Seq(S)
           /\ \A a, b \in Seq(S) : a \o b \in Seq(S)
<1>1. <<>> \in Seq(S)
  OBVIOUS
<1>2. ASSUME NEW x \in S PROVE <<x>> \in Seq(S)
  OBVIOUS
<1>3. ASSUME NEW a \in Seq(S), NEW b \in Seq(S) PROVE a \o b \in Seq(S)
  OBVIOUS
<1>. QED
  BY <1>1, <1>2, <1>3

(* deploy-referendum --issue, cast-vote-e2e and count-referendum.           *)
LEMMA ScriptsKeep ==
    ASSUME V1Inv
    PROVE  /\ \A v \in Voters : IssueScript(v) => V1Inv'
           /\ \A v \in Voters : \A o \in MayUse[v] : CastScript(v, o) => V1Inv'
           /\ \A os \in CountArgs, flag \in {"", "--no-finalize", "--close-only"} :
                CountScript(os, flag) => V1Inv'
<1>1. ASSUME NEW v \in Voters, IssueScript(v) PROVE V1Inv'
  <2>1. v \in Seats /\ v # Organizer
    BY V1Assumption DEF Seats
  <2>2. <<"issue", v, v>> \in CallsOf(v)
    BY <2>1 DEF CallsOf, VoterCalls
  <2>3. <<<<"issue", v, v>>>> \in Seq(CallsOf(v))
    BY ONLY <2>2
  <2>. QED
    BY <1>1, <2>1, <2>3, StartsKeeps DEF IssueScript
<1>2. ASSUME NEW v \in Voters, NEW o \in MayUse[v], CastScript(v, o) PROVE V1Inv'
  <2>1. v \in Seats /\ v # Organizer /\ o \in Openings
    BY V1Assumption DEF Seats
  <2>2. castCall(v, o) \in CallsOf(v)
    BY <2>1 DEF CallsOf, VoterCalls, castCall
  <2>3. <<castCall(v, o)>> \in Seq(CallsOf(v))
    BY ONLY <2>2
  <2>. QED
    BY <1>2, <2>1, <2>3, StartsKeeps DEF CastScript
<1>3. ASSUME NEW os \in CountArgs, NEW flag \in {"", "--no-finalize", "--close-only"},
             CountScript(os, flag)
      PROVE  V1Inv'
  <2>. DEFINE close == IF board.phase = "COMMIT" THEN <<<<"close", Organizer, Organizer>>>>
                                                  ELSE <<>>
              reveals == [i \in DOMAIN os |-> revealCall(os[i])]
              final == <<<<"finalize", Organizer, Organizer>>>>
  <2>1. /\ <<"close", Organizer, Organizer>> \in OrganizerCalls
        /\ <<"finalize", Organizer, Organizer>> \in OrganizerCalls
        /\ \A o \in Openings : revealCall(o) \in OrganizerCalls
    BY DEF OrganizerCalls, revealCall
  <2>2. os \in Seq(Openings)
    BY V1Assumption
  <2>3. close \in Seq(OrganizerCalls) /\ final \in Seq(OrganizerCalls)
    <3>1. /\ <<>> \in Seq(OrganizerCalls)
          /\ <<<<"close", Organizer, Organizer>>>> \in Seq(OrganizerCalls)
          /\ <<<<"finalize", Organizer, Organizer>>>> \in Seq(OrganizerCalls)
      BY <2>1, ListsOfCalls
    <3>. QED
      BY <3>1, Zenon
  <2>4. reveals \in Seq(OrganizerCalls)
    <3>1. \A i \in DOMAIN os : os[i] \in Openings
      BY <2>2, ElementOfSeq, LenProperties
    <3>2. \A i \in DOMAIN os : revealCall(os[i]) \in OrganizerCalls
      BY <2>1, <3>1, Zenon
    <3>3. DOMAIN os = 1..Len(os) /\ Len(os) \in Nat
      BY <2>2, LenProperties
    <3>4. reveals \in [1..Len(os) -> OrganizerCalls]
      BY <3>2, <3>3, Zenon
    <3>. HIDE DEF reveals
    <3>. QED
      BY <3>3, <3>4, SeqDef
  <2>5. \E calls \in Seq(OrganizerCalls) : Starts(Organizer, calls)
    <3>1. \/ Starts(Organizer, close) \/ Starts(Organizer, close \o reveals)
          \/ Starts(Organizer, close \o reveals \o final)
      <4>1. CASE flag = "--close-only"
        BY <1>3, <4>1 DEF CountScript
      <4>2. CASE flag = "--no-finalize"
        BY <1>3, <4>2 DEF CountScript
      <4>3. CASE flag = ""
        BY <1>3, <4>3 DEF CountScript
      <4>. QED
        BY <4>1, <4>2, <4>3
    <3>. HIDE DEF close, reveals, final
    <3>2. close \o reveals \in Seq(OrganizerCalls)
      BY ONLY <2>3, <2>4, ListsOfCalls
    <3>3. close \o reveals \o final \in Seq(OrganizerCalls)
      BY ONLY <2>3, <3>2, ListsOfCalls
    <3>. QED
      BY ONLY <2>3, <3>1, <3>2, <3>3
  <2>6. Organizer \in Seats /\ CallsOf(Organizer) = OrganizerCalls
    BY DEF Seats, CallsOf
  <2>. QED
    BY <2>5, <2>6, StartsKeeps
<1>. QED
  BY <1>1, <1>2, <1>3

(* The wallet's blocks, missing paths, the change of the coin, deaths and   *)
(* restarts.                                                                *)
LEMMA RestKeeps ==
    ASSUME V1Inv,
           \/ SeeBlock \/ NoPath \/ ChangeLanded \/ RestartRelayer
           \/ \E s \in Seats : ScriptDies(s)
    PROVE  V1Inv'
<1>0. SeatsFit /\ CountFits /\ FlightFits /\ UNCHANGED <<board, flight>> /\ Organizer \in Seats
  BY DEF V1Inv, SeeBlock, NoPath, ChangeLanded, RestartRelayer, ScriptDies, Seats
<1>1. CASE SeeBlock
  <2>1. UNCHANGED seat
    BY <1>1 DEF SeeBlock
  <2>. QED
    BY <1>0, <2>1, BoardKept DEF V1Inv, SeatsFit, CountFits, FlightFits
<1>2. CASE NoPath
  BY <1>0, <1>2, ThrowsKeeps DEF NoPath
<1>3. CASE ChangeLanded
  <2>1. CASE hasDust
    <3>1. seat' = [seat EXCEPT ![Organizer] = Continues(seat[Organizer])]
      BY <1>3, <2>1 DEF ChangeLanded
    <3>. DEFINE x == seat[Organizer]
    <3>2. x \in [pc : {x.pc}, todo : Seq(CallsOf(Organizer)), given : Seq(CallsOf(Organizer)),
                 tx : {x.tx}]
      <4>1. x \in [pc : Locations, todo : Seq(CallsOf(Organizer)),
                   given : Seq(CallsOf(Organizer)), tx : {x.tx}]
        BY <1>0, SeatFields
      <4>. HIDE DEF x
      <4>. QED
        BY ONLY <4>1
    <3>3. /\ ScriptFits(Organizer, Continues(x))
          /\ \/ Continues(x) = Ended
             \/ Continues(x).todo = x.todo /\ Continues(x).given = x.given
      <4>. HIDE DEF x
      <4>. QED
        BY ONLY <3>2, ContinuesFits
    <3>4. \A call : Effected(board, call) => Effected(board', call)
      BY <1>0
    <3>. DEFINE script == Continues(x)
    <3>. HIDE DEF script
    <3>5. SeatsFit' /\ CountFits'
      BY ONLY <1>0, <3>1, <3>3, <3>4, SeatStep DEF script
    <3>. QED
      BY <1>0, <3>5, BoardKept DEF V1Inv, FlightFits
  <2>2. CASE ~hasDust
    BY <1>0, <1>3, <2>2, ThrowsKeeps DEF ChangeLanded
  <2>. QED
    BY <2>1, <2>2
<1>4. CASE RestartRelayer
  <2>1. seat' = [s \in Seats |-> IF seat[s].pc = "balancing" THEN Ended ELSE seat[s]]
    BY <1>4 DEF RestartRelayer
  <2>2. SeatsFit'
    BY <1>0, <2>1, EndedFits DEF SeatsFit
  <2>3. CountFits'
    <3>1. CASE seat'[Organizer] = Ended
      <4>1. seat'[Organizer].given = <<>> /\ seat'[Organizer].todo = <<>>
        BY <3>1, EndedFits
      <4>2. Len(seat'[Organizer].given) = 0 /\ Len(seat'[Organizer].todo) = 0
        BY ONLY <4>1
      <4>. QED
        BY ONLY <4>2 DEF CountFits
    <3>2. CASE seat'[Organizer] = seat[Organizer]
      BY <1>0, <3>2 DEF CountFits
    <3>. QED
      BY <1>0, <2>1, <3>1, <3>2
  <2>. QED
    BY <1>0, <2>2, <2>3, BoardKept DEF V1Inv, FlightFits
<1>5. CASE \E s \in Seats : ScriptDies(s)
  BY <1>0, <1>5, ThrowsKeeps DEF ScriptDies, Throws
<1>. QED
  BY <1>1, <1>2, <1>3, <1>4, <1>5

-----------------------------------------------------------------------------

(* The state the deployment leaves.                                         *)
LEMMA V1InitInv == V1Init => V1Inv
<1>. SUFFICES ASSUME V1Init PROVE V1Inv
  OBVIOUS
<1>1. /\ board.phase = "COMMIT" /\ board.eligible = <<>> /\ board.spent = {}
      /\ board.ballots = <<>> /\ board.revealed = {} /\ board.tally = noVotes
      /\ flight = {} /\ seat = [s \in Seats |-> Ended]
  BY DEF V1Init, constructed
<1>2. BoardFits
  <2>1. Len(<<>>) <= Capacity
    BY V1Assumption
  <2>. QED
    BY <1>1, <2>1, FS_EmptySet DEF BoardFits, V1Init, constructed, noVotes
<1>3. TallyIsTrue
  <2>1. Cardinality({}) = 0 /\ Len(<<>>) = 0 /\ 0 <= Capacity
    BY FS_EmptySet, V1Assumption
  <2>2. \A c \in Buckets : {o \in {} : ChoiceOf[o] = c} = {}
    OBVIOUS
  <2>. QED
    BY <1>1, <2>1, <2>2 DEF TallyIsTrue, noVotes
<1>4. SeatsFit
  BY <1>1, EndedFits DEF SeatsFit
<1>5. CountFits
  <2>1. seat[Organizer].given = <<>> /\ seat[Organizer].todo = <<>>
    BY <1>1, EndedFits DEF Seats
  <2>2. Len(seat[Organizer].given) = 0 /\ Len(seat[Organizer].todo) = 0
    BY ONLY <2>1
  <2>. QED
    BY ONLY <2>2 DEF CountFits
<1>. QED
  BY <1>1, <1>2, <1>3, <1>4, <1>5 DEF V1Inv, FlightFits

(* Every step keeps the invariant.                                          *)
LEMMA V1NextInv == V1Inv /\ [V1Next]_v1vars => V1Inv'
<1>. SUFFICES ASSUME V1Inv, [V1Next]_v1vars PROVE V1Inv'
  OBVIOUS
<1>1. CASE V1Next
  BY <1>1, BuildKeeps, HandOverKeeps, LandKeeps, RestKeeps, ScriptsKeep DEF V1Next
<1>2. CASE UNCHANGED v1vars
  <2>1. UNCHANGED <<board, flight, seat>>
    BY <1>2 DEF v1vars
  <2>. QED
    BY <2>1, BoardKept DEF V1Inv, SeatsFit, CountFits, FlightFits
<1>. QED
  BY <1>1, <1>2

(* What the panel shows as the result is the result, whatever transactions  *)
(* of dead, repeated or concurrent scripts land in whatever order.          *)
THEOREM V1TallyIsTrue == V1Spec => []TallyIsTrue
<1>1. V1Inv => TallyIsTrue
  BY DEF V1Inv
<1>. QED
  BY <1>1, V1InitInv, V1NextInv, PTL DEF V1Spec

(* A count-referendum that ended well has done all it was asked to.         *)
THEOREM V1CountIsWhole == V1Spec => []CountIsWhole
<1>1. V1Inv => CountIsWhole
  <2>. SUFFICES ASSUME V1Inv, seat[Organizer].pc = "done",
                       NEW i \in DOMAIN seat[Organizer].given
                PROVE  Effected(board, seat[Organizer].given[i])
    BY DEF CountIsWhole, Effected
  <2>1. Organizer \in Seats /\ SeatsFit /\ CountFits
    BY DEF V1Inv, Seats
  <2>2. seat[Organizer].todo = <<>>
    BY <2>1 DEF SeatsFit, ScriptFits
  <2>3. seat[Organizer].given \in Seq(CallsOf(Organizer))
    BY <2>1, SeatFields
  <2>4. /\ DOMAIN seat[Organizer].given = 1..Len(seat[Organizer].given)
        /\ Len(seat[Organizer].todo) = 0 /\ Len(seat[Organizer].given) \in Nat
    BY ONLY <2>2, <2>3
  <2>. QED
    BY <2>1, <2>4 DEF CountFits
<1>. QED
  BY <1>1, V1InitInv, V1NextInv, PTL DEF V1Spec
=============================================================================
