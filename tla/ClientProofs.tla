---------------------------- MODULE ClientProofs ----------------------------
(***************************************************************************)
(* Proofs about the two long operations of the browser, VoteClient and     *)
(* Enrollment, for any number of polls, attempts, enrollments and          *)
(* disturbances.                                                           *)
(***************************************************************************)
EXTENDS VoteClient, Enrollment, TLAPS

-----------------------------------------------------------------------------
(* Voting.  The lock of a provider is held by one attempt at a time, so a  *)
(* pending record of its walletless context is only touched by the attempt *)
(* at the head of the line: it stays until its action is settled.          *)

Places == Running \cup Over \cup {"free"}

OpShape ==
    [pc : Places, poll : Polls \cup {NULL}, choice : Answers \cup {NULL},
     provider : Providers \cup {NULL}, opening : Opening \cup {NULL},
     action : Attempts \cup {NULL}, seen : SUBSET Attempts]

(* Where an attempt is from once it has been confirmed on screen.           *)
Placed ==
    \A a \in Attempts :
        op[a].pc # "free" =>
            op[a].poll \in Polls /\ op[a].provider \in Providers /\ op[a].choice \in Answers

Locked == \A a \in Attempts : op[a].pc \in InLock => Holds(a)

(* A ballot is proved with the opening that was stored for it.              *)
Opened ==
    \A a \in Attempts :
        /\ op[a].pc = "prove" => privateState[op[a].poll] \in Opening
        /\ op[a].pc \in {"submit", "post", "wait", "finalize"} => op[a].opening \in Opening

BeforeSending == {"free", "authorize", "joined", "queued", "prove", "submit", "post"}

(* A transaction is sent once, for the poll of its attempt; the ledger      *)
(* holds the opening of the one that is confirmed.                          *)
JobsFit ==
    \A a \in Attempts :
        /\ op[a].pc \in BeforeSending => job[a].status = "none"
        /\ job[a].status # "none" => job[a].poll = op[a].poll /\ job[a].opening \in Opening
        /\ job[a].status = "confirmed" => ledger[job[a].poll] = job[a].opening

IsSponsored(a) == op[a].provider[2] = "sponsored"

(* The pending record of a context and a poll is of an attempt of both, and *)
(* it is that of every action that is asked for, waited for or undecided.   *)
RecordsFit ==
    /\ \A g \in Pages, p \in Polls :
         LET b == pendingStore[<<g, p>>] IN
         b # NULL => /\ op[b].pc # "free" /\ op[b].poll = p
                     /\ op[b].provider = <<g, "sponsored">>
    /\ \A a \in Attempts :
         /\ op[a].pc = "post" => IsSponsored(a) /\ pendingStore[Key(a)] = a /\ op[a].action = a
         /\ op[a].pc = "wait" /\ IsSponsored(a) => pendingStore[Key(a)] = op[a].action
         /\ job[a].status = "pending" /\ IsSponsored(a) => pendingStore[Key(a)] = a

(* What an attempt waits for was sent, and for its own poll.                *)
ActionsFit ==
    \A a \in Attempts :
        /\ op[a].pc = "wait" =>
             /\ op[a].action \in Attempts /\ job[op[a].action].status # "none"
             /\ job[op[a].action].poll = op[a].poll
        /\ op[a].pc = "joined" =>
             /\ op[a].action \in Attempts /\ op[op[a].action].pc # "free"
             /\ op[op[a].action].poll = op[a].poll

(* What was read of the vault, and what is in it, was confirmed.            *)
ReceiptsFit ==
    /\ \A a \in Attempts : HasReceipt(a) => op[a].action \in Attempts
    /\ \A a \in Attempts : \A b \in op[a].seen : job[b].status = "confirmed"
    /\ ReceiptBackedByLedger

VoteInv ==
    /\ VTypeOK /\ Placed /\ Locked /\ Opened /\ JobsFit /\ RecordsFit /\ ActionsFit
    /\ ReceiptsFit

(* An attempt moves on: its place, and what it knows of its ballot.         *)
Patched(x, pc, opening, action, seenIds) ==
    [pc |-> pc, poll |-> x.poll, choice |-> x.choice, provider |-> x.provider,
     opening |-> opening, action |-> action, seen |-> seenIds]

Moves(a, pc, opening, action, seenIds) ==
    /\ op' \in [Attempts -> OpShape]
    /\ \A x \in Attempts \ {a} : op'[x] = op[x]
    /\ op'[a].pc = pc /\ op'[a].poll = op[a].poll /\ op'[a].provider = op[a].provider
    /\ op'[a].opening = opening /\ op'[a].action = action /\ op'[a].seen = seenIds
    /\ op'[a].choice = op[a].choice

LEMMA PatchesFit ==
    ASSUME NEW x \in OpShape, NEW pc, NEW v
    PROVE  /\ [x EXCEPT !.pc = pc] = Patched(x, pc, x.opening, x.action, x.seen)
           /\ [x EXCEPT !.pc = pc, !.action = v] = Patched(x, pc, x.opening, v, x.seen)
           /\ [x EXCEPT !.pc = pc, !.opening = v] = Patched(x, pc, v, x.action, x.seen)
<1>0. x \in [pc : {x.pc}, poll : {x.poll}, choice : {x.choice}, provider : {x.provider},
             opening : {x.opening}, action : {x.action}, seen : {x.seen}]
  BY DEF OpShape
<1>1. [x EXCEPT !.pc = pc] = Patched(x, pc, x.opening, x.action, x.seen)
  BY ONLY <1>0 DEF Patched
<1>2. [x EXCEPT !.pc = pc, !.action = v] = Patched(x, pc, x.opening, v, x.seen)
  <2>. DEFINE y == [x EXCEPT !.pc = pc, !.action = v]
  <2>1. y \in [pc : {pc}, poll : {x.poll}, choice : {x.choice}, provider : {x.provider},
               opening : {x.opening}, action : {v}, seen : {x.seen}]
    BY ONLY <1>0
  <2>. HIDE DEF y
  <2>2. y = Patched(x, pc, x.opening, v, x.seen)
    BY ONLY <2>1 DEF Patched
  <2>. QED
    BY ONLY <2>2 DEF y
<1>3. [x EXCEPT !.pc = pc, !.opening = v] = Patched(x, pc, v, x.action, x.seen)
  <2>. DEFINE y == [x EXCEPT !.pc = pc, !.opening = v]
  <2>1. y \in [pc : {pc}, poll : {x.poll}, choice : {x.choice}, provider : {x.provider},
               opening : {v}, action : {x.action}, seen : {x.seen}]
    BY ONLY <1>0
  <2>. HIDE DEF y
  <2>2. y = Patched(x, pc, v, x.action, x.seen)
    BY ONLY <2>1 DEF Patched
  <2>. QED
    BY ONLY <2>2 DEF y
<1>. QED
  BY ONLY <1>1, <1>2, <1>3

LEMMA OpTyped ==
    ASSUME VoteInv
    PROVE  /\ op \in [Attempts -> OpShape]
           /\ \A a \in Attempts : op[a] \in OpShape
  BY DEF VoteInv, VTypeOK, OpShape, Places

LEMMA PatchedMoves ==
    ASSUME VoteInv, NEW a \in Attempts, NEW pc \in Places, NEW opening \in Opening \cup {NULL},
           NEW action \in Attempts \cup {NULL}, NEW seenIds \in SUBSET Attempts,
           op' = [op EXCEPT ![a] = Patched(op[a], pc, opening, action, seenIds)]
    PROVE  Moves(a, pc, opening, action, seenIds)
<1>. DEFINE y == Patched(op[a], pc, opening, action, seenIds)
<1>1. /\ y \in OpShape /\ y.pc = pc /\ y.poll = op[a].poll /\ y.provider = op[a].provider
      /\ y.opening = opening /\ y.action = action /\ y.seen = seenIds /\ y.choice = op[a].choice
  BY OpTyped DEF OpShape, Patched
<1>2. op' = [op EXCEPT ![a] = y] /\ op \in [Attempts -> OpShape]
  BY OpTyped
<1>. HIDE DEF y
<1>3. op' \in [Attempts -> OpShape] /\ op'[a] = y /\ \A x \in Attempts \ {a} : op'[x] = op[x]
  BY <1>1, <1>2
<1>. QED
  BY <1>1, <1>3 DEF Moves

(* The four kinds of updates the steps of an attempt make.                  *)
LEMMA MovesTo ==
    ASSUME VoteInv, NEW a \in Attempts, NEW pc \in Places, op' = [op EXCEPT ![a].pc = pc]
    PROVE  Moves(a, pc, op[a].opening, op[a].action, op[a].seen)
<1>1. op' = [op EXCEPT ![a] = Patched(op[a], pc, op[a].opening, op[a].action, op[a].seen)]
  BY OpTyped, PatchesFit
<1>2. /\ op[a].opening \in Opening \cup {NULL} /\ op[a].action \in Attempts \cup {NULL}
      /\ op[a].seen \in SUBSET Attempts
  BY OpTyped DEF OpShape
<1>. QED
  BY <1>1, <1>2, PatchedMoves

LEMMA MovesFor ==
    ASSUME VoteInv, NEW a \in Attempts, NEW pc \in Places, NEW b \in Attempts \cup {NULL},
           op' = [op EXCEPT ![a].pc = pc, ![a].action = b]
    PROVE  Moves(a, pc, op[a].opening, b, op[a].seen)
<1>1. op' = [op EXCEPT ![a] = [op[a] EXCEPT !.pc = pc, !.action = b]]
  OBVIOUS
<1>2. [op[a] EXCEPT !.pc = pc, !.action = b] = Patched(op[a], pc, op[a].opening, b, op[a].seen)
  BY OpTyped, PatchesFit
<1>3. op[a].opening \in Opening \cup {NULL} /\ op[a].seen \in SUBSET Attempts
  BY OpTyped DEF OpShape
<1>4. op' = [op EXCEPT ![a] = Patched(op[a], pc, op[a].opening, b, op[a].seen)]
  BY ONLY <1>1, <1>2
<1>. QED
  BY <1>3, <1>4, PatchedMoves

LEMMA MovesWith ==
    ASSUME VoteInv, NEW a \in Attempts, NEW pc \in Places, NEW o \in Opening \cup {NULL},
           op' = [op EXCEPT ![a].pc = pc, ![a].opening = o]
    PROVE  Moves(a, pc, o, op[a].action, op[a].seen)
<1>1. op' = [op EXCEPT ![a] = [op[a] EXCEPT !.pc = pc, !.opening = o]]
  OBVIOUS
<1>2. [op[a] EXCEPT !.pc = pc, !.opening = o] = Patched(op[a], pc, o, op[a].action, op[a].seen)
  BY OpTyped, PatchesFit
<1>3. op[a].action \in Attempts \cup {NULL} /\ op[a].seen \in SUBSET Attempts
  BY OpTyped DEF OpShape
<1>4. op' = [op EXCEPT ![a] = Patched(op[a], pc, o, op[a].action, op[a].seen)]
  BY ONLY <1>1, <1>2
<1>. QED
  BY <1>3, <1>4, PatchedMoves

LEMMA MovesSeeing ==
    ASSUME VoteInv, NEW a \in Attempts, NEW pc \in Places, NEW s \in SUBSET Attempts,
           op' = [op EXCEPT ![a].pc = pc, ![a].seen = s]
    PROVE  Moves(a, pc, op[a].opening, op[a].action, s)
<1>1. op' = [op EXCEPT ![a] = [op[a] EXCEPT !.pc = pc, !.seen = s]]
  OBVIOUS
<1>2. [op[a] EXCEPT !.pc = pc, !.seen = s] = Patched(op[a], pc, op[a].opening, op[a].action, s)
  <2>1. op[a] \in OpShape
    BY OpTyped
  <2>. DEFINE x == op[a]
  <2>2. x \in OpShape
    BY <2>1
  <2>. HIDE DEF x
  <2>3. \A t : [x EXCEPT !.pc = pc, !.seen = t] = Patched(x, pc, x.opening, x.action, t)
    <3>. TAKE t
    <3>. HIDE DEF x
    <3>0. x \in [pc : {x.pc}, poll : {x.poll}, choice : {x.choice}, provider : {x.provider},
                 opening : {x.opening}, action : {x.action}, seen : {x.seen}]
      BY ONLY <2>2 DEF OpShape
    <3>. DEFINE y == [x EXCEPT !.pc = pc, !.seen = t]
    <3>1. y \in [pc : {pc}, poll : {x.poll}, choice : {x.choice}, provider : {x.provider},
                 opening : {x.opening}, action : {x.action}, seen : {t}]
      BY ONLY <3>0
    <3>. HIDE DEF y
    <3>2. y = Patched(x, pc, x.opening, x.action, t)
      BY ONLY <3>1 DEF Patched
    <3>. QED
      BY ONLY <3>2 DEF y
  <2>. QED
    BY ONLY <2>3, Zenon DEF x
<1>3. op[a].opening \in Opening \cup {NULL} /\ op[a].action \in Attempts \cup {NULL}
  BY OpTyped DEF OpShape
<1>4. op' = [op EXCEPT ![a] = Patched(op[a], pc, op[a].opening, op[a].action, s)]
  BY ONLY <1>1, <1>2
<1>. QED
  BY <1>3, <1>4, PatchedMoves

-----------------------------------------------------------------------------
(* What each part of the invariant asks of a move.                          *)

LEMMA PlacedMoves ==
    ASSUME VoteInv, NEW a \in Attempts, NEW pc, NEW o, NEW c, NEW s,
           Moves(a, pc, o, c, s), op[a].pc # "free"
    PROVE  Placed'
  BY DEF VoteInv, Placed, Moves

(* Whoever is in the lock was at the head of the line.                      *)
LEMMA LockedMoves ==
    ASSUME VoteInv, NEW a \in Attempts, NEW pc, NEW o, NEW c, NEW s,
           Moves(a, pc, o, c, s), queue' = queue, pc \in InLock => Holds(a)
    PROVE  Locked'
<1>1. \A x \in Attempts : op'[x].provider = op[x].provider
  BY DEF Moves
<1>2. \A x \in Attempts : Holds(x)' <=> Holds(x)
  BY <1>1 DEF Holds
<1>. QED
  BY <1>2 DEF VoteInv, Locked, Moves

LEMMA LockPasses ==
    ASSUME VoteInv, NEW a \in Attempts, NEW pc, NEW o, NEW c, NEW s,
           Moves(a, pc, o, c, s), pc \notin InLock, op[a].pc # "free",
           queue' = IF Holds(a) THEN [queue EXCEPT ![op[a].provider] = Tail(@)] ELSE queue
    PROVE  Locked' /\ queue' \in [Providers -> Seq(Attempts)]
<1>0. /\ queue \in [Providers -> Seq(Attempts)] /\ op[a].provider \in Providers
      /\ \A x \in Attempts : op[x].pc # "free" => op[x].provider \in Providers
  BY DEF VoteInv, VTypeOK, Placed
<1>1. \A x \in Attempts : op'[x].provider = op[x].provider
  BY DEF Moves
<1>2. CASE ~Holds(a)
  <2>1. queue' = queue
    BY <1>2
  <2>. QED
    BY <1>0, <2>1, LockedMoves
<1>3. CASE Holds(a)
  <2>1. queue' = [queue EXCEPT ![op[a].provider] = Tail(@)]
    BY <1>3
  <2>2. queue[op[a].provider] # <<>> /\ Head(queue[op[a].provider]) = a
    BY <1>3 DEF Holds
  <2>3. Tail(queue[op[a].provider]) \in Seq(Attempts)
    BY <1>0, <2>2
  <2>4. queue' \in [Providers -> Seq(Attempts)]
    BY <1>0, <2>1, <2>3
  <2>5. ASSUME NEW x \in Attempts, op'[x].pc \in InLock PROVE Holds(x)'
    <3>1. x # a /\ op[x].pc \in InLock /\ op[x].pc # "free"
      BY <2>5 DEF Moves, InLock, InCastVote
    <3>2. Holds(x)
      BY <3>1 DEF VoteInv, Locked
    <3>3. op[x].provider # op[a].provider
      BY <2>2, <3>1, <3>2 DEF Holds
    <3>4. queue'[op[x].provider] = queue[op[x].provider]
      BY <1>0, <2>1, <3>1, <3>3
    <3>. QED
      BY <1>1, <3>2, <3>4 DEF Holds
  <2>. QED
    BY <2>4, <2>5 DEF Locked
<1>. QED
  BY <1>2, <1>3

LEMMA OpenedMoves ==
    ASSUME VoteInv, NEW a \in Attempts, NEW pc, NEW o, NEW c, NEW s,
           Moves(a, pc, o, c, s), op[a].pc # "free",
           \A p \in Polls : privateState[p] \in Opening => privateState'[p] \in Opening,
           pc = "prove" => privateState'[op[a].poll] \in Opening,
           pc \in {"submit", "post", "wait", "finalize"} => o \in Opening
    PROVE  Opened'
<1>1. ASSUME NEW x \in Attempts
      PROVE  /\ op'[x].pc = "prove" => privateState'[op'[x].poll] \in Opening
             /\ op'[x].pc \in {"submit", "post", "wait", "finalize"} => op'[x].opening \in Opening
  <2>1. CASE x = a
    BY <2>1 DEF Moves
  <2>2. CASE x # a
    BY <2>2 DEF Moves, VoteInv, Opened, Placed
  <2>. QED
    BY <2>1, <2>2
<1>. QED
  BY <1>1 DEF Opened

(* Transactions that are not sent by this step.                             *)
LEMMA JobsMove ==
    ASSUME VoteInv, NEW a \in Attempts, NEW pc, NEW o, NEW c, NEW s,
           Moves(a, pc, o, c, s), UNCHANGED <<job, ledger>>,
           pc \in BeforeSending => op[a].pc \in BeforeSending
    PROVE  JobsFit'
<1>1. ASSUME NEW x \in Attempts
      PROVE  /\ op'[x].poll = op[x].poll
             /\ op'[x].pc \in BeforeSending => op[x].pc \in BeforeSending
  BY DEF Moves
<1>. QED
  BY <1>1 DEF VoteInv, JobsFit

LEMMA RecordsMove ==
    ASSUME VoteInv, NEW a \in Attempts, NEW pc, NEW o, NEW c, NEW s,
           Moves(a, pc, o, c, s), op[a].pc # "free", pc # "free",
           UNCHANGED <<pendingStore, job>>, pc # "post",
           pc = "wait" /\ IsSponsored(a) => pendingStore[Key(a)] = c
    PROVE  RecordsFit'
<1>0. \A g \in Pages, p \in Polls : pendingStore[<<g, p>>] \in Attempts \cup {NULL}
  BY DEF VoteInv, VTypeOK
<1>1. \A x \in Attempts : /\ op'[x].poll = op[x].poll /\ op'[x].provider = op[x].provider
                          /\ (op[x].pc # "free" => op'[x].pc # "free")
  BY DEF Moves
<1>2. \A x \in Attempts : Key(x)' = Key(x) /\ (IsSponsored(x)' <=> IsSponsored(x))
  BY <1>1 DEF Key, IsSponsored
<1>3. ASSUME NEW x \in Attempts
      PROVE  /\ op'[x].pc = "post" => IsSponsored(x) /\ pendingStore[Key(x)] = x /\ op'[x].action = x
             /\ op'[x].pc = "wait" /\ IsSponsored(x) => pendingStore[Key(x)] = op'[x].action
  <2>1. CASE x = a
    BY <2>1 DEF Moves
  <2>2. CASE x # a
    BY <2>2 DEF Moves, VoteInv, RecordsFit
  <2>. QED
    BY <2>1, <2>2
<1>4. \A g \in Pages, p \in Polls :
        LET b == pendingStore[<<g, p>>] IN
        b # NULL => op'[b].pc # "free" /\ op'[b].poll = p /\ op'[b].provider = <<g, "sponsored">>
  BY <1>0, <1>1 DEF VoteInv, RecordsFit
<1>. QED
  BY <1>2, <1>3, <1>4 DEF VoteInv, RecordsFit

(* Transactions are never forgotten, and confirmed for good.                *)
JobsGrow ==
    \A b \in Attempts :
        /\ job[b].status # "none" =>
             /\ job'[b].status # "none" /\ job'[b].poll = job[b].poll
             /\ job'[b].opening = job[b].opening
        /\ job[b].status = "confirmed" => job'[b].status = "confirmed"

LEMMA ActionsMove ==
    ASSUME VoteInv, NEW a \in Attempts, NEW pc, NEW o, NEW c, NEW s,
           Moves(a, pc, o, c, s), op[a].pc # "free", pc # "free", JobsGrow,
           pc = "wait" => c \in Attempts /\ job'[c].status # "none" /\ job'[c].poll = op[a].poll,
           pc = "joined" => c \in Attempts /\ op[c].pc # "free" /\ op[c].poll = op[a].poll
    PROVE  ActionsFit'
<1>1. \A x \in Attempts : op'[x].poll = op[x].poll /\ (op[x].pc # "free" => op'[x].pc # "free")
  BY DEF Moves
<1>2. ASSUME NEW x \in Attempts
      PROVE  /\ op'[x].pc = "wait" =>
                  /\ op'[x].action \in Attempts /\ job'[op'[x].action].status # "none"
                  /\ job'[op'[x].action].poll = op[x].poll
             /\ op'[x].pc = "joined" =>
                  /\ op'[x].action \in Attempts /\ op[op'[x].action].pc # "free"
                  /\ op[op'[x].action].poll = op[x].poll
  <2>1. CASE x = a
    BY <2>1 DEF Moves
  <2>2. CASE x # a
    <3>1. op'[x] = op[x]
      BY <2>2 DEF Moves
    <3>. QED
      BY <3>1 DEF VoteInv, ActionsFit, JobsGrow
  <2>. QED
    BY <2>1, <2>2
<1>. QED
  BY <1>1, <1>2 DEF ActionsFit

HasBacking(c, p) ==
    c \in Attempts /\ job[c].status = "confirmed" /\ job[c].poll = p /\ job[c].opening = ledger[p]

LEMMA ReceiptsMove ==
    ASSUME VoteInv, NEW a \in Attempts, NEW pc, NEW o, NEW c, NEW s,
           Moves(a, pc, o, c, s), JobsGrow, ledger' = ledger,
           pc \in {"finalize", "done"} \cup Saving => HasBacking(c, op[a].poll),
           \A b \in s \cup vault' : b \in Attempts /\ job[b].status = "confirmed"
    PROVE  ReceiptsFit'
<1>1. ASSUME NEW x \in Attempts, HasReceipt(x)'
      PROVE  HasBacking(op'[x].action, op'[x].poll)
  <2>1. CASE x = a
    BY <1>1, <2>1 DEF Moves, HasReceipt
  <2>2. CASE x # a
    <3>1. op'[x] = op[x] /\ HasReceipt(x)
      BY <1>1, <2>2 DEF Moves, HasReceipt
    <3>. QED
      BY <3>1 DEF VoteInv, ReceiptsFit, ReceiptBackedByLedger, HasBacking
  <2>. QED
    BY <2>1, <2>2
<1>2. ASSUME NEW d, NEW p, HasBacking(d, p)
      PROVE  /\ d \in Attempts /\ job'[d].status = "confirmed" /\ job'[d].poll = p
             /\ job'[d].opening = ledger'[p]
  BY <1>2 DEF HasBacking, JobsGrow
<1>3. ASSUME NEW x \in Attempts, NEW b \in op'[x].seen PROVE job'[b].status = "confirmed"
  <2>1. CASE x = a
    BY <1>3, <2>1 DEF Moves, JobsGrow
  <2>2. CASE x # a
    <3>1. op'[x] = op[x] /\ b \in Attempts
      BY <1>3, <2>2, OpTyped DEF Moves, OpShape
    <3>2. job[b].status = "confirmed"
      BY <1>3, <3>1 DEF VoteInv, ReceiptsFit
    <3>. QED
      BY <3>1, <3>2 DEF JobsGrow
  <2>. QED
    BY <2>1, <2>2
<1>4. \A b \in vault' : job'[b].status = "confirmed"
  BY DEF JobsGrow
<1>. QED
  BY <1>1, <1>2, <1>3, <1>4 DEF ReceiptsFit, ReceiptBackedByLedger

-----------------------------------------------------------------------------
(* The steps of an attempt.                                                 *)

UiShape == [stage : Screens, poll : Polls \cup {NULL}, choice : Answers \cup {NULL}]

JobShape == [poll : Polls \cup {NULL}, opening : Opening \cup {NULL},
             status : {"none", "travelling", "pending", "late", "confirmed", "failed", "parked"}]

LEMMA TypedMoves ==
    ASSUME VoteInv, op' \in [Attempts -> OpShape], UNCHANGED <<page, ledger, accepting>>,
           ui' \in UiShape, queue' \in [Providers -> Seq(Attempts)],
           pendingStore' \in [Pages \X Polls -> Attempts \cup {NULL}],
           privateState' \in [Polls -> Opening \cup {NULL}],
           job' \in [Attempts -> JobShape], vault' \subseteq Attempts
    PROVE  VTypeOK'
  BY DEF VoteInv, VTypeOK, OpShape, Places, UiShape, JobShape

LEMMA StageFits ==
    ASSUME VoteInv, NEW stage \in Screens
    PROVE  [ui EXCEPT !.stage = stage] \in UiShape
  BY DEF VoteInv, VTypeOK, UiShape

(* What stays as it is fits.                                                *)
LEMMA StoresTyped ==
    ASSUME VoteInv
    PROVE  /\ ui \in UiShape /\ queue \in [Providers -> Seq(Attempts)]
           /\ pendingStore \in [Pages \X Polls -> Attempts \cup {NULL}]
           /\ privateState \in [Polls -> Opening \cup {NULL}]
           /\ job \in [Attempts -> JobShape] /\ vault \subseteq Attempts
           /\ ledger \in [Polls -> Opening \cup {NULL}]
  BY DEF VoteInv, VTypeOK, UiShape, JobShape

LEMMA VaultBacked ==
    ASSUME VoteInv
    PROVE  /\ \A a \in Attempts : \A b \in op[a].seen : b \in Attempts /\ job[b].status = "confirmed"
           /\ \A b \in vault : b \in Attempts /\ job[b].status = "confirmed"
  BY OpTyped, StoresTyped DEF OpShape, VoteInv, ReceiptsFit, ReceiptBackedByLedger

(* An attempt that throws, wherever it is: it passes the lock on, and       *)
(* nothing of it is left to fit but what it has sent and recorded.          *)
LEMMA EndFits ==
    ASSUME VoteInv, NEW a \in Attempts, NEW how \in {"refused", "failed"}, op[a].pc \in Running,
           End(a, how), JobsGrow, UNCHANGED <<page, ledger, accepting, vault>>,
           pendingStore' \in [Pages \X Polls -> Attempts \cup {NULL}],
           privateState' \in [Polls -> Opening \cup {NULL}], job' \in [Attempts -> JobShape],
           \A p \in Polls : privateState[p] \in Opening => privateState'[p] \in Opening
    PROVE  /\ Moves(a, how, op[a].opening, op[a].action, op[a].seen)
           /\ VTypeOK' /\ Placed' /\ Locked' /\ Opened' /\ ActionsFit' /\ ReceiptsFit'
<1>0. op[a].pc # "free" /\ how \in Places /\ how \notin InLock /\ how # "free"
      /\ how \notin {"prove", "submit", "post", "wait", "finalize", "done", "joined"} \cup Saving
  BY DEF Running, InCastVote, InLock, Saving, Places, Over
<1>1. Moves(a, how, op[a].opening, op[a].action, op[a].seen)
  BY <1>0, MovesTo DEF End
<1>2. queue' = IF Holds(a) THEN [queue EXCEPT ![op[a].provider] = Tail(@)] ELSE queue
  BY DEF End
<1>3. Locked' /\ queue' \in [Providers -> Seq(Attempts)]
  BY <1>0, <1>1, <1>2, LockPasses
<1>4. Placed'
  BY <1>0, <1>1, PlacedMoves
<1>5. Opened'
  BY <1>0, <1>1, OpenedMoves
<1>6. ActionsFit'
  BY <1>0, <1>1, ActionsMove
<1>7. ReceiptsFit'
  BY <1>0, <1>1, ReceiptsMove, VaultBacked
<1>8. ui' \in UiShape
  BY StageFits DEF End, Screens
<1>9. VTypeOK'
  BY <1>1, <1>3, <1>8, StoresTyped, TypedMoves DEF Moves
<1>. QED
  BY <1>1, <1>3, <1>4, <1>5, <1>6, <1>7, <1>9

LEMMA EndKeeps ==
    ASSUME VoteInv, NEW a \in Attempts, NEW how \in {"refused", "failed"}, op[a].pc \in Running,
           End(a, how), UNCHANGED <<page, stores, network>>
    PROVE  VoteInv'
<1>0. UNCHANGED <<page, ledger, accepting, vault, pendingStore, privateState, job>>
  BY DEF stores, network
<1>1. JobsGrow
  BY <1>0 DEF JobsGrow
<1>2. /\ Moves(a, how, op[a].opening, op[a].action, op[a].seen)
      /\ VTypeOK' /\ Placed' /\ Locked' /\ Opened' /\ ActionsFit' /\ ReceiptsFit'
  BY <1>0, <1>1, EndFits, StoresTyped
<1>3. op[a].pc # "free" /\ how \notin BeforeSending /\ how \notin {"free", "post", "wait"}
  BY DEF Running, InCastVote, Saving, BeforeSending
<1>4. JobsFit'
  BY <1>0, <1>2, <1>3, JobsMove
<1>5. RecordsFit'
  BY <1>0, <1>2, <1>3, RecordsMove
<1>. QED
  BY <1>2, <1>4, <1>5 DEF VoteInv

(* A step to another place that changes neither stores nor jobs.            *)
LEMMA GoesOnFits ==
    ASSUME VoteInv, NEW a \in Attempts, NEW pc, NEW o, NEW c, NEW s, Moves(a, pc, o, c, s),
           op[a].pc # "free", pc \notin {"free", "post", "wait"}, ui' \in UiShape,
           queue' \in [Providers -> Seq(Attempts)], Locked',
           UNCHANGED <<page, pendingStore, network>>,
           privateState' \in [Polls -> Opening \cup {NULL}], vault' \subseteq Attempts,
           \A p \in Polls : privateState[p] \in Opening => privateState'[p] \in Opening,
           pc = "prove" => privateState'[op[a].poll] \in Opening,
           pc \in {"submit", "finalize"} => o \in Opening,
           pc \in BeforeSending => op[a].pc \in BeforeSending,
           pc = "joined" => c \in Attempts /\ op[c].pc # "free" /\ op[c].poll = op[a].poll,
           pc \in {"finalize", "done"} \cup Saving => HasBacking(c, op[a].poll),
           \A b \in s \cup vault' : b \in Attempts /\ job[b].status = "confirmed"
    PROVE  VoteInv'
<1>0. UNCHANGED <<page, ledger, accepting, pendingStore, job>>
  BY DEF network
<1>1. JobsGrow
  BY <1>0 DEF JobsGrow
<1>2. Placed' /\ Opened'
  BY PlacedMoves, OpenedMoves
<1>3. JobsFit' /\ RecordsFit'
  BY <1>0, JobsMove, RecordsMove
<1>4. ActionsFit'
  BY <1>1, ActionsMove
<1>5. ReceiptsFit'
  BY <1>0, <1>1, ReceiptsMove
<1>6. VTypeOK'
  BY <1>0, StoresTyped, TypedMoves DEF Moves
<1>. QED
  BY <1>2, <1>3, <1>4, <1>5, <1>6 DEF VoteInv

LEMMA CastVoteKeeps ==
    ASSUME VoteInv, NEW a \in Attempts, CastVote(a) PROVE VoteInv'
<1>0. /\ op[a].pc = "authorize" /\ op[a].pc \in Running /\ UNCHANGED <<page, stores, network>>
      /\ op[a].provider \in Providers
      /\ op[a].opening \in Opening \cup {NULL} /\ op[a].action \in Attempts \cup {NULL}
  BY OpTyped DEF CastVote, Running, VoteInv, Placed, OpShape
<1>1. CASE End(a, "refused")
  BY <1>0, <1>1, EndKeeps
<1>2. ASSUME NEW b \in PendingVote(op[a].provider, op[a].poll),
             op' = [op EXCEPT ![a].pc = "joined", ![a].action = b], UNCHANGED <<ui, queue>>
      PROVE  VoteInv'
  <2>1. b \in Attempts /\ op[b].pc # "free" /\ op[b].poll = op[a].poll
    BY <1>2 DEF PendingVote, InCastVote
  <2>2. Moves(a, "joined", op[a].opening, b, op[a].seen)
    BY <1>2, <2>1, MovesFor DEF Places, Running
  <2>3. Locked'
    BY <1>2, <2>2, LockedMoves DEF InLock, InCastVote
  <2>4. "joined" \notin {"finalize", "done"} \cup Saving /\ "joined" # "prove"
    BY DEF Saving
  <2>5. UNCHANGED <<page, pendingStore, privateState, vault, network>> /\ ui' = ui /\ queue' = queue
    BY <1>0, <1>2 DEF stores
  <2>. QED
    BY <1>0, <2>1, <2>2, <2>3, <2>4, <2>5, GoesOnFits, StoresTyped, VaultBacked DEF BeforeSending
<1>3. CASE /\ op' = [op EXCEPT ![a].pc = "queued"] /\ UNCHANGED ui
           /\ queue' = [queue EXCEPT ![op[a].provider] = Append(@, a)]
  <2>1. Moves(a, "queued", op[a].opening, op[a].action, op[a].seen)
    BY <1>3, MovesTo DEF Places, Running, InCastVote
  <2>2. /\ queue \in [Providers -> Seq(Attempts)]
        /\ \A x \in Attempts : op[x].pc # "free" => op[x].provider \in Providers
    BY StoresTyped DEF VoteInv, Placed
  <2>3. queue' \in [Providers -> Seq(Attempts)]
    BY <1>0, <1>3, <2>2
  <2>4. ASSUME NEW x \in Attempts, op'[x].pc \in InLock PROVE Holds(x)'
    <3>1. x # a /\ op[x].pc \in InLock /\ op[x].pc # "free" /\ op'[x].provider = op[x].provider
      BY <2>1, <2>4 DEF Moves, InLock, InCastVote
    <3>2. /\ queue[op[x].provider] # <<>> /\ Head(queue[op[x].provider]) = x
          /\ queue[op[x].provider] \in Seq(Attempts) /\ op[x].provider \in Providers
      BY <2>2, <3>1 DEF VoteInv, Locked, Holds
    <3>3. \/ queue'[op[x].provider] = queue[op[x].provider]
          \/ queue'[op[x].provider] = Append(queue[op[x].provider], a)
      BY <1>0, <1>3, <2>2, <3>2
    <3>4. queue'[op[x].provider] # <<>> /\ Head(queue'[op[x].provider]) = x
      BY <3>2, <3>3
    <3>. QED
      BY <3>1, <3>4 DEF Holds
  <2>5. Locked'
    BY <2>4 DEF Locked
  <2>6. "queued" \notin {"finalize", "done"} \cup Saving
    BY DEF Saving
  <2>7. UNCHANGED <<page, pendingStore, privateState, vault, network>> /\ ui' = ui
    BY <1>0, <1>3 DEF stores
  <2>8. /\ ui' \in UiShape /\ privateState' \in [Polls -> Opening \cup {NULL}]
        /\ vault' \subseteq Attempts
        /\ \A b \in op[a].seen \cup vault' : b \in Attempts /\ job[b].status = "confirmed"
    BY <2>7, StoresTyped, VaultBacked
  <2>9. op[a].pc \in BeforeSending /\ op[a].pc # "free"
    BY <1>0 DEF BeforeSending
  <2>. QED
    BY <2>1, <2>3, <2>5, <2>6, <2>7, <2>8, <2>9, GoesOnFits
<1>. QED
  BY <1>1, <1>2, <1>3 DEF CastVote

(* join overwrites the private state of the contract with an opening.       *)
LEMMA WriteStateFits ==
    ASSUME VoteInv, NEW p \in Polls, NEW o \in Opening, WriteState(p, o)
    PROVE  /\ privateState' \in [Polls -> Opening \cup {NULL}]
           /\ privateState'[p] \in Opening
           /\ \A q \in Polls : privateState[q] \in Opening => privateState'[q] \in Opening
  BY StoresTyped DEF WriteState

LEMMA CastVoteOnceKeeps ==
    ASSUME VoteInv, NEW a \in Attempts, CastVoteOnce(a) PROVE VoteInv'
<1>0. /\ op[a].pc = "queued" /\ op[a].pc \in Running /\ Holds(a)
      /\ UNCHANGED <<page, pendingStore, vault, network>>
      /\ op[a].poll \in Polls /\ op[a].choice \in Answers
  BY DEF CastVoteOnce, Running, InCastVote, VoteInv, Placed
<1>1. NewOpening(a) \in Opening
  BY <1>0 DEF NewOpening, Opening
<1>2. CASE End(a, "refused") /\ UNCHANGED privateState
  BY <1>0, <1>2, EndKeeps DEF stores
<1>3. CASE WriteState(op[a].poll, NewOpening(a)) /\ Fail(a)
  <2>0. UNCHANGED <<page, ledger, accepting, vault, pendingStore, job>>
    BY <1>0 DEF network
  <2>1. /\ privateState' \in [Polls -> Opening \cup {NULL}]
        /\ \A q \in Polls : privateState[q] \in Opening => privateState'[q] \in Opening
    BY <1>0, <1>1, <1>3, WriteStateFits
  <2>2. JobsGrow
    BY <2>0 DEF JobsGrow
  <2>3. /\ Moves(a, "failed", op[a].opening, op[a].action, op[a].seen)
        /\ VTypeOK' /\ Placed' /\ Locked' /\ Opened' /\ ActionsFit' /\ ReceiptsFit'
    BY <1>0, <1>3, <2>0, <2>1, <2>2, EndFits, StoresTyped DEF Fail
  <2>4. JobsFit' /\ RecordsFit'
    BY <1>0, <2>0, <2>3, JobsMove, RecordsMove DEF BeforeSending
  <2>. QED
    BY <2>3, <2>4 DEF VoteInv
<1>4. CASE /\ WriteState(op[a].poll, NewOpening(a))
           /\ op' = [op EXCEPT ![a].pc = "prove"] /\ UNCHANGED <<ui, queue>>
  <2>1. Moves(a, "prove", op[a].opening, op[a].action, op[a].seen)
    BY <1>4, MovesTo DEF Places, Running, InCastVote
  <2>2. Locked'
    BY <1>0, <1>4, <2>1, LockedMoves
  <2>3. /\ privateState' \in [Polls -> Opening \cup {NULL}]
        /\ privateState'[op[a].poll] \in Opening
        /\ \A q \in Polls : privateState[q] \in Opening => privateState'[q] \in Opening
    BY <1>0, <1>1, <1>4, WriteStateFits
  <2>4. "prove" \notin {"finalize", "done"} \cup Saving
    BY DEF Saving
  <2>. QED
    BY <1>0, <1>4, <2>1, <2>2, <2>3, <2>4, GoesOnFits, StoresTyped, VaultBacked DEF BeforeSending
<1>. QED
  BY <1>2, <1>3, <1>4 DEF CastVoteOnce

LEMMA ProveKeeps ==
    ASSUME VoteInv, NEW a \in Attempts, Prove(a) PROVE VoteInv'
<1>0. /\ op[a].pc = "prove" /\ op[a].pc \in Running /\ Holds(a)
      /\ UNCHANGED <<page, stores, network>>
      /\ privateState[op[a].poll] \in Opening
  BY DEF Prove, Running, InCastVote, InLock, VoteInv, Locked, Opened
<1>1. CASE Fail(a)
  BY <1>0, <1>1, EndKeeps DEF Fail
<1>2. CASE /\ op' = [op EXCEPT ![a].pc = "submit", ![a].opening = ReadState(op[a].poll)]
           /\ UNCHANGED <<ui, queue>>
  <2>1. Moves(a, "submit", privateState[op[a].poll], op[a].action, op[a].seen)
    BY <1>0, <1>2, MovesWith DEF Places, Running, InCastVote, ReadState
  <2>2. Locked'
    BY <1>0, <1>2, <2>1, LockedMoves
  <2>4. "submit" \notin {"finalize", "done"} \cup Saving
    BY DEF Saving
  <2>5. UNCHANGED <<page, pendingStore, privateState, vault, network>> /\ ui' = ui /\ queue' = queue
    BY <1>0, <1>2 DEF stores
  <2>. QED
    BY <1>0, <2>1, <2>2, <2>4, <2>5, GoesOnFits, StoresTyped, VaultBacked DEF BeforeSending
<1>. QED
  BY <1>1, <1>2 DEF Prove

-----------------------------------------------------------------------------
(* submitTx.                                                                *)

LEMMA InLockFits ==
    ASSUME VoteInv, NEW a \in Attempts, op[a].pc \in InLock
    PROVE  /\ op[a].pc \in Running /\ op[a].pc # "free" /\ Holds(a)
           /\ op[a].poll \in Polls /\ op[a].provider \in Providers
           /\ Key(a) \in Pages \X Polls
<1>1. op[a].pc \in Running /\ op[a].pc # "free"
  BY DEF InLock, Running, InCastVote
<1>2. op[a].poll \in Polls /\ op[a].provider \in Providers /\ Holds(a)
  BY <1>1 DEF VoteInv, Placed, Locked
<1>. QED
  BY <1>1, <1>2 DEF Key, Providers

(* A transaction leaves: the attempt has sent none before.                  *)
LEMMA SendFits ==
    ASSUME VoteInv, NEW a \in Attempts, op[a].pc \in {"submit", "post"},
           NEW t \in {"travelling", "pending"}, Sent(a, t)
    PROVE  /\ job' \in [Attempts -> JobShape] /\ JobsGrow
           /\ job'[a].status = t /\ job'[a].poll = op[a].poll
           /\ job'[a].opening = op[a].opening /\ op[a].opening \in Opening
           /\ \A x \in Attempts \ {a} : job'[x] = job[x]
<1>0. op[a].opening \in Opening /\ op[a].poll \in Polls /\ job[a].status = "none"
  BY InLockFits DEF VoteInv, Opened, JobsFit, BeforeSending, InLock, InCastVote
<1>1. job \in [Attempts -> JobShape]
  BY StoresTyped
<1>. DEFINE sent == [poll |-> op[a].poll, opening |-> op[a].opening, status |-> t]
<1>2. /\ sent \in JobShape /\ sent.status = t /\ sent.poll = op[a].poll
      /\ sent.opening = op[a].opening
  BY <1>0 DEF JobShape
<1>3. job' = [job EXCEPT ![a] = sent]
  BY DEF Sent
<1>. HIDE DEF sent
<1>4. /\ job' \in [Attempts -> JobShape] /\ job'[a] = sent
      /\ \A x \in Attempts \ {a} : job'[x] = job[x]
  BY <1>1, <1>2, <1>3
<1>5. JobsGrow
  BY <1>0, <1>2, <1>4 DEF JobsGrow
<1>. QED
  BY <1>0, <1>2, <1>4, <1>5

LEMMA SentFits ==
    ASSUME VoteInv, NEW a \in Attempts, op[a].pc \in {"submit", "post"},
           NEW t \in {"travelling", "pending"}, Sent(a, t),
           NEW pc \in {"failed", "wait"}, NEW o, NEW c, NEW s, Moves(a, pc, o, c, s),
           UNCHANGED <<ledger, pendingStore>>,
           IsSponsored(a) => op[a].pc = "post" /\ c = a
    PROVE  JobsFit' /\ RecordsFit'
<1>0. /\ job'[a].status = t /\ job'[a].poll = op[a].poll
      /\ job'[a].opening \in Opening /\ \A x \in Attempts \ {a} : job'[x] = job[x]
  BY SendFits
<1>1. /\ \A x \in Attempts : op'[x].poll = op[x].poll /\ op'[x].provider = op[x].provider
      /\ \A x \in Attempts \ {a} : op'[x] = op[x]
      /\ op'[a].pc = pc /\ op'[a].action = c /\ op[a].pc # "free"
  BY DEF Moves
<1>2. \A x \in Attempts : Key(x)' = Key(x) /\ (IsSponsored(x)' <=> IsSponsored(x))
  BY <1>1 DEF Key, IsSponsored
<1>3. ASSUME NEW x \in Attempts
      PROVE  /\ op'[x].pc \in BeforeSending => job'[x].status = "none"
             /\ job'[x].status # "none" => job'[x].poll = op'[x].poll /\ job'[x].opening \in Opening
             /\ job'[x].status = "confirmed" => ledger'[job'[x].poll] = job'[x].opening
  <2>1. CASE x = a
    BY <1>0, <1>1, <2>1 DEF BeforeSending
  <2>2. CASE x # a
    BY <1>0, <1>1, <2>2 DEF VoteInv, JobsFit
  <2>. QED
    BY <2>1, <2>2
<1>4. JobsFit'
  BY <1>3 DEF JobsFit
<1>5. ASSUME NEW x \in Attempts
      PROVE  /\ op'[x].pc = "post" => IsSponsored(x) /\ pendingStore[Key(x)] = x /\ op'[x].action = x
             /\ op'[x].pc = "wait" /\ IsSponsored(x) => pendingStore[Key(x)] = op'[x].action
             /\ job'[x].status = "pending" /\ IsSponsored(x) => pendingStore[Key(x)] = x
  <2>1. CASE x = a
    BY <1>1, <2>1 DEF VoteInv, RecordsFit
  <2>2. CASE x # a
    BY <1>0, <1>1, <2>2 DEF VoteInv, RecordsFit
  <2>. QED
    BY <2>1, <2>2
<1>6. \A g \in Pages, p \in Polls : pendingStore[<<g, p>>] \in Attempts \cup {NULL}
  BY StoresTyped
<1>7. \A x \in Attempts : op[x].pc # "free" => op'[x].pc # "free"
  BY <1>1
<1>8. \A g \in Pages, p \in Polls :
        LET b == pendingStore[<<g, p>>] IN
        b # NULL => op'[b].pc # "free" /\ op'[b].poll = p /\ op'[b].provider = <<g, "sponsored">>
  <2>. SUFFICES ASSUME NEW g \in Pages, NEW p \in Polls, pendingStore[<<g, p>>] # NULL
                PROVE  LET b == pendingStore[<<g, p>>]
                       IN  op'[b].pc # "free" /\ op'[b].poll = p /\ op'[b].provider = <<g, "sponsored">>
    OBVIOUS
  <2>. DEFINE b == pendingStore[<<g, p>>]
  <2>1. /\ b \in Attempts /\ op[b].pc # "free" /\ op[b].poll = p
        /\ op[b].provider = <<g, "sponsored">>
    BY <1>6 DEF VoteInv, RecordsFit
  <2>. HIDE DEF b
  <2>2. op'[b].pc # "free" /\ op'[b].poll = p /\ op'[b].provider = <<g, "sponsored">>
    BY <1>1, <1>7, <2>1
  <2>. QED
    BY <2>2 DEF b
<1>9. RecordsFit'
  BY <1>2, <1>5, <1>8 DEF RecordsFit
<1>. QED
  BY <1>4, <1>9

(* An attempt that is about to send, or has sent, waits or fails.           *)
LEMMA SendKeeps ==
    ASSUME VoteInv, NEW a \in Attempts, op[a].pc \in {"submit", "post"},
           NEW t \in {"travelling", "pending"}, Sent(a, t),
           IsSponsored(a) => op[a].pc = "post",
           UNCHANGED <<page, stores, ledger, accepting>>,
           \/ Fail(a)
           \/ /\ Moves(a, "wait", op[a].opening, a, op[a].seen)
              /\ UNCHANGED <<ui, queue>>
    PROVE  VoteInv'
<1>0. /\ op[a].pc \in InLock
      /\ UNCHANGED <<page, ledger, accepting, vault, pendingStore, privateState>>
  BY DEF InLock, InCastVote, stores
<1>1. /\ job' \in [Attempts -> JobShape] /\ JobsGrow /\ op[a].opening \in Opening
      /\ job'[a].status = t /\ job'[a].poll = op[a].poll
  BY SendFits
<1>2. CASE Fail(a)
  <2>1. /\ Moves(a, "failed", op[a].opening, op[a].action, op[a].seen)
        /\ VTypeOK' /\ Placed' /\ Locked' /\ Opened' /\ ActionsFit' /\ ReceiptsFit'
    BY <1>0, <1>1, <1>2, EndFits, StoresTyped, InLockFits DEF Fail
  <2>2. IsSponsored(a) => op[a].pc = "post" /\ op[a].action = a
    BY DEF VoteInv, RecordsFit
  <2>3. JobsFit' /\ RecordsFit'
    BY <1>0, <2>1, <2>2, SentFits
  <2>. QED
    BY <2>1, <2>3 DEF VoteInv
<1>3. CASE Moves(a, "wait", op[a].opening, a, op[a].seen) /\ UNCHANGED <<ui, queue>>
  <2>0. op[a].pc # "free" /\ Holds(a)
    BY <1>0, InLockFits
  <2>1. JobsFit' /\ RecordsFit'
    BY <1>0, <1>3, SentFits
  <2>2. Locked'
    BY <1>3, <2>0, LockedMoves
  <2>3. Placed' /\ Opened'
    BY <1>0, <1>1, <1>3, <2>0, PlacedMoves, OpenedMoves
  <2>4. ActionsFit'
    BY <1>1, <1>3, <2>0, ActionsMove
  <2>5. ReceiptsFit'
    BY <1>0, <1>1, <1>3, ReceiptsMove, VaultBacked DEF Saving
  <2>6. VTypeOK'
    BY <1>0, <1>1, <1>3, StoresTyped, TypedMoves DEF Moves
  <2>. QED
    BY <2>1, <2>2, <2>3, <2>4, <2>5, <2>6 DEF VoteInv
<1>. QED
  BY <1>2, <1>3

LEMMA SubmitDirectKeeps ==
    ASSUME VoteInv, NEW a \in Attempts, SubmitDirect(a) PROVE VoteInv'
<1>0. /\ op[a].pc = "submit" /\ ~IsSponsored(a) /\ UNCHANGED <<page, stores, ledger, accepting>>
      /\ op[a].pc \in Running
  BY DEF SubmitDirect, IsSponsored, Running, InCastVote
<1>1. CASE Fail(a) /\ UNCHANGED job
  BY <1>0, <1>1, EndKeeps DEF Fail, network
<1>2. CASE Fail(a) /\ Send(a)
  BY <1>0, <1>2, SendKeeps DEF Send
<1>3. CASE Send(a) /\ op' = [op EXCEPT ![a].pc = "wait", ![a].action = a] /\ UNCHANGED <<ui, queue>>
  <2>1. Moves(a, "wait", op[a].opening, a, op[a].seen)
    BY <1>3, MovesFor DEF Places, Running, InCastVote
  <2>. QED
    BY <1>0, <1>3, <2>1, SendKeeps DEF Send
<1>. QED
  BY <1>1, <1>2, <1>3 DEF SubmitDirect

LEMMA PostKeeps ==
    ASSUME VoteInv, NEW a \in Attempts, Post(a) PROVE VoteInv'
<1>0. /\ op[a].pc = "post" /\ op[a].action = a /\ UNCHANGED <<page, stores, ledger, accepting>>
      /\ op[a].pc \in Running
  BY DEF Post, Running, InCastVote, VoteInv, RecordsFit
<1>1. CASE Fail(a) /\ UNCHANGED job
  BY <1>0, <1>1, EndKeeps DEF Fail, network
<1>2. CASE Fail(a) /\ Send(a)
  BY <1>0, <1>2, SendKeeps DEF Send
<1>3. CASE Send(a) /\ op' = [op EXCEPT ![a].pc = "wait"] /\ UNCHANGED <<ui, queue>>
  <2>1. Moves(a, "wait", op[a].opening, a, op[a].seen)
    BY <1>0, <1>3, MovesTo DEF Places, Running, InCastVote
  <2>. QED
    BY <1>0, <1>3, <2>1, SendKeeps DEF Send
<1>4. CASE Fail(a) /\ Sent(a, "travelling")
  BY <1>0, <1>4, SendKeeps
<1>. QED
  BY <1>1, <1>2, <1>3, <1>4 DEF Post

-----------------------------------------------------------------------------
(* The pending record, and the answers.                                     *)

(* Two attempts with the same record would be in the same lock at once.     *)
LEMMA RecordIsOwn ==
    ASSUME VoteInv, NEW a \in Attempts, NEW x \in Attempts, op[a].pc \in InLock, op[x].pc \in InLock,
           IsSponsored(a), IsSponsored(x), Key(x) = Key(a)
    PROVE  x = a
<1>1. /\ op[a].provider \in Pages \X Modes /\ op[x].provider \in Pages \X Modes
      /\ Holds(a) /\ Holds(x)
  BY InLockFits DEF Providers
<1>2. op[a].provider = op[x].provider
  BY <1>1 DEF Key, IsSponsored
<1>. QED
  BY <1>1, <1>2 DEF Holds

(* The attempt in the lock sets or deletes its record, while no action of   *)
(* another that the record is of is undecided.                              *)
LEMMA RecordSetFits ==
    ASSUME VoteInv, NEW a \in Attempts, NEW pc, NEW o, NEW c, NEW s, Moves(a, pc, o, c, s),
           op[a].pc \in InLock, IsSponsored(a), NEW v \in {a, NULL},
           pendingStore' = [pendingStore EXCEPT ![Key(a)] = v], job' = job,
           \A b \in Attempts : job[b].status = "pending" /\ IsSponsored(b) => Key(b) # Key(a),
           pc \notin {"free", "wait"}, pc = "post" => v = a /\ c = a
    PROVE  RecordsFit' /\ pendingStore' \in [Pages \X Polls -> Attempts \cup {NULL}]
<1>0. /\ pendingStore \in [Pages \X Polls -> Attempts \cup {NULL}]
      /\ Key(a) \in Pages \X Polls /\ op[a].pc # "free" /\ op[a].provider \in Pages \X Modes
  BY StoresTyped, InLockFits DEF Providers
<1>1. /\ \A x \in Attempts : op'[x].poll = op[x].poll /\ op'[x].provider = op[x].provider
      /\ \A x \in Attempts \ {a} : op'[x] = op[x]
      /\ op'[a].pc = pc /\ op'[a].action = c
  BY DEF Moves
<1>2. \A x \in Attempts : Key(x)' = Key(x) /\ (IsSponsored(x)' <=> IsSponsored(x))
  BY <1>1 DEF Key, IsSponsored
<1>3. /\ pendingStore' \in [Pages \X Polls -> Attempts \cup {NULL}] /\ pendingStore'[Key(a)] = v
      /\ \A k \in Pages \X Polls : k # Key(a) => pendingStore'[k] = pendingStore[k]
  BY <1>0
<1>4. ASSUME NEW x \in Attempts
      PROVE  /\ op'[x].pc = "post" => IsSponsored(x) /\ pendingStore'[Key(x)] = x /\ op'[x].action = x
             /\ op'[x].pc = "wait" /\ IsSponsored(x) => pendingStore'[Key(x)] = op'[x].action
             /\ job[x].status = "pending" /\ IsSponsored(x) => pendingStore'[Key(x)] = x
  <2>1. op'[x].pc = "post" =>
          IsSponsored(x) /\ pendingStore'[Key(x)] = x /\ op'[x].action = x
    <3>1. CASE x = a
      BY <1>1, <1>3, <3>1
    <3>2. CASE x # a /\ op[x].pc = "post"
      <4>1. op[x].pc \in InLock /\ IsSponsored(x) /\ pendingStore[Key(x)] = x /\ op[x].action = x
        BY <3>2 DEF VoteInv, RecordsFit, InLock, InCastVote
      <4>2. Key(x) # Key(a) /\ Key(x) \in Pages \X Polls
        BY <3>2, <4>1, RecordIsOwn, InLockFits
      <4>. QED
        BY <1>1, <1>3, <3>2, <4>1, <4>2
    <3>. QED
      BY <1>1, <3>1, <3>2
  <2>2. op'[x].pc = "wait" /\ IsSponsored(x) => pendingStore'[Key(x)] = op'[x].action
    <3>1. CASE x = a
      BY <1>1, <3>1
    <3>2. CASE x # a /\ op[x].pc = "wait" /\ IsSponsored(x)
      <4>1. op[x].pc \in InLock /\ pendingStore[Key(x)] = op[x].action
        BY <3>2 DEF VoteInv, RecordsFit, InLock, InCastVote
      <4>2. Key(x) # Key(a) /\ Key(x) \in Pages \X Polls
        BY <3>2, <4>1, RecordIsOwn, InLockFits
      <4>. QED
        BY <1>1, <1>3, <3>2, <4>1, <4>2
    <3>. QED
      BY <1>1, <3>1, <3>2
  <2>3. job[x].status = "pending" /\ IsSponsored(x) => pendingStore'[Key(x)] = x
    <3>. SUFFICES ASSUME job[x].status = "pending", IsSponsored(x)
                  PROVE  pendingStore'[Key(x)] = x
      OBVIOUS
    <3>1. op[x].pc # "free" /\ pendingStore[Key(x)] = x
      BY DEF VoteInv, RecordsFit, JobsFit, BeforeSending
    <3>2. Key(x) \in Pages \X Polls
      BY <3>1 DEF VoteInv, Placed, Key, Providers
    <3>. QED
      BY <1>3, <3>1, <3>2
  <2>. QED
    BY <2>1, <2>2, <2>3
<1>5. ASSUME NEW g \in Pages, NEW p \in Polls, NEW b, b = pendingStore'[<<g, p>>], b # NULL
      PROVE  op'[b].pc # "free" /\ op'[b].poll = p /\ op'[b].provider = <<g, "sponsored">>
  <2>1. CASE <<g, p>> = Key(a)
    <3>1. b = a /\ op[a].poll = p /\ op[a].provider[1] = g /\ op[a].provider[2] = "sponsored"
      BY <1>3, <1>5, <2>1 DEF Key, IsSponsored
    <3>2. op[a].provider = <<g, "sponsored">>
      BY <1>0, <3>1
    <3>. QED
      BY <1>1, <3>1, <3>2
  <2>2. CASE <<g, p>> # Key(a)
    <3>1. b = pendingStore[<<g, p>>] /\ b \in Attempts
      BY <1>0, <1>3, <1>5, <2>2
    <3>2. op[b].pc # "free" /\ op[b].poll = p /\ op[b].provider = <<g, "sponsored">>
      BY <1>5, <3>1 DEF VoteInv, RecordsFit
    <3>. QED
      BY <1>1, <3>1, <3>2
  <2>. QED
    BY <2>1, <2>2
<1>6. \A g \in Pages, p \in Polls :
        LET b == pendingStore'[<<g, p>>] IN
        b # NULL => op'[b].pc # "free" /\ op'[b].poll = p /\ op'[b].provider = <<g, "sponsored">>
  BY ONLY <1>5, Zenon
<1>7. \A x \in Attempts :
        /\ op'[x].pc = "post" =>
             IsSponsored(x)' /\ pendingStore'[Key(x)'] = x /\ op'[x].action = x
        /\ op'[x].pc = "wait" /\ IsSponsored(x)' => pendingStore'[Key(x)'] = op'[x].action
        /\ job'[x].status = "pending" /\ IsSponsored(x)' => pendingStore'[Key(x)'] = x
  BY ONLY <1>2, <1>4, job' = job
<1>8. RecordsFit'
  BY ONLY <1>6, <1>7 DEF RecordsFit
<1>. QED
  BY <1>3, <1>8

LEMMA SubmitSponsoredKeeps ==
    ASSUME VoteInv, NEW a \in Attempts, SubmitSponsored(a) PROVE VoteInv'
<1>. DEFINE previous == pendingStore[Key(a)]
<1>0. /\ op[a].pc = "submit" /\ op[a].pc \in InLock /\ IsSponsored(a)
      /\ UNCHANGED <<page, privateState, vault, job, ledger, accepting>>
      /\ op[a].opening \in Opening
  BY DEF SubmitSponsored, IsSponsored, InLock, InCastVote, network, VoteInv, Opened
<1>1. /\ op[a].pc \in Running /\ op[a].pc # "free" /\ Holds(a) /\ Key(a) \in Pages \X Polls
      /\ previous \in Attempts \cup {NULL} /\ op[a].poll \in Polls
      /\ op[a].provider \in Pages \X Modes
  BY <1>0, InLockFits, StoresTyped DEF Providers
<1>2. JobsGrow
  BY <1>0 DEF JobsGrow
<1>3. ~Known(previous) =>
        \A b \in Attempts : job[b].status = "pending" /\ IsSponsored(b) => Key(b) # Key(a)
  BY VoteClientAssumption DEF VoteInv, RecordsFit, Known
<1>4. CASE Fail(a) /\ UNCHANGED pendingStore
  BY <1>0, <1>1, <1>4, EndKeeps DEF Fail, stores, network
<1>5. CASE ~Known(previous) /\ Fail(a) /\ pendingStore' = [pendingStore EXCEPT ![Key(a)] = NULL]
  <2>0. pendingStore' \in [Pages \X Polls -> Attempts \cup {NULL}]
    BY <1>1, <1>5, StoresTyped
  <2>1. /\ Moves(a, "failed", op[a].opening, op[a].action, op[a].seen)
        /\ VTypeOK' /\ Placed' /\ Locked' /\ Opened' /\ ActionsFit' /\ ReceiptsFit'
    BY <1>0, <1>1, <1>2, <1>5, <2>0, EndFits, StoresTyped DEF Fail
  <2>2. JobsFit'
    BY <1>0, <2>1, JobsMove DEF BeforeSending
  <2>3. RecordsFit'
    <3>1. job' = job /\ op[a].pc \in InLock /\ IsSponsored(a)
      BY <1>0
    <3>2. Moves(a, "failed", op[a].opening, op[a].action, op[a].seen)
      BY <2>1
    <3>3. \A b \in Attempts : job[b].status = "pending" /\ IsSponsored(b) => Key(b) # Key(a)
      BY <1>3, <1>5
    <3>4. pendingStore' = [pendingStore EXCEPT ![Key(a)] = NULL] /\ NULL \in {a, NULL}
      BY <1>5
    <3>5. "failed" \notin {"free", "wait"} /\ "failed" # "post"
      OBVIOUS
    <3>. HIDE DEF previous
    <3>. QED
      BY ONLY VoteInv, a \in Attempts, <3>1, <3>2, <3>3, <3>4, <3>5, RecordSetFits
  <2>. QED
    BY <2>1, <2>2, <2>3 DEF VoteInv
<1>6. CASE /\ Known(previous) /\ op' = [op EXCEPT ![a].pc = "wait", ![a].action = previous]
           /\ UNCHANGED <<ui, queue, pendingStore>>
  <2>1. /\ previous \in Attempts /\ job[previous].status # "none" /\ op[previous].poll = op[a].poll
    <3>1. previous \in Attempts /\ job[previous].status # "none"
      BY <1>1, <1>6 DEF Known
    <3>2. PICK g \in Pages, p \in Polls : Key(a) = <<g, p>> /\ p = op[a].poll
      BY <1>1 DEF Key
    <3>3. previous = pendingStore[<<g, p>>] /\ previous # NULL
      BY <1>6, <3>2 DEF Known
    <3>4. op[previous].poll = p
      BY <3>3 DEF VoteInv, RecordsFit
    <3>. QED
      BY <3>1, <3>2, <3>4
  <2>2. job[previous].poll = op[a].poll
    BY <2>1 DEF VoteInv, JobsFit
  <2>. HIDE DEF previous
  <2>3. Moves(a, "wait", op[a].opening, previous, op[a].seen)
    BY <1>6, <2>1, MovesFor DEF Places, Running, InCastVote
  <2>4. Locked'
    BY <1>1, <1>6, <2>3, LockedMoves
  <2>5. Placed' /\ Opened'
    BY <1>0, <1>1, <2>3, PlacedMoves, OpenedMoves
  <2>6. JobsFit'
    BY <1>0, <2>3, JobsMove DEF BeforeSending
  <2>7. RecordsFit'
    BY <1>0, <1>1, <1>6, <2>3, RecordsMove DEF previous
  <2>8. ActionsFit'
    BY <1>0, <1>1, <1>2, <2>1, <2>2, <2>3, ActionsMove
  <2>9. ReceiptsFit'
    BY <1>0, <1>2, <2>3, ReceiptsMove, VaultBacked DEF Saving
  <2>10. VTypeOK'
    BY <1>0, <1>6, <2>3, StoresTyped, TypedMoves DEF Moves
  <2>. QED
    BY <2>4, <2>5, <2>6, <2>7, <2>8, <2>9, <2>10 DEF VoteInv
<1>7. CASE /\ ~Known(previous) /\ op' = [op EXCEPT ![a].pc = "post", ![a].action = a]
           /\ Remember(a) /\ UNCHANGED <<ui, queue>>
  <2>1. Moves(a, "post", op[a].opening, a, op[a].seen)
    BY <1>7, MovesFor DEF Places, Running, InCastVote
  <2>2. RecordsFit' /\ pendingStore' \in [Pages \X Polls -> Attempts \cup {NULL}]
    <3>1. job' = job /\ op[a].pc \in InLock /\ IsSponsored(a)
      BY <1>0
    <3>3. \A b \in Attempts : job[b].status = "pending" /\ IsSponsored(b) => Key(b) # Key(a)
      BY <1>3, <1>7
    <3>4. pendingStore' = [pendingStore EXCEPT ![Key(a)] = a] /\ a \in {a, NULL}
      BY <1>7 DEF Remember
    <3>5. "post" \notin {"free", "wait"}
      OBVIOUS
    <3>. HIDE DEF previous
    <3>. QED
      BY ONLY VoteInv, a \in Attempts, <2>1, <3>1, <3>3, <3>4, <3>5, RecordSetFits
  <2>3. Locked'
    BY <1>1, <1>7, <2>1, LockedMoves
  <2>4. Placed' /\ Opened'
    BY <1>0, <1>1, <2>1, PlacedMoves, OpenedMoves
  <2>5. JobsFit'
    BY <1>0, <2>1, JobsMove DEF BeforeSending
  <2>6. ActionsFit'
    BY <1>1, <1>2, <2>1, ActionsMove
  <2>7. ReceiptsFit'
    BY <1>0, <1>2, <2>1, ReceiptsMove, VaultBacked DEF Saving
  <2>8. VTypeOK'
    BY <1>0, <1>7, <2>1, <2>2, StoresTyped, TypedMoves DEF Moves
  <2>. QED
    BY <2>2, <2>3, <2>4, <2>5, <2>6, <2>7, <2>8 DEF VoteInv
<1>. QED
  BY <1>4, <1>5, <1>6, <1>7 DEF SubmitSponsored

(* What an attempt waited for is its receipt once it is confirmed.          *)
LEMMA WaitedForBacks ==
    ASSUME VoteInv, NEW a \in Attempts, op[a].pc = "wait", Confirmed(a)
    PROVE  HasBacking(op[a].action, op[a].poll)
  BY DEF VoteInv, ActionsFit, JobsFit, Confirmed, HasBacking

(* No other action of its record is undecided then.                         *)
LEMMA WaitedForIsLast ==
    ASSUME VoteInv, NEW a \in Attempts, op[a].pc = "wait", Confirmed(a), IsSponsored(a)
    PROVE  \A b \in Attempts : job[b].status = "pending" /\ IsSponsored(b) => Key(b) # Key(a)
  BY DEF VoteInv, RecordsFit, Confirmed

LEMMA WaitKeeps ==
    ASSUME VoteInv, NEW a \in Attempts, Wait(a) PROVE VoteInv'
<1>0. /\ op[a].pc = "wait" /\ op[a].pc \in InLock
      /\ UNCHANGED <<page, privateState, vault, network>>
      /\ op[a].opening \in Opening
  BY DEF Wait, InLock, InCastVote, VoteInv, Opened
<1>1. op[a].pc \in Running /\ op[a].pc # "free" /\ Holds(a) /\ Key(a) \in Pages \X Polls
  BY <1>0, InLockFits
<1>2. UNCHANGED <<job, ledger, accepting>> /\ JobsGrow
  BY <1>0 DEF JobsGrow, network
<1>3. CASE Fail(a) /\ UNCHANGED pendingStore
  BY <1>0, <1>1, <1>3, EndKeeps DEF Fail, stores
<1>4. CASE /\ Confirmed(a) /\ op' = [op EXCEPT ![a].pc = "finalize"]
           /\ pendingStore' = IF op[a].provider[2] = "sponsored"
                              THEN [pendingStore EXCEPT ![Key(a)] = NULL] ELSE pendingStore
           /\ UNCHANGED <<ui, queue>>
  <2>1. Moves(a, "finalize", op[a].opening, op[a].action, op[a].seen)
    BY <1>4, MovesTo DEF Places, Running, InCastVote
  <2>2. HasBacking(op[a].action, op[a].poll)
    BY <1>0, <1>4, WaitedForBacks
  <2>3. RecordsFit' /\ pendingStore' \in [Pages \X Polls -> Attempts \cup {NULL}]
    <3>1. CASE IsSponsored(a)
      <4>1. /\ pendingStore' = [pendingStore EXCEPT ![Key(a)] = NULL] /\ NULL \in {a, NULL}
            /\ job' = job
        BY <1>2, <1>4, <3>1 DEF IsSponsored
      <4>2. \A b \in Attempts : job[b].status = "pending" /\ IsSponsored(b) => Key(b) # Key(a)
        BY <1>0, <1>4, <3>1, WaitedForIsLast
      <4>3. "finalize" \notin {"free", "wait"} /\ "finalize" # "post"
        OBVIOUS
      <4>. QED
        BY ONLY VoteInv, a \in Attempts, <1>0, <2>1, <3>1, <4>1, <4>2, <4>3, RecordSetFits
    <3>2. CASE ~IsSponsored(a)
      <4>1. pendingStore' = pendingStore
        BY <1>4, <3>2 DEF IsSponsored
      <4>. QED
        BY <1>1, <1>2, <2>1, <4>1, RecordsMove, StoresTyped
    <3>. QED
      BY <3>1, <3>2
  <2>4. Locked'
    BY <1>1, <1>4, <2>1, LockedMoves
  <2>5. Placed' /\ Opened'
    BY <1>0, <1>1, <2>1, PlacedMoves, OpenedMoves
  <2>6. JobsFit'
    BY <1>2, <2>1, JobsMove DEF BeforeSending
  <2>7. ActionsFit'
    BY <1>1, <1>2, <2>1, ActionsMove
  <2>8. ReceiptsFit'
    BY <1>0, <1>2, <2>1, <2>2, ReceiptsMove, VaultBacked
  <2>9. VTypeOK'
    BY <1>0, <1>2, <1>4, <2>1, <2>3, StoresTyped, TypedMoves DEF Moves
  <2>. QED
    BY <2>3, <2>4, <2>5, <2>6, <2>7, <2>8, <2>9 DEF VoteInv
<1>. QED
  BY <1>3, <1>4 DEF Wait

LEMMA FinalizeKeeps ==
    ASSUME VoteInv, NEW a \in Attempts, Finalize(a) PROVE VoteInv'
<1>0. /\ op[a].pc = "finalize" /\ op[a].pc \in InLock /\ op[a].opening \in Opening
      /\ UNCHANGED <<ui, page, pendingStore, vault, network>>
  BY DEF Finalize, InLock, InCastVote, VoteInv, Opened
<1>1. op[a].pc # "free" /\ Holds(a) /\ op[a].poll \in Polls
  BY <1>0, InLockFits
<1>2. Moves(a, "load", op[a].opening, op[a].action, op[a].seen)
  BY MovesTo DEF Finalize, Places, Running, Saving
<1>3. HasBacking(op[a].action, op[a].poll)
  BY <1>0 DEF VoteInv, ReceiptsFit, ReceiptBackedByLedger, HasReceipt, HasBacking
<1>4. Locked' /\ queue' \in [Providers -> Seq(Attempts)]
  <2>1. queue' = IF Holds(a) THEN [queue EXCEPT ![op[a].provider] = Tail(@)] ELSE queue
    BY <1>1 DEF Finalize
  <2>2. "load" \notin InLock
    BY DEF InLock, InCastVote
  <2>. QED
    BY <1>1, <1>2, <2>1, <2>2, LockPasses
<1>5. /\ privateState' \in [Polls -> Opening \cup {NULL}]
      /\ \A q \in Polls : privateState[q] \in Opening => privateState'[q] \in Opening
  BY <1>0, <1>1, WriteStateFits DEF Finalize
<1>6. /\ "load" \notin {"free", "post", "wait", "prove", "submit", "finalize", "joined"}
      /\ "load" \notin BeforeSending
  BY DEF BeforeSending
<1>7. /\ ui' \in UiShape /\ vault' \subseteq Attempts
      /\ \A b \in op[a].seen \cup vault' : b \in Attempts /\ job[b].status = "confirmed"
  BY <1>0, StoresTyped, VaultBacked
<1>8. UNCHANGED <<page, pendingStore, network>>
  BY <1>0
<1>. QED
  BY ONLY VoteInv, a \in Attempts, <1>1, <1>2, <1>3, <1>4, <1>5, <1>6, <1>7, <1>8, GoesOnFits

LEMMA JoinedEndsKeeps ==
    ASSUME VoteInv, NEW a \in Attempts, JoinedEnds(a) PROVE VoteInv'
<1>. DEFINE b == op[a].action
<1>0. /\ op[a].pc = "joined" /\ op[a].pc \in Running /\ op[a].pc # "free"
      /\ UNCHANGED <<page, stores, network>>
      /\ b \in Attempts /\ op[b].poll = op[a].poll
  BY DEF JoinedEnds, Running, VoteInv, ActionsFit
<1>1. CASE op[b].pc \in {"refused", "failed"} /\ End(a, op[b].pc)
  BY <1>0, <1>1, EndKeeps
<1>2. CASE /\ op[b].pc \in Saving \cup {"done"}
           /\ op' = [op EXCEPT ![a].pc = "load", ![a].action = op[b].action]
           /\ UNCHANGED <<ui, queue>>
  <2>1. HasBacking(op[b].action, op[a].poll)
    BY <1>0, <1>2 DEF VoteInv, ReceiptsFit, ReceiptBackedByLedger, HasReceipt, HasBacking
  <2>2. Moves(a, "load", op[a].opening, op[b].action, op[a].seen)
    BY <1>2, <2>1, MovesFor DEF Places, Running, Saving, HasBacking
  <2>3. Locked'
    BY <1>2, <2>2, LockedMoves DEF InLock, InCastVote
  <2>4. UNCHANGED <<page, pendingStore, privateState, vault, network>> /\ ui' = ui /\ queue' = queue
    BY <1>0, <1>2 DEF stores
  <2>. QED
    BY <1>0, <2>1, <2>2, <2>3, <2>4, GoesOnFits, StoresTyped, VaultBacked DEF BeforeSending
<1>. QED
  BY <1>1, <1>2 DEF JoinedEnds

LEMMA LoadReceiptsKeeps ==
    ASSUME VoteInv, NEW a \in Attempts, LoadReceipts(a) PROVE VoteInv'
<1>0. /\ op[a].pc = "load" /\ op[a].pc # "free" /\ UNCHANGED <<ui, page, queue, stores, network>>
      /\ HasBacking(op[a].action, op[a].poll)
  BY DEF LoadReceipts, Saving, VoteInv, ReceiptsFit, ReceiptBackedByLedger, HasReceipt, HasBacking
<1>1. Moves(a, "save", op[a].opening, op[a].action, vault)
  BY MovesSeeing, StoresTyped DEF LoadReceipts, Places, Running, Saving
<1>2. Locked'
  BY <1>0, <1>1, LockedMoves DEF InLock, InCastVote
<1>3. UNCHANGED <<page, pendingStore, privateState, vault, network>> /\ ui' = ui /\ queue' = queue
  BY <1>0 DEF stores
<1>. QED
  BY <1>0, <1>1, <1>2, <1>3, GoesOnFits, StoresTyped, VaultBacked DEF BeforeSending

(* What is written back was read, so it was confirmed.                      *)
LEMMA SaveReceiptKeeps ==
    ASSUME VoteInv, NEW a \in Attempts, SaveReceipt(a) PROVE VoteInv'
<1>0. /\ op[a].pc = "save" /\ op[a].pc # "free"
      /\ UNCHANGED <<page, queue, pendingStore, privateState, network>>
      /\ HasBacking(op[a].action, op[a].poll)
  BY DEF SaveReceipt, Saving, VoteInv, ReceiptsFit, ReceiptBackedByLedger, HasReceipt, HasBacking
<1>1. Moves(a, "done", op[a].opening, op[a].action, {})
  BY MovesSeeing DEF SaveReceipt, Places, Over
<1>2. Locked'
  BY <1>0, <1>1, LockedMoves DEF InLock, InCastVote
<1>3. vault' = op[a].seen \cup {op[a].action}
  BY DEF SaveReceipt
<1>4. vault' \subseteq Attempts /\ \A b \in vault' : b \in Attempts /\ job[b].status = "confirmed"
  BY <1>0, <1>3, VaultBacked DEF HasBacking
<1>5. ui' \in UiShape
  BY StageFits DEF SaveReceipt, Screens
<1>. QED
  BY <1>0, <1>1, <1>2, <1>4, <1>5, GoesOnFits, StoresTyped DEF BeforeSending

-----------------------------------------------------------------------------
(* The network, and everything that does not belong to an attempt.          *)

(* A status that changes, of a transaction that was sent.                   *)
LEMMA SettledFits ==
    ASSUME VoteInv, NEW a \in Attempts,
           job[a].status \in {"travelling", "pending", "late", "parked"},
           NEW t \in {"late", "confirmed", "failed", "parked"}, job' = [job EXCEPT ![a].status = t]
    PROVE  /\ job' \in [Attempts -> JobShape] /\ JobsGrow
           /\ \A x \in Attempts :
                /\ job'[x].poll = job[x].poll /\ job'[x].opening = job[x].opening
                /\ job'[x].status = IF x = a THEN t ELSE job[x].status
<1>1. job \in [Attempts -> JobShape]
  BY StoresTyped
<1>2. \A x \in Attempts : /\ job'[x].poll = job[x].poll /\ job'[x].opening = job[x].opening
                          /\ job'[x].status = IF x = a THEN t ELSE job[x].status
  BY <1>1 DEF JobShape
<1>3. job' \in [Attempts -> JobShape]
  BY <1>1 DEF JobShape
<1>. QED
  BY <1>2, <1>3 DEF JobsGrow

(* Transactions that are not sent, sent ones that settle: the attempts and  *)
(* the pending records stay as they are.                                    *)
LEMMA NetworkKeeps ==
    ASSUME VoteInv, UNCHANGED <<client, op, queue, stores, accepting>>, JobsGrow,
           job' \in [Attempts -> JobShape], ledger' \in [Polls -> Opening \cup {NULL}],
           \A p \in Polls : ledger[p] # NULL => ledger'[p] = ledger[p],
           \A x \in Attempts :
              /\ job'[x].poll = job[x].poll /\ job'[x].opening = job[x].opening
              /\ (job'[x].status = "none") <=> (job[x].status = "none")
              /\ job'[x].status = "pending" => job[x].status = "pending"
              /\ job'[x].status = "confirmed" => ledger'[job[x].poll] = job[x].opening
    PROVE  VoteInv'
<1>0. UNCHANGED <<ui, page, op, queue, pendingStore, privateState, vault, accepting>>
  BY DEF client, stores
<1>1. VTypeOK'
  BY <1>0 DEF VoteInv, VTypeOK, JobShape
<1>2. Placed' /\ Locked' /\ Opened'
  BY <1>0 DEF VoteInv, Placed, Locked, Opened, Holds
<1>3. JobsFit'
  BY <1>0 DEF VoteInv, JobsFit
<1>4. RecordsFit'
  <2>1. \A x \in Attempts : Key(x)' = Key(x) /\ (IsSponsored(x)' <=> IsSponsored(x))
    BY <1>0 DEF Key, IsSponsored
  <2>2. ASSUME NEW x \in Attempts
        PROVE  /\ op[x].pc = "post" => IsSponsored(x) /\ pendingStore[Key(x)] = x /\ op[x].action = x
               /\ op[x].pc = "wait" /\ IsSponsored(x) => pendingStore[Key(x)] = op[x].action
               /\ job'[x].status = "pending" /\ IsSponsored(x) => pendingStore[Key(x)] = x
    BY DEF VoteInv, RecordsFit
  <2>3. \A g \in Pages, p \in Polls :
          LET b == pendingStore[<<g, p>>] IN
          b # NULL => op[b].pc # "free" /\ op[b].poll = p /\ op[b].provider = <<g, "sponsored">>
    BY DEF VoteInv, RecordsFit
  <2>. QED
    BY ONLY <1>0, <2>1, <2>2, <2>3 DEF RecordsFit
<1>5. ActionsFit'
  BY <1>0 DEF VoteInv, ActionsFit
<1>6. ReceiptsFit'
  <2>1. ASSUME NEW x \in Attempts, HasReceipt(x)
        PROVE  /\ op[x].action \in Attempts /\ job'[op[x].action].status = "confirmed"
               /\ job'[op[x].action].poll = op[x].poll
               /\ job'[op[x].action].opening = ledger'[op[x].poll]
    <3>1. /\ op[x].action \in Attempts /\ job[op[x].action].status = "confirmed"
          /\ job[op[x].action].poll = op[x].poll
      BY <2>1 DEF VoteInv, ReceiptsFit, ReceiptBackedByLedger
    <3>. QED
      BY <3>1 DEF JobsGrow
  <2>2. \A x \in Attempts : HasReceipt(x)' <=> HasReceipt(x)
    BY <1>0 DEF HasReceipt
  <2>3. /\ \A x \in Attempts : \A b \in op[x].seen : job'[b].status = "confirmed"
        /\ \A b \in vault : job'[b].status = "confirmed"
    BY VaultBacked DEF JobsGrow
  <2>. QED
    BY <1>0, <2>1, <2>2, <2>3 DEF ReceiptsFit, ReceiptBackedByLedger
<1>. QED
  BY <1>1, <1>2, <1>3, <1>4, <1>5, <1>6 DEF VoteInv

(* The first ballot of a poll is the one that is confirmed.                 *)
LEMMA LandKeeps ==
    ASSUME VoteInv, NEW a \in Attempts, Land(a) PROVE VoteInv'
<1>0. /\ job[a].status \in {"pending", "late", "parked"} /\ ledger[job[a].poll] = NULL
      /\ job[a].poll \in Polls /\ job[a].opening \in Opening
      /\ ledger' = [ledger EXCEPT ![job[a].poll] = job[a].opening]
      /\ UNCHANGED <<client, op, queue, stores, accepting>>
      /\ ledger \in [Polls -> Opening \cup {NULL}]
  BY DEF Land, VoteInv, VTypeOK, JobsFit
<1>1. /\ ledger' \in [Polls -> Opening \cup {NULL}] /\ ledger'[job[a].poll] = job[a].opening
      /\ \A p \in Polls : ledger[p] # NULL => ledger'[p] = ledger[p]
  BY <1>0
<1>2. \A x \in Attempts : job[x].status = "confirmed" =>
        /\ job[x].poll \in Polls /\ job[x].opening \in Opening
        /\ ledger[job[x].poll] = job[x].opening
  BY DEF VoteInv, Placed, JobsFit, BeforeSending
<1>3. \A x \in Attempts : job[x].status = "confirmed" => ledger'[job[x].poll] = job[x].opening
  BY <1>1, <1>2, VoteClientAssumption
<1>4. CASE job[a].status # "parked"
  <2>1. job' = [job EXCEPT ![a].status = "confirmed"]
    BY <1>4 DEF Land
  <2>2. /\ job' \in [Attempts -> JobShape] /\ JobsGrow
        /\ \A x \in Attempts :
             /\ job'[x].poll = job[x].poll /\ job'[x].opening = job[x].opening
             /\ job'[x].status = IF x = a THEN "confirmed" ELSE job[x].status
    BY <1>0, <2>1, SettledFits
  <2>3. \A x \in Attempts :
          /\ (job'[x].status = "none") <=> (job[x].status = "none")
          /\ job'[x].status = "pending" => job[x].status = "pending"
          /\ job'[x].status = "confirmed" => ledger'[job[x].poll] = job[x].opening
    BY <1>0, <1>1, <1>3, <1>4, <2>2
  <2>. QED
    BY <1>0, <1>1, <2>2, <2>3, NetworkKeeps
<1>5. CASE job[a].status = "parked"
  <2>1. job' = job
    BY <1>5 DEF Land
  <2>2. JobsGrow /\ job' \in [Attempts -> JobShape]
    BY <2>1, StoresTyped DEF JobsGrow
  <2>. QED
    BY <1>0, <1>1, <1>3, <2>1, <2>2, NetworkKeeps
<1>. QED
  BY <1>4, <1>5

(* A request that arrives late, or an action that is refused or parked.     *)
LEMMA DropKeeps ==
    ASSUME VoteInv, NEW a \in Attempts, Arrives(a) \/ Drop(a) PROVE VoteInv'
<1>0. /\ job[a].status \in {"travelling", "pending", "late"}
      /\ UNCHANGED <<client, op, queue, stores, ledger, accepting>>
      /\ ledger' \in [Polls -> Opening \cup {NULL}]
  BY StoresTyped DEF Arrives, Drop
<1>1. PICK t \in {"late", "confirmed", "failed", "parked"} :
        t # "confirmed" /\ job' = [job EXCEPT ![a].status = t]
  <2>1. CASE Arrives(a)
    BY <2>1 DEF Arrives
  <2>2. CASE Drop(a)
    BY <2>2 DEF Drop
  <2>. QED
    BY <2>1, <2>2
<1>2. /\ job' \in [Attempts -> JobShape] /\ JobsGrow
      /\ \A x \in Attempts :
           /\ job'[x].poll = job[x].poll /\ job'[x].opening = job[x].opening
           /\ job'[x].status = IF x = a THEN t ELSE job[x].status
  <2>1. job[a].status \in {"travelling", "pending", "late", "parked"}
    BY <1>0
  <2>2. job' = [job EXCEPT ![a].status = t]
    BY <1>1
  <2>. QED
    BY ONLY VoteInv, a \in Attempts, t \in {"late", "confirmed", "failed", "parked"}, <2>1, <2>2,
       SettledFits, ZenonT(60)
<1>3. \A x \in Attempts :
        /\ (job'[x].status = "none") <=> (job[x].status = "none")
        /\ job'[x].status = "pending" => job[x].status = "pending"
        /\ job'[x].status = "confirmed" => ledger'[job[x].poll] = job[x].opening
  BY <1>0, <1>1, <1>2 DEF VoteInv, JobsFit
<1>. QED
  BY <1>0, <1>2, <1>3, NetworkKeeps

(* The screens and the environment of the page: the attempts stay.          *)
LEMMA ScreenKeeps ==
    ASSUME VoteInv, UNCHANGED <<op, queue, pendingStore, privateState, job, ledger>>,
           ui' \in UiShape, page' \in [gen : Pages, mode : Modes, credential : BOOLEAN,
                                       events : 0..MaxEvents],
           page'.gen <= page'.events + 1, accepting' \subseteq accepting, vault' \subseteq vault
    PROVE  VoteInv'
<1>1. VTypeOK'
  BY DEF VoteInv, VTypeOK, UiShape
<1>2. Placed' /\ Locked' /\ Opened' /\ JobsFit' /\ ActionsFit'
  BY DEF VoteInv, Placed, Locked, Opened, Holds, JobsFit, ActionsFit
<1>3. RecordsFit'
  <2>1. \A x \in Attempts : Key(x)' = Key(x) /\ (IsSponsored(x)' <=> IsSponsored(x))
    BY DEF Key, IsSponsored
  <2>2. RecordsFit
    BY DEF VoteInv
  <2>. QED
    BY <2>1, <2>2 DEF RecordsFit
<1>4. ReceiptsFit'
  BY DEF VoteInv, ReceiptsFit, ReceiptBackedByLedger, HasReceipt
<1>. QED
  BY <1>1, <1>2, <1>3, <1>4 DEF VoteInv

LEMMA PageFits ==
    ASSUME VoteInv
    PROVE  /\ page \in [gen : Pages, mode : Modes, credential : BOOLEAN, events : 0..MaxEvents]
           /\ page.gen <= page.events + 1
  BY DEF VoteInv, VTypeOK

(* A disturbance may bring new providers, which do not run out.             *)
LEMMA HappensFits ==
    ASSUME VoteInv, NEW p \in [gen : Nat, mode : Modes, credential : BOOLEAN, events : {page.events}],
           p.gen \in 1..(page.events + 2), Happens(p)
    PROVE  /\ page' \in [gen : Pages, mode : Modes, credential : BOOLEAN, events : 0..MaxEvents]
           /\ page'.gen <= page'.events + 1
<1>1. page.events \in 0..MaxEvents /\ page.events < MaxEvents /\ MaxEvents \in Nat
  BY PageFits, VoteClientAssumption DEF Happens
<1>2. p.gen \in Pages /\ page.events + 1 \in 0..MaxEvents
  BY <1>1 DEF Pages
<1>3. page' = [p EXCEPT !.events = page.events + 1]
  BY DEF Happens
<1>4. /\ page' \in [gen : {p.gen}, mode : Modes, credential : BOOLEAN, events : {page.events + 1}]
  BY ONLY <1>3, p \in [gen : Nat, mode : Modes, credential : BOOLEAN, events : {page.events}]
<1>5. page'.gen = p.gen /\ page'.events = page.events + 1
  BY <1>4
<1>. QED
  BY <1>1, <1>2, <1>4, <1>5

LEMMA DisturbanceFits ==
    ASSUME VoteInv, \/ Happens(page) \/ Happens([page EXCEPT !.credential = FALSE])
                    \/ Happens([page EXCEPT !.gen = @ + 1, !.mode = "direct"])
    PROVE  /\ page' \in [gen : Pages, mode : Modes, credential : BOOLEAN, events : 0..MaxEvents]
           /\ page'.gen <= page'.events + 1
<1>0. /\ page \in [gen : Nat, mode : Modes, credential : BOOLEAN, events : {page.events}]
      /\ page.gen \in 1..(page.events + 1) /\ page.events \in Nat /\ "direct" \in Modes
  BY PageFits, VoteClientAssumption DEF Modes, Pages
<1>1. CASE Happens(page)
  BY <1>0, <1>1, HappensFits
<1>2. CASE Happens([page EXCEPT !.credential = FALSE])
  <2>. DEFINE p == [page EXCEPT !.credential = FALSE]
  <2>1. /\ p \in [gen : Nat, mode : Modes, credential : BOOLEAN, events : {page.events}]
        /\ p.gen = page.gen
    BY <1>0
  <2>2. Happens(p)
    BY <1>2
  <2>. HIDE DEF p
  <2>. QED
    BY <1>0, <2>1, <2>2, HappensFits
<1>3. CASE Happens([page EXCEPT !.gen = @ + 1, !.mode = "direct"])
  <2>. DEFINE p == [page EXCEPT !.gen = @ + 1, !.mode = "direct"]
  <2>1. p \in [gen : {page.gen + 1}, mode : Modes, credential : BOOLEAN, events : {page.events}]
    BY <1>0
  <2>2. Happens(p)
    BY <1>3
  <2>. HIDE DEF p
  <2>3. /\ p \in [gen : Nat, mode : Modes, credential : BOOLEAN, events : {page.events}]
        /\ p.gen \in 1..(page.events + 2)
    BY <1>0, <2>1
  <2>. QED
    BY <2>2, <2>3, HappensFits
<1>. QED
  BY <1>1, <1>2, <1>3

LEMMA UserKeeps ==
    ASSUME VoteInv,
           \/ \E p \in Polls : StartVote(p) \/ CloseBallot(p)
           \/ \E c \in Answers : Choose(c)
           \/ \E m \in Modes : SetExecutionMode(m)
           \/ OnStage \/ CloseFlow \/ OpenSettings \/ RemoveLocalData \/ WalletReconnects
    PROVE  VoteInv'
<1>0. ui \in UiShape
  BY StoresTyped
<1>1. CASE \/ \E p \in Polls : StartVote(p)
           \/ \E c \in Answers : Choose(c)
           \/ OnStage \/ CloseFlow \/ OpenSettings
  <2>1. UNCHANGED <<page, op, queue, pendingStore, privateState, vault, job, ledger, accepting>>
    BY <1>1 DEF StartVote, Choose, OnStage, CloseFlow, OpenSettings, stores, network
  <2>2. ui' \in UiShape
    BY <1>0, <1>1 DEF StartVote, Choose, OnStage, CloseFlow, OpenSettings, UiShape, Screens
  <2>. QED
    BY <2>1, <2>2, PageFits, ScreenKeeps
<1>2. CASE \E m \in Modes : SetExecutionMode(m)
  <2>1. UNCHANGED <<ui, op, queue, pendingStore, privateState, vault, job, ledger, accepting>>
    BY <1>2 DEF SetExecutionMode, stores, network
  <2>2. /\ page' \in [gen : Pages, mode : Modes, credential : BOOLEAN, events : 0..MaxEvents]
        /\ page'.gen <= page'.events + 1
    BY <1>2, PageFits DEF SetExecutionMode
  <2>. QED
    BY <1>0, <2>1, <2>2, ScreenKeeps
<1>3. CASE (\E p \in Polls : CloseBallot(p)) \/ RemoveLocalData \/ WalletReconnects
  <2>1. /\ UNCHANGED <<ui, op, queue, pendingStore, privateState, job, ledger>>
        /\ accepting' \subseteq accepting /\ vault' \subseteq vault
    BY <1>3 DEF CloseBallot, RemoveLocalData, ClearReceipts, WalletReconnects, stores, network
  <2>2. \/ Happens(page) \/ Happens([page EXCEPT !.credential = FALSE])
        \/ Happens([page EXCEPT !.gen = @ + 1, !.mode = "direct"])
    BY <1>3 DEF CloseBallot, RemoveLocalData, WalletReconnects
  <2>3. /\ page' \in [gen : Pages, mode : Modes, credential : BOOLEAN, events : 0..MaxEvents]
        /\ page'.gen <= page'.events + 1
    BY <2>2, DisturbanceFits
  <2>. QED
    BY <1>0, <2>1, <2>3, ScreenKeeps
<1>. QED
  BY <1>1, <1>2, <1>3

(* Whose the record of a context and a poll is.                             *)
LEMMA RecordNames ==
    ASSUME VoteInv, NEW g \in Pages, NEW p \in Polls, NEW b, b = pendingStore[<<g, p>>], b # NULL
    PROVE  /\ b \in Attempts /\ op[b].pc # "free" /\ op[b].poll = p
           /\ op[b].provider = <<g, "sponsored">>
<1>1. pendingStore[<<g, p>>] \in Attempts \cup {NULL}
  BY StoresTyped
<1>2. /\ op[pendingStore[<<g, p>>]].pc # "free" /\ op[pendingStore[<<g, p>>]].poll = p
      /\ op[pendingStore[<<g, p>>]].provider = <<g, "sponsored">>
  BY DEF VoteInv, RecordsFit
<1>. QED
  BY ONLY <1>1, <1>2, b = pendingStore[<<g, p>>], b # NULL

(* A new attempt: nothing points to it yet.                                 *)
LEMMA ConfirmVoteKeeps ==
    ASSUME VoteInv, NEW a \in Attempts, ConfirmVote(a) PROVE VoteInv'
<1>. DEFINE y == [NoOp EXCEPT !.pc = "authorize", !.poll = ui.poll, !.choice = ui.choice,
                              !.provider = <<page.gen, page.mode>>]
<1>0. /\ op[a].pc = "free" /\ MayConfirm
      /\ UNCHANGED <<page, queue, pendingStore, privateState, vault, job, ledger, accepting>>
      /\ op \in [Attempts -> OpShape]
  BY OpTyped DEF ConfirmVote, stores, network
<1>1. ui.poll \in Polls /\ ui.choice \in Answers /\ <<page.gen, page.mode>> \in Providers
  BY <1>0, StoresTyped, PageFits DEF MayConfirm, UiShape, Providers
<1>. DEFINE r == <<page.gen, page.mode>>
<1>2. y \in [pc : {"authorize"}, poll : {ui.poll}, choice : {ui.choice}, provider : {r},
            opening : {NULL}, action : {NULL}, seen : {{}}]
  <2>. HIDE DEF r
  <2>1. y = [NoOp EXCEPT !.pc = "authorize", !.poll = ui.poll, !.choice = ui.choice,
                         !.provider = r]
    BY DEF r
  <2>2. NoOp \in [pc : {"free"}, poll : {NULL}, choice : {NULL}, provider : {NULL},
                 opening : {NULL}, action : {NULL}, seen : {{}}]
    BY DEF NoOp
  <2>. HIDE DEF y
  <2>. QED
    BY ONLY <2>1, <2>2
<1>3. /\ y \in OpShape /\ y.pc = "authorize" /\ y.poll \in Polls /\ y.choice \in Answers
      /\ y.provider \in Providers /\ y.seen = {}
  BY <1>1, <1>2 DEF OpShape, Places, Running
<1>4. op' = [op EXCEPT ![a] = y]
  BY DEF ConfirmVote
<1>. HIDE DEF y
<1>5. /\ op' \in [Attempts -> OpShape] /\ op'[a] = y
      /\ \A x \in Attempts \ {a} : op'[x] = op[x]
  BY <1>0, <1>3, <1>4
<1>6. job[a].status = "none"
  BY <1>0 DEF VoteInv, JobsFit, BeforeSending
<1>7. VTypeOK'
  <2>1. ui' \in UiShape
    BY StageFits DEF ConfirmVote, Screens
  <2>. QED
    BY <1>0, <1>5, <2>1, StoresTyped, TypedMoves
<1>8. Placed'
  BY <1>3, <1>5 DEF VoteInv, Placed
<1>9. Locked'
  BY <1>0, <1>3, <1>5 DEF VoteInv, Locked, Holds, InLock, InCastVote
<1>10. Opened'
  BY <1>0, <1>3, <1>5 DEF VoteInv, Opened
<1>11. JobsFit'
  <2>1. ASSUME NEW x \in Attempts
        PROVE  /\ op'[x].pc \in BeforeSending => job[x].status = "none"
               /\ job[x].status # "none" => job[x].poll = op'[x].poll /\ job[x].opening \in Opening
               /\ job[x].status = "confirmed" => ledger[job[x].poll] = job[x].opening
    BY <1>5, <1>6 DEF VoteInv, JobsFit
  <2>. QED
    BY <1>0, <2>1 DEF JobsFit
<1>12. RecordsFit'
  <2>1. ASSUME NEW x \in Attempts \ {a}
        PROVE  Key(x)' = Key(x) /\ (IsSponsored(x)' <=> IsSponsored(x))
    BY <1>5 DEF Key, IsSponsored
  <2>2. ASSUME NEW x \in Attempts
        PROVE  /\ op'[x].pc = "post" =>
                    IsSponsored(x)' /\ pendingStore'[Key(x)'] = x /\ op'[x].action = x
               /\ op'[x].pc = "wait" /\ IsSponsored(x)' => pendingStore'[Key(x)'] = op'[x].action
               /\ job'[x].status = "pending" /\ IsSponsored(x)' => pendingStore'[Key(x)'] = x
    <3>1. CASE x = a
      BY <1>0, <1>3, <1>5, <1>6, <3>1
    <3>2. CASE x # a
      BY <1>0, <1>5, <2>1, <3>2 DEF VoteInv, RecordsFit
    <3>. QED
      BY <3>1, <3>2
  <2>3. ASSUME NEW g \in Pages, NEW p \in Polls, NEW b, b = pendingStore[<<g, p>>], b # NULL
        PROVE  op'[b].pc # "free" /\ op'[b].poll = p /\ op'[b].provider = <<g, "sponsored">>
    <3>1. /\ b \in Attempts /\ op[b].pc # "free" /\ op[b].poll = p
          /\ op[b].provider = <<g, "sponsored">>
      BY <2>3, RecordNames
    <3>. QED
      BY <1>0, <1>5, <3>1
  <2>4. \A g \in Pages, p \in Polls :
          LET b == pendingStore[<<g, p>>] IN
          b # NULL => op'[b].pc # "free" /\ op'[b].poll = p /\ op'[b].provider = <<g, "sponsored">>
    BY ONLY <2>3, Zenon
  <2>. QED
    BY <1>0, <2>2, <2>4 DEF RecordsFit
<1>13. ActionsFit'
  <2>1. ASSUME NEW x \in Attempts
        PROVE  /\ op'[x].pc = "wait" =>
                    /\ op'[x].action \in Attempts /\ job[op'[x].action].status # "none"
                    /\ job[op'[x].action].poll = op'[x].poll
               /\ op'[x].pc = "joined" =>
                    /\ op'[x].action \in Attempts /\ op[op'[x].action].pc # "free"
                    /\ op[op'[x].action].poll = op'[x].poll
    <3>1. CASE x = a
      BY <1>3, <1>5, <3>1
    <3>2. CASE x # a
      BY <1>5, <3>2 DEF VoteInv, ActionsFit
    <3>. QED
      BY <3>1, <3>2
  <2>2. \A b \in Attempts : op[b].pc # "free" => op'[b] = op[b]
    BY <1>0, <1>5
  <2>. QED
    BY <1>0, <2>1, <2>2 DEF ActionsFit
<1>14. ReceiptsFit'
  <2>1. \A x \in Attempts : HasReceipt(x)' => x # a /\ HasReceipt(x) /\ op'[x] = op[x]
    BY <1>3, <1>5 DEF HasReceipt, Saving
  <2>2. \A x \in Attempts : \A b \in op'[x].seen : b \in op[x].seen
    BY <1>3, <1>5
  <2>. QED
    BY <1>0, <2>1, <2>2 DEF VoteInv, ReceiptsFit, ReceiptBackedByLedger
<1>. QED
  BY <1>7, <1>8, <1>9, <1>10, <1>11, <1>12, <1>13, <1>14 DEF VoteInv

(* A reload ends what was under way; what was sent is still sent.           *)
LEMMA ReloadKeeps ==
    ASSUME VoteInv, Reload PROVE VoteInv'
<1>0. /\ UNCHANGED <<pendingStore, privateState, vault, job, ledger, accepting>>
      /\ op \in [Attempts -> OpShape]
  BY OpTyped DEF Reload, stores, network
<1>1. \A x \in Attempts : [op[x] EXCEPT !.pc = "gone"]
                            = Patched(op[x], "gone", op[x].opening, op[x].action, op[x].seen)
  BY <1>0, PatchesFit
<1>2. op' = [x \in Attempts |->
               IF op[x].pc \in Running
               THEN Patched(op[x], "gone", op[x].opening, op[x].action, op[x].seen) ELSE op[x]]
  BY <1>1 DEF Reload
<1>3. \A x \in Attempts :
        /\ op'[x] \in OpShape
        /\ op'[x].pc = IF op[x].pc \in Running THEN "gone" ELSE op[x].pc
        /\ op'[x].poll = op[x].poll /\ op'[x].provider = op[x].provider
        /\ op'[x].choice = op[x].choice /\ op'[x].opening = op[x].opening
        /\ op'[x].action = op[x].action /\ op'[x].seen = op[x].seen
  BY <1>0, <1>2 DEF Patched, OpShape, Places, Over
<1>4. /\ op' \in [Attempts -> OpShape]
      /\ \A x \in Attempts : op'[x].pc \notin Running
      /\ \A x \in Attempts : op'[x].pc # "gone" => op'[x].pc = op[x].pc
      /\ \A x \in Attempts : op[x].pc # "free" <=> op'[x].pc # "free"
  BY <1>2, <1>3 DEF Running, InCastVote, Saving
<1>5. Placed'
  BY <1>3, <1>4 DEF VoteInv, Placed
<1>6. Locked' /\ Opened'
  BY <1>4 DEF Locked, Opened, InLock, Running, InCastVote
<1>7. VTypeOK'
  <2>1. ui' \in UiShape /\ queue' \in [Providers -> Seq(Attempts)]
    BY DEF Reload, UiShape, Screens
  <2>2. /\ page' \in [gen : Pages, mode : Modes, credential : BOOLEAN, events : 0..MaxEvents]
        /\ page'.gen <= page'.events + 1
    BY DisturbanceFits DEF Reload
  <2>. QED
    BY <1>0, <1>4, <2>1, <2>2 DEF VoteInv, VTypeOK, OpShape, Places, UiShape
<1>8. JobsFit'
  <2>1. \A x \in Attempts : op'[x].pc \in BeforeSending => op[x].pc \in BeforeSending
    BY <1>4 DEF BeforeSending
  <2>. QED
    BY <1>0, <1>3, <2>1 DEF VoteInv, JobsFit
<1>9. RecordsFit'
  <2>1. \A x \in Attempts : Key(x)' = Key(x) /\ (IsSponsored(x)' <=> IsSponsored(x))
    BY <1>3 DEF Key, IsSponsored
  <2>2. ASSUME NEW x \in Attempts
        PROVE  /\ op'[x].pc # "post" /\ op'[x].pc # "wait"
               /\ job[x].status = "pending" /\ IsSponsored(x) => pendingStore[Key(x)] = x
    BY <1>4 DEF VoteInv, RecordsFit, Running, InCastVote
  <2>3. ASSUME NEW g \in Pages, NEW p \in Polls, NEW b, b = pendingStore[<<g, p>>], b # NULL
        PROVE  op'[b].pc # "free" /\ op'[b].poll = p /\ op'[b].provider = <<g, "sponsored">>
    <3>1. /\ b \in Attempts /\ op[b].pc # "free" /\ op[b].poll = p
          /\ op[b].provider = <<g, "sponsored">>
      BY <2>3, RecordNames
    <3>. QED
      BY <1>3, <1>4, <3>1
  <2>4. \A g \in Pages, p \in Polls :
          LET b == pendingStore[<<g, p>>] IN
          b # NULL => op'[b].pc # "free" /\ op'[b].poll = p /\ op'[b].provider = <<g, "sponsored">>
    BY ONLY <2>3, Zenon
  <2>. QED
    BY <1>0, <2>1, <2>2, <2>4 DEF RecordsFit
<1>10. ActionsFit'
  BY <1>4 DEF ActionsFit, Running, InCastVote
<1>11. ReceiptsFit'
  <2>1. \A x \in Attempts : HasReceipt(x)' => HasReceipt(x)
    BY <1>4 DEF HasReceipt, Saving
  <2>. QED
    BY <1>0, <1>3, <2>1 DEF VoteInv, ReceiptsFit, ReceiptBackedByLedger
<1>. QED
  BY <1>5, <1>6, <1>7, <1>8, <1>9, <1>10, <1>11 DEF VoteInv

LEMMA VInitFits == ASSUME VInit PROVE VoteInv
<1>0. /\ op = [x \in Attempts |-> NoOp] /\ job = [x \in Attempts |-> Unsent]
      /\ pendingStore = [k \in Pages \X Polls |-> NULL] /\ vault = {}
  BY DEF VInit
<1>1. /\ \A x \in Attempts : op[x].pc = "free" /\ op[x].seen = {}
      /\ \A x \in Attempts : job[x].status = "none"
      /\ \A g \in Pages, p \in Polls : pendingStore[<<g, p>>] = NULL
  BY <1>0 DEF NoOp, Unsent
<1>2. VTypeOK
  BY VoteClientAssumption DEF VInit, VTypeOK, NoOp, Unsent, Screens, Modes, Pages
<1>3. Placed /\ Locked /\ Opened /\ JobsFit /\ ActionsFit
  BY <1>1 DEF Placed, Locked, Opened, JobsFit, ActionsFit, InLock, InCastVote
<1>4. RecordsFit
  BY <1>1 DEF RecordsFit
<1>5. ReceiptsFit
  BY <1>0, <1>1 DEF ReceiptsFit, ReceiptBackedByLedger, HasReceipt, Saving
<1>. QED
  BY <1>2, <1>3, <1>4, <1>5 DEF VoteInv

LEMMA VNextKeeps == ASSUME VoteInv, [VNext]_vvars PROVE VoteInv'
<1>1. CASE UNCHANGED vvars
  <2>1. /\ UNCHANGED <<op, queue, pendingStore, privateState, job, ledger>>
        /\ ui' = ui /\ page' = page /\ accepting' = accepting /\ vault' = vault
    BY <1>1 DEF vvars
  <2>. QED
    BY <2>1, ScreenKeeps, StoresTyped, PageFits
<1>2. CASE User
  BY <1>2, UserKeeps, ConfirmVoteKeeps DEF User
<1>3. CASE WalletReconnects \/ \E p \in Polls : CloseBallot(p)
  BY <1>3, UserKeeps
<1>4. CASE Reload
  BY <1>4, ReloadKeeps
<1>5. ASSUME NEW a \in Attempts, Step(a) PROVE VoteInv'
  BY <1>5, CastVoteKeeps, CastVoteOnceKeeps, ProveKeeps, SubmitDirectKeeps, SubmitSponsoredKeeps,
     PostKeeps, WaitKeeps, FinalizeKeeps, JoinedEndsKeeps, LoadReceiptsKeeps, SaveReceiptKeeps
  DEF Step
<1>6. ASSUME NEW a \in Attempts, Arrives(a) \/ Land(a) \/ Drop(a) PROVE VoteInv'
  BY <1>6, LandKeeps, DropKeeps
<1>. QED
  BY <1>1, <1>2, <1>3, <1>4, <1>5, <1>6 DEF VNext

LEMMA VoteInvHolds == VSpec => []VoteInv
  BY VInitFits, VNextKeeps, PTL DEF VSpec

(* Every receipt the app holds or shows is that of a transaction the chain  *)
(* included, for the poll of the attempt, whatever is interleaved with it:  *)
(* waitForCanonicalReceipt, the dedupe of castVote and the vault.           *)
THEOREM ReceiptsAreBacked == VSpec => []ReceiptBackedByLedger
<1>1. VoteInv => ReceiptBackedByLedger
  BY DEF VoteInv, ReceiptsFit
<1>. QED
  BY <1>1, VoteInvHolds, PTL

(* One page never has two sponsored actions for the same referendum that    *)
(* may both still be sent: the record is stored before the request leaves,  *)
(* and only the attempt that holds the lock of the provider deletes it.  An *)
(* action is not counted when its request reached the relay after its call  *)
(* had failed ("late"): the record may have been deleted before.            *)
THEOREM OneLiveAction == VSpec => []OneLiveActionPerPoll
<1>1. ASSUME VoteInv, NEW a \in Attempts, NEW b \in Attempts,
             job[a].status = "pending", job[b].status = "pending",
             op[a].provider = op[b].provider, IsSponsored(a), job[a].poll = job[b].poll
      PROVE  a = b
  <2>1. op[a].poll = op[b].poll
    BY <1>1 DEF VoteInv, JobsFit
  <2>2. Key(a) = Key(b) /\ IsSponsored(b)
    BY <1>1, <2>1 DEF Key, IsSponsored
  <2>3. pendingStore[Key(a)] = a /\ pendingStore[Key(b)] = b
    BY <1>1, <2>2 DEF VoteInv, RecordsFit
  <2>. QED
    BY <2>2, <2>3
<1>2. VoteInv => OneLiveActionPerPoll
  BY <1>1 DEF OneLiveActionPerPoll, IsSponsored
<1>. QED
  BY <1>2, VoteInvHolds, PTL

-----------------------------------------------------------------------------
(* Enrolling.  An enrollment is begun once, so what its verification, its   *)
(* evidence and its leaf say is settled in that order and never again: what *)
(* is kept of it afterwards cannot be overtaken by another check.           *)

Begun ==
    \A e \in E :
        /\ clear[e] # "idle" => begin[e] = "clearing"
        /\ verdict[e] # "none" \/ st[e] # "none" \/ poll[e] # "idle" => begin[e] = "over"

(* Evidence is only of a proof of the request, a leaf only of evidence.     *)
Proven ==
    \A e \in E :
        /\ poll[e] = "evidence" => Verified(e)
        /\ e \in evidence => verdict[e] = "verified"
        /\ leaf[e] # NotIssued => verdict[e] = "verified"

ClaimsStand(e) == claims[e] \in 0..MaxNow /\ leaf[e] = claims[e]

(* What a check has obtained; its record is pending until it is saved.      *)
ChecksFit ==
    \A e \in E :
        /\ poll[e] \in {"issue", "answer", "save", "saved", "cleanup"} => claims[e] \in 0..MaxNow
        /\ poll[e] \in {"answer", "save", "saved", "cleanup"} => ClaimsStand(e)
        /\ poll[e] \notin {"idle", "cleanup"} => st[e] = "pending"
        /\ poll[e] = "cleanup" => st[e] = "issued"

(* In the vault, in the memory of an adapter, or on its way there.          *)
Kept(e) == kept = e \/ \E k \in Adapters : restored[k] = e \/ loading[k] = e

(* No check writes other claims for what the browser keeps.                 *)
KeptFits ==
    \A e \in E :
        Kept(e) \/ st[e] = "issued" =>
            /\ begin[e] = "over" /\ ClaimsStand(e)
            /\ poll[e] \in {"saved", "cleanup"} \/ (poll[e] = "idle" /\ st[e] # "pending")

(* The material of a record is there as long as the record can be used.     *)
RecordsLive ==
    /\ blank = {}
    /\ \A e \in E : e \in inMap /\ st[e] \notin {"failed", "expired"} => e \in live

(* A clearCredential has seen records of its own adapter only.              *)
SeenFits ==
    /\ \A d \in inMap : begin[d] = "over"
    /\ \A c \in Callers : clear[c] = "idle" => seen[c] = {}
    /\ \A c \in Callers : \A d \in seen[c] : begin[d] = "over" /\ home[d] = home[c]

EnrollInv ==
    ETypeOK /\ Begun /\ Proven /\ ChecksFit /\ KeptFits /\ RecordsLive /\ SeenFits

(* A check that ends, with the status its record then has.                  *)
LEMMA EndsKeeps ==
    ASSUME EnrollInv, NEW e \in E, poll[e] \notin {"idle", "saved"},
           NEW s \in {"pending", "issued", "failed", "expired"}, Ends(e, s),
           s = st[e] \/ (s \in {"failed", "expired"} /\ poll[e] # "cleanup"),
           UNCHANGED <<begin, claims, clearing, inMap, blank, active, restored, kept, world,
                       verdict, leaf>>,
           \/ live' = live
           \/ live' = live \ {e} /\ s \in {"failed", "expired"},
           evidence' \subseteq evidence, context' \subseteq context, faults' \in 0..MaxFaults
    PROVE  EnrollInv'
<1>. USE DEF EnrollInv, clearing, world
<1>0. /\ poll \in [E -> {"idle", "status", "evidence", "issue", "answer", "conflict", "refused",
                        "save", "saved", "cleanup"}]
      /\ st \in [E -> {"none", "pending", "issued", "failed", "expired"}]
      /\ poll' = [poll EXCEPT ![e] = "idle"] /\ st' = [st EXCEPT ![e] = s]
  BY DEF ETypeOK, Ends
<1>1. /\ poll'[e] = "idle" /\ st'[e] = s
      /\ \A d \in E \ {e} : poll'[d] = poll[d] /\ st'[d] = st[d]
      /\ poll' \in [E -> {"idle", "status", "evidence", "issue", "answer", "conflict", "refused",
                          "save", "saved", "cleanup"}]
      /\ st' \in [E -> {"none", "pending", "issued", "failed", "expired"}]
  BY <1>0
<1>2. ETypeOK'
  <2>1. /\ screen' \in {"closed", "provider", "enrollment", "credential"}
        /\ shown' = shown /\ attempt' \in {None} \cup E /\ owner' \subseteq {Journey} \cup E
    BY DEF ETypeOK, Ends
  <2>. QED
    BY <1>1, <2>1 DEF ETypeOK
<1>3. Begun'
  BY <1>1 DEF Begun
<1>4. Proven'
  BY <1>1 DEF Proven, Verified
<1>5. ChecksFit'
  BY <1>1 DEF ChecksFit, ClaimsStand
<1>6. KeptFits'
  <2>1. ASSUME NEW d \in E, Kept(d) \/ st'[d] = "issued"
        PROVE  /\ begin[d] = "over" /\ ClaimsStand(d)
               /\ poll'[d] \in {"saved", "cleanup"} \/ (poll'[d] = "idle" /\ st'[d] # "pending")
    BY <1>1, <2>1 DEF KeptFits, ChecksFit, Begun
  <2>. QED
    BY <2>1 DEF KeptFits, ClaimsStand, Kept
<1>7. RecordsLive'
  <2>1. \A d \in E : d \in inMap /\ st'[d] \notin {"failed", "expired"} => d \in live'
    BY <1>1 DEF RecordsLive
  <2>. QED
    BY <2>1 DEF RecordsLive
<1>8. SeenFits'
  BY DEF SeenFits
<1>. QED
  BY <1>2, <1>3, <1>4, <1>5, <1>6, <1>7, <1>8

LEMMA FailsKeeps ==
    ASSUME EnrollInv, NEW e \in E, poll[e] \in {"status", "evidence", "save"},
           NEW s \in {"failed", "expired"}, Fails(e, s), faults' \in 0..MaxFaults,
           UNCHANGED <<begin, claims, clearing, inMap, blank, active, restored, kept, world,
                       verdict, leaf>>
    PROVE  EnrollInv'
<1>1. /\ Ends(e, s) /\ live' = live \ {e} /\ evidence' \subseteq evidence
      /\ context' \subseteq context /\ poll[e] \notin {"idle", "saved", "cleanup"}
  BY DEF Fails, Forget
<1>. QED
  BY <1>1, EndsKeeps

LEMMA ChecksKeep ==
    ASSUME EnrollInv, NEW e \in E,
           \/ IssueFails(e) \/ SaveFails(e) \/ CleanedUp(e) \/ AnswerLost(e)
    PROVE  EnrollInv'
<1>0. /\ faults \in 0..MaxFaults /\ MaxFaults \in Nat
      /\ poll[e] \notin {"idle", "cleanup"} => st[e] = "pending"
      /\ poll[e] = "cleanup" => st[e] = "issued"
  BY EnrollmentAssumption DEF EnrollInv, ETypeOK, ChecksFit
<1>1. CASE SaveFails(e)
  BY <1>0, <1>1, FailsKeeps DEF SaveFails, Fault
<1>2. CASE IssueFails(e) \/ CleanedUp(e) \/ AnswerLost(e)
  <2>1. /\ poll[e] \notin {"idle", "saved"} /\ st[e] \in {"pending", "issued"} /\ Ends(e, st[e])
        /\ UNCHANGED <<begin, claims, clearing, inMap, live, blank, active, restored, kept,
                       world, verdict, leaf>>
        /\ evidence' \subseteq evidence /\ context' \subseteq context
        /\ faults' \in 0..MaxFaults
    BY <1>0, <1>2 DEF IssueFails, CleanedUp, AnswerLost, Forget, Fault, service
  <2>. QED
    BY <2>1, EndsKeeps
<1>. QED
  BY <1>1, <1>2

CheckPlaces == {"idle", "status", "evidence", "issue", "answer", "conflict", "refused", "save",
                "saved", "cleanup"}

(* A check that goes on, before anything of it is kept.                     *)
LEMMA GoesOnKeeps ==
    ASSUME EnrollInv, NEW e \in E, poll[e] \notin {"idle", "saved", "cleanup"},
           NEW pc \in CheckPlaces \ {"idle", "cleanup"}, poll' = [poll EXCEPT ![e] = pc],
           UNCHANGED <<view, begin, clearing, memory, kept, world, context, verdict, faults>>,
           claims' \in [E -> 0..NotIssued], leaf' \in [E -> 0..NotIssued], evidence' \subseteq E,
           \A d \in E \ {e} : claims'[d] = claims[d] /\ leaf'[d] = leaf[d],
           \A d \in E \ {e} : d \in evidence' => d \in evidence,
           pc = "evidence" => Verified(e),
           leaf'[e] # NotIssued \/ e \in evidence' => verdict[e] = "verified",
           pc \in {"issue", "answer", "save", "saved"} => claims'[e] \in 0..MaxNow,
           pc \in {"answer", "save", "saved"} => leaf'[e] = claims'[e]
    PROVE  EnrollInv'
<1>. USE DEF EnrollInv, view, clearing, memory, world
<1>1. /\ poll' \in [E -> CheckPlaces] /\ poll'[e] = pc
      /\ \A d \in E \ {e} : poll'[d] = poll[d]
  BY DEF ETypeOK, CheckPlaces
<1>2. st[e] = "pending" /\ begin[e] = "over" /\ ~Kept(e)
  BY DEF ChecksFit, Begun, KeptFits
<1>3. ETypeOK'
  BY <1>1 DEF ETypeOK, CheckPlaces
<1>4. Begun'
  BY <1>1, <1>2 DEF Begun
<1>5. Proven'
  <2>1. ASSUME NEW d \in E
        PROVE  /\ poll'[d] = "evidence" => Verified(d)
               /\ d \in evidence' => verdict[d] = "verified"
               /\ leaf'[d] # NotIssued => verdict[d] = "verified"
    <3>1. CASE d = e
      BY <1>1, <3>1
    <3>2. CASE d # e
      BY <1>1, <3>2 DEF Proven
    <3>. QED
      BY <3>1, <3>2
  <2>. QED
    BY <2>1 DEF Proven, Verified
<1>6. ChecksFit'
  <2>1. ASSUME NEW d \in E
        PROVE  /\ poll'[d] \in {"issue", "answer", "save", "saved", "cleanup"} => claims'[d] \in 0..MaxNow
               /\ poll'[d] \in {"answer", "save", "saved", "cleanup"} => ClaimsStand(d)'
               /\ poll'[d] \notin {"idle", "cleanup"} => st[d] = "pending"
               /\ poll'[d] = "cleanup" => st[d] = "issued"
    <3>1. CASE d = e
      BY <1>1, <1>2, <3>1 DEF ClaimsStand
    <3>2. CASE d # e
      BY <1>1, <3>2 DEF ChecksFit, ClaimsStand
    <3>. QED
      BY <3>1, <3>2
  <2>. QED
    BY <2>1 DEF ChecksFit
<1>7. KeptFits'
  <2>1. \A d \in E : Kept(d)' <=> Kept(d)
    BY DEF Kept
  <2>. QED
    BY <1>1, <1>2, <2>1 DEF KeptFits, ClaimsStand
<1>8. RecordsLive' /\ SeenFits'
  BY DEF RecordsLive, SeenFits
<1>. QED
  BY <1>3, <1>4, <1>5, <1>6, <1>7, <1>8

LEMMA StatusAnswersKeeps ==
    ASSUME EnrollInv, NEW e \in E, StatusAnswers(e) PROVE EnrollInv'
<1>0. /\ poll[e] = "status" /\ st[e] = "pending" /\ faults \in 0..MaxFaults
      /\ UNCHANGED <<begin, claims, clearing, inMap, blank, active, restored, kept, world, verdict,
                     leaf, faults>>
  BY DEF StatusAnswers, EnrollInv, ETypeOK, ChecksFit
<1>1. CASE Fails(e, "expired") \/ Fails(e, "failed")
  BY <1>0, <1>1, FailsKeeps
<1>2. CASE Ends(e, st[e]) /\ UNCHANGED <<live, context, evidence>>
  BY <1>0, <1>2, EndsKeeps
<1>3. CASE /\ Verified(e) /\ poll' = [poll EXCEPT ![e] = "evidence"]
           /\ UNCHANGED <<view, st, live, context, evidence>>
  <2>1. UNCHANGED <<view, begin, clearing, memory, kept, world, context, verdict, faults>>
    BY <1>0, <1>3 DEF memory
  <2>2. /\ claims' \in [E -> 0..NotIssued] /\ leaf' \in [E -> 0..NotIssued] /\ evidence' \subseteq E
        /\ leaf'[e] # NotIssued \/ e \in evidence' => verdict[e] = "verified"
        /\ claims' = claims /\ leaf' = leaf /\ evidence' = evidence
    BY <1>0, <1>3 DEF EnrollInv, ETypeOK, Proven
  <2>3. "evidence" \in CheckPlaces \ {"idle", "cleanup"}
    BY DEF CheckPlaces
  <2>. QED
    BY <1>0, <1>3, <2>1, <2>2, <2>3, GoesOnKeeps
<1>4. \/ Fails(e, "expired") \/ Fails(e, "failed")
      \/ Ends(e, st[e]) /\ UNCHANGED <<live, context, evidence>>
      \/ /\ Verified(e) /\ poll' = [poll EXCEPT ![e] = "evidence"]
         /\ UNCHANGED <<view, st, live, context, evidence>>
  <2>1. CASE e \in lapsed
    BY <2>1 DEF StatusAnswers
  <2>2. CASE e \notin lapsed /\ verdict[e] = "failed"
    BY <2>2 DEF StatusAnswers
  <2>3. CASE e \notin lapsed /\ verdict[e] # "failed" /\ ~Verified(e)
    BY <2>3 DEF StatusAnswers
  <2>4. CASE e \notin lapsed /\ verdict[e] # "failed" /\ Verified(e)
    BY <2>4 DEF StatusAnswers
  <2>. QED
    BY <2>1, <2>2, <2>3, <2>4
<1>. QED
  BY <1>1, <1>2, <1>3, <1>4

(* Evidence the gateway accepts is of the proof of this very request.       *)
LEMMA EvidenceAnswersKeeps ==
    ASSUME EnrollInv, NEW e \in E, EvidenceAnswers(e) PROVE EnrollInv'
<1>0. /\ poll[e] = "evidence" /\ st[e] = "pending" /\ faults \in 0..MaxFaults
      /\ UNCHANGED <<begin, clearing, inMap, blank, active, restored, kept, world, verdict, leaf,
                     faults>>
      /\ verdict[e] \notin {"none", "not_verified", "failed"}
      /\ verdict[e] \in {"none", "not_verified", "verified", "failed", "foreign", "gone", "unlisted"}
  BY DEF EvidenceAnswers, EnrollInv, ETypeOK, ChecksFit, Proven, Verified
<1>1. CASE Fails(e, "failed") /\ UNCHANGED claims
  BY <1>0, <1>1, FailsKeeps
<1>2. CASE Ends(e, st[e]) /\ UNCHANGED <<claims, live, context, evidence>>
  BY <1>0, <1>2, EndsKeeps
<1>3. CASE /\ Evidence(e) = "evidence" /\ Acceptable(e)
           /\ evidence' = evidence \cup {e} /\ claims' = [claims EXCEPT ![e] = now]
           /\ poll' = [poll EXCEPT ![e] = "issue"] /\ UNCHANGED <<view, st, live, context>>
  <2>1. UNCHANGED <<view, begin, clearing, memory, kept, world, context, verdict, faults>>
    BY <1>0, <1>3 DEF memory
  <2>2. verdict[e] \notin {"foreign", "gone", "unlisted"}
    BY <1>3 DEF Evidence, Bound, Acceptable
  <2>3. verdict[e] = "verified"
    BY ONLY <1>0, <2>2
  <2>4. now \in 0..MaxNow /\ claims \in [E -> 0..NotIssued] /\ now \in 0..NotIssued
    BY EnrollmentAssumption DEF EnrollInv, ETypeOK, NotIssued
  <2>5. /\ claims' \in [E -> 0..NotIssued] /\ claims'[e] \in 0..MaxNow
        /\ \A d \in E \ {e} : claims'[d] = claims[d]
    BY <1>3, <2>4
  <2>6. leaf' \in [E -> 0..NotIssued] /\ leaf' = leaf /\ evidence' \subseteq E
    BY <1>0, <1>3 DEF EnrollInv, ETypeOK
  <2>7. "issue" \in CheckPlaces \ {"idle", "cleanup"}
    BY DEF CheckPlaces
  <2>. QED
    BY <1>0, <1>3, <2>1, <2>3, <2>5, <2>6, <2>7, GoesOnKeeps
<1>4. \/ Fails(e, "failed") /\ UNCHANGED claims
      \/ Ends(e, st[e]) /\ UNCHANGED <<claims, live, context, evidence>>
      \/ /\ Evidence(e) = "evidence" /\ Acceptable(e)
         /\ evidence' = evidence \cup {e} /\ claims' = [claims EXCEPT ![e] = now]
         /\ poll' = [poll EXCEPT ![e] = "issue"] /\ UNCHANGED <<view, st, live, context>>
  <2>1. CASE Evidence(e) = "error"
    BY <2>1 DEF EvidenceAnswers
  <2>2. CASE Evidence(e) = "evidence" /\ Acceptable(e)
    BY <2>2 DEF EvidenceAnswers
  <2>3. CASE Evidence(e) # "error" /\ ~(Evidence(e) = "evidence" /\ Acceptable(e))
    BY <2>3 DEF EvidenceAnswers
  <2>. QED
    BY <2>1, <2>2, <2>3
<1>. QED
  BY <1>1, <1>2, <1>3, <1>4

(* The leaf is written once, on evidence, with the claims of the check.     *)
LEMMA IssueCredentialKeeps ==
    ASSUME EnrollInv, NEW e \in E, IssueCredential(e) PROVE EnrollInv'
<1>0. /\ poll[e] = "issue" /\ claims[e] \in 0..MaxNow
      /\ UNCHANGED <<view, begin, clearing, memory, kept, world, context, verdict, faults>>
      /\ claims' = claims /\ evidence' = evidence
      /\ claims \in [E -> 0..NotIssued] /\ leaf \in [E -> 0..NotIssued] /\ evidence \subseteq E
      /\ leaf[e] # NotIssued \/ e \in evidence => verdict[e] = "verified"
      /\ claims[e] # NotIssued
  BY EnrollmentAssumption DEF IssueCredential, EnrollInv, ETypeOK, ChecksFit, Proven, NotIssued
<1>1. \E pc \in {"answer", "conflict", "refused"} :
        /\ poll' = [poll EXCEPT ![e] = pc]
        /\ \/ leaf' = leaf /\ (pc = "answer" => leaf[e] = claims[e])
           \/ leaf' = [leaf EXCEPT ![e] = claims[e]] /\ e \in evidence
  <2>1. CASE SameRequest(e)
    BY <1>0, <2>1 DEF IssueCredential, SameRequest
  <2>2. CASE leaf[e] # NotIssued /\ ~SameRequest(e)
    BY <2>2 DEF IssueCredential
  <2>3. CASE leaf[e] = NotIssued /\ ~SameRequest(e) /\ Authorized(e)
    BY <2>3 DEF IssueCredential, Authorized
  <2>4. CASE leaf[e] = NotIssued /\ ~SameRequest(e) /\ ~Authorized(e)
    BY <2>4 DEF IssueCredential
  <2>. QED
    BY <2>1, <2>2, <2>3, <2>4
<1>2. PICK pc \in {"answer", "conflict", "refused"} :
        /\ poll' = [poll EXCEPT ![e] = pc]
        /\ \/ leaf' = leaf /\ (pc = "answer" => leaf[e] = claims[e])
           \/ leaf' = [leaf EXCEPT ![e] = claims[e]] /\ e \in evidence
  BY <1>1
<1>3. /\ leaf' \in [E -> 0..NotIssued] /\ \A d \in E \ {e} : leaf'[d] = leaf[d]
      /\ pc = "answer" => leaf'[e] = claims'[e]
      /\ leaf'[e] # NotIssued \/ e \in evidence' => verdict[e] = "verified"
  BY <1>0, <1>2
<1>4. /\ pc \in CheckPlaces \ {"idle", "cleanup"} /\ pc \notin {"evidence", "save", "saved"}
      /\ poll[e] \notin {"idle", "saved", "cleanup"}
  BY <1>0 DEF CheckPlaces
<1>5. /\ pc \in {"issue", "answer", "save", "saved"} => claims'[e] \in 0..MaxNow
      /\ pc \in {"answer", "save", "saved"} => leaf'[e] = claims'[e]
      /\ pc = "evidence" => Verified(e)
  BY <1>0, <1>3, <1>4
<1>6. /\ claims' \in [E -> 0..NotIssued] /\ evidence' \subseteq E
      /\ \A d \in E \ {e} : claims'[d] = claims[d] /\ leaf'[d] = leaf[d]
      /\ \A d \in E \ {e} : d \in evidence' => d \in evidence
  BY <1>0, <1>3
<1>. QED
  BY ONLY EnrollInv, e \in E, <1>0, <1>2, <1>3, <1>4, <1>5, <1>6, GoesOnKeeps

(* An answer is taken only while the holder's material is there.            *)
LEMMA AnsweredKeeps ==
    ASSUME EnrollInv, NEW e \in E, Answered(e) PROVE EnrollInv'
<1>0. /\ poll[e] = "answer" /\ st[e] = "pending" /\ claims[e] \in 0..MaxNow
      /\ UNCHANGED <<begin, claims, clearing, inMap, live, active, restored, kept, world, service,
                     faults>>
      /\ claims \in [E -> 0..NotIssued] /\ leaf \in [E -> 0..NotIssued] /\ evidence \subseteq E
      /\ leaf[e] # NotIssued \/ e \in evidence => verdict[e] = "verified"
      /\ faults \in 0..MaxFaults
  BY DEF Answered, EnrollInv, ETypeOK, ChecksFit, Proven
<1>1. CASE ValidIssuance(e)
  <2>1. /\ poll' = [poll EXCEPT ![e] = "save"] /\ blank' = blank /\ UNCHANGED <<view, st>>
        /\ leaf[e] = claims[e]
    BY <1>1 DEF Answered, ValidIssuance
  <2>2. /\ UNCHANGED <<view, begin, clearing, memory, kept, world, context, verdict, faults>>
        /\ claims' = claims /\ leaf' = leaf /\ evidence' = evidence
    BY <1>0, <2>1 DEF memory, service
  <2>3. "save" \in CheckPlaces \ {"idle", "cleanup"}
    BY DEF CheckPlaces
  <2>. QED
    BY <1>0, <2>1, <2>2, <2>3, GoesOnKeeps
<1>2. CASE ~ValidIssuance(e)
  <2>1. Ends(e, st[e]) /\ blank' = blank
    BY <1>2 DEF Answered
  <2>2. UNCHANGED <<begin, claims, clearing, inMap, live, blank, active, restored, kept, world,
                    verdict, leaf, evidence, context, faults>>
    BY <1>0, <2>1 DEF service
  <2>. QED
    BY <1>0, <2>1, <2>2, EndsKeeps
<1>. QED
  BY <1>1, <1>2

(* What is put in the vault, and then in memory, stands.                    *)
LEMMA SaveVaultKeeps ==
    ASSUME EnrollInv, NEW e \in E, SaveVault(e) PROVE EnrollInv'
<1>. USE DEF EnrollInv, SaveVault, view, clearing, memory, world, service
<1>0. /\ poll[e] = "save" /\ st[e] = "pending" /\ begin[e] = "over" /\ ClaimsStand(e)
  BY DEF ChecksFit, Begun
<1>1. ETypeOK' /\ Begun' /\ Proven' /\ RecordsLive' /\ SeenFits'
  BY <1>0 DEF ETypeOK, Begun, Proven, Verified, RecordsLive, SeenFits
<1>2. ChecksFit'
  BY <1>0 DEF ETypeOK, ChecksFit, ClaimsStand
<1>3. KeptFits'
  <2>1. \A d \in E \ {e} : Kept(d)' => Kept(d)
    BY DEF Kept
  <2>. QED
    BY <1>0, <2>1 DEF ETypeOK, KeptFits, ClaimsStand
<1>. QED
  BY <1>1, <1>2, <1>3

LEMMA SavedKeeps ==
    ASSUME EnrollInv, NEW e \in E, Saved(e) PROVE EnrollInv'
<1>. USE DEF EnrollInv, Saved, view, clearing, world, service
<1>0. /\ poll[e] = "saved" /\ st[e] = "pending" /\ begin[e] = "over" /\ ClaimsStand(e)
  BY DEF ChecksFit, Begun
<1>1. /\ poll'[e] = "cleanup" /\ st'[e] = "issued"
      /\ \A d \in E \ {e} : poll'[d] = poll[d] /\ st'[d] = st[d]
  BY DEF ETypeOK
<1>2. ETypeOK'
  <2>1. home[e] \in Adapters /\ restored' \in [Adapters -> {None, Unread} \cup E]
    BY DEF ETypeOK, Callers
  <2>. QED
    BY <2>1 DEF ETypeOK
<1>3. Begun' /\ Proven' /\ SeenFits'
  BY <1>0, <1>1 DEF Begun, Proven, Verified, SeenFits
<1>4. ChecksFit'
  BY <1>0, <1>1 DEF ChecksFit, ClaimsStand
<1>5. KeptFits'
  <2>1. \A d \in E \ {e} : Kept(d)' => Kept(d)
    BY DEF Kept, ETypeOK
  <2>. QED
    BY <1>0, <1>1, <2>1 DEF KeptFits, ClaimsStand
<1>6. RecordsLive'
  <2>1. \A d \in E : d \in inMap /\ st'[d] \notin {"failed", "expired"} => d \in live
    BY <1>0, <1>1 DEF RecordsLive
  <2>. QED
    BY <2>1 DEF RecordsLive
<1>. QED
  BY <1>2, <1>3, <1>4, <1>5, <1>6

(* What touches neither a check nor what is kept.                           *)
LEMMA QuietKeeps ==
    ASSUME EnrollInv, UNCHANGED <<begin, poll, claims, clear, seen, st, inMap, live, blank,
                                  restored, kept, home, verdict, leaf>>,
           \A k \in Adapters : loading'[k] \in {loading[k], kept},
           evidence' \subseteq evidence, ETypeOK'
    PROVE  EnrollInv'
<1>. USE DEF EnrollInv
<1>1. Begun' /\ Proven' /\ ChecksFit' /\ RecordsLive' /\ SeenFits'
  BY DEF Begun, Proven, Verified, ChecksFit, ClaimsStand, RecordsLive, SeenFits
<1>2. KeptFits'
  <2>1. \A d \in E : Kept(d)' => Kept(d)
    BY DEF Kept
  <2>. QED
    BY <2>1 DEF KeptFits, ClaimsStand
<1>. QED
  BY <1>1, <1>2

LEMMA FaultFits ==
    ASSUME EnrollInv, Fault PROVE faults' \in 0..MaxFaults
  BY EnrollmentAssumption DEF EnrollInv, ETypeOK, Fault

(* The journey, the clock, the service and the reading of the vault.        *)
LEMMA WorldKeeps ==
    ASSUME EnrollInv,
           \/ \E k \in Adapters : LoadRestored(k)
           \/ ReplaceAdapter \/ Back \/ Close \/ Reopen \/ Tick \/ Restart
           \/ \E e \in E : Lapse(e) \/ CheckIssued(e)
    PROVE  EnrollInv'
<1>. USE DEF view, memory, clearing, service, world
<1>1. ASSUME NEW k \in Adapters, LoadRestored(k) PROVE EnrollInv'
  <2>1. loading \in [Adapters -> {None, Unread} \cup E] /\ loading' = [loading EXCEPT ![k] = kept]
    BY <1>1 DEF LoadRestored, EnrollInv, ETypeOK
  <2>2. ETypeOK'
    BY <1>1, <2>1 DEF LoadRestored, EnrollInv, ETypeOK
  <2>3. \A j \in Adapters : loading'[j] \in {loading[j], kept}
    BY <2>1
  <2>. QED
    BY <1>1, <2>2, <2>3, QuietKeeps DEF LoadRestored
<1>2. CASE Reopen
  <2>1. ETypeOK'
    BY <1>2 DEF Reopen, Attempt, EnrollInv, ETypeOK
  <2>. QED
    BY <1>2, <2>1, QuietKeeps DEF Reopen
<1>3. CASE \/ ReplaceAdapter \/ Back \/ Close \/ Tick \/ Restart
           \/ \E e \in E : Lapse(e) \/ CheckIssued(e)
  <2>1. /\ faults' \in 0..MaxFaults
        /\ UNCHANGED <<begin, poll, claims, clear, seen, loading, st, inMap, live, blank, active,
                       restored, kept, home, verdict, leaf>>
        /\ evidence' \subseteq evidence
    <3>1. faults \in 0..MaxFaults
      BY DEF EnrollInv, ETypeOK
    <3>. QED
      BY <1>3, <3>1, FaultFits
      DEF ReplaceAdapter, Back, Close, Tick, Restart, Lapse, CheckIssued
  <2>2. /\ screen' \in {"closed", "provider", "enrollment", "credential"}
        /\ shown' \in {None} \cup E /\ attempt' \in {None} \cup E /\ owner' \subseteq {Journey} \cup E
        /\ lapsed' \subseteq E /\ context' \subseteq E
    BY <1>3 DEF ReplaceAdapter, Back, Close, Tick, Restart, Lapse, CheckIssued, EnrollInv, ETypeOK
  <2>3. now' \in 0..MaxNow /\ adapter' \in Adapters
    BY <1>3, EnrollmentAssumption
    DEF ReplaceAdapter, Back, Close, Tick, Restart, Lapse, CheckIssued, EnrollInv, ETypeOK, Adapters
  <2>4. ETypeOK'
    BY <2>1, <2>2, <2>3 DEF EnrollInv, ETypeOK
  <2>. QED
    BY <2>1, <2>4, QuietKeeps
<1>. QED
  BY <1>1, <1>2, <1>3

(* What the vault held when it was read is what is remembered of it.        *)
LEMMA LoadedKeeps ==
    ASSUME EnrollInv, NEW k \in Adapters, Loaded(k) PROVE EnrollInv'
<1>. USE DEF EnrollInv, view, service, world
<1>0. /\ loading \in [Adapters -> {None, Unread} \cup E] /\ restored \in [Adapters -> {None, Unread} \cup E]
      /\ restored' = [restored EXCEPT ![k] = loading[k]]
      /\ loading' = [loading EXCEPT ![k] = Unread]
      /\ UNCHANGED <<begin, poll, claims, clear, seen, st, inMap, live, blank, active, kept>>
      /\ UNCHANGED <<view, world, service, faults>>
  BY DEF Loaded, ETypeOK
<1>1. ETypeOK'
  BY <1>0 DEF ETypeOK
<1>2. Begun' /\ Proven' /\ ChecksFit' /\ RecordsLive' /\ SeenFits'
  BY <1>0 DEF Begun, Proven, Verified, ChecksFit, ClaimsStand, RecordsLive, SeenFits
<1>3. Unread \notin E
  BY EnrollmentAssumption DEF Unread, E
<1>4. \A d \in E : Kept(d)' => Kept(d)
  <2>1. \A j \in Adapters : restored'[j] \in {restored[j], loading[j]} /\ loading'[j] \in {loading[j], Unread}
    BY <1>0
  <2>. QED
    BY <1>0, <1>3, <2>1 DEF Kept
<1>5. KeptFits'
  BY <1>0, <1>4 DEF KeptFits, ClaimsStand
<1>. QED
  BY <1>1, <1>2, <1>5

(* A reload forgets the records, not the vault nor what was settled.        *)
LEMMA EReloadKeeps ==
    ASSUME EnrollInv, EReload PROVE EnrollInv'
<1>. USE DEF EnrollInv, EReload, view, service, world
<1>0. faults' \in 0..MaxFaults
  BY FaultFits
<1>1. ETypeOK'
  <2>1. 1 \in Adapters
    BY EnrollmentAssumption DEF Adapters
  <2>. QED
    BY <1>0, <2>1 DEF ETypeOK
<1>2. Begun'
  BY DEF ETypeOK, Begun, Callers
<1>3. Proven' /\ ChecksFit' /\ RecordsLive' /\ SeenFits'
  BY DEF Proven, Verified, ChecksFit, ClaimsStand, RecordsLive, SeenFits
<1>4. Unread \notin E
  BY EnrollmentAssumption DEF Unread, E
<1>5. KeptFits'
  <2>1. \A d \in E : Kept(d)' => Kept(d)
    BY <1>4 DEF Kept
  <2>. QED
    BY <2>1 DEF KeptFits, ClaimsStand
<1>. QED
  BY <1>1, <1>2, <1>3, <1>5

(* A check begins for a record that is still pending: none that is kept.    *)
LEMMA CheckKeeps ==
    ASSUME EnrollInv, NEW e \in E, Check(e) PROVE EnrollInv'
<1>. USE DEF EnrollInv, Check, memory, clearing, service, world
<1>0. (poll[e] = "idle" => st[e] = "pending") /\ begin[e] = "over"
  BY DEF Begun
<1>1. /\ poll' \in [E -> CheckPlaces] /\ \A d \in E \ {e} : poll'[d] = poll[d]
      /\ poll'[e] = IF poll[e] = "idle" THEN "status" ELSE poll[e]
  BY DEF ETypeOK, CheckPlaces
<1>2. ETypeOK'
  BY <1>1 DEF ETypeOK, CheckPlaces
<1>3. Begun' /\ RecordsLive' /\ SeenFits'
  BY <1>0, <1>1 DEF Begun, RecordsLive, SeenFits
<1>4. Proven'
  BY <1>1 DEF Proven, Verified
<1>5. ChecksFit'
  BY <1>0, <1>1 DEF ChecksFit, ClaimsStand
<1>6. KeptFits'
  <2>1. \A d \in E : Kept(d)' <=> Kept(d)
    BY DEF Kept
  <2>. QED
    BY <1>0, <1>1, <2>1 DEF KeptFits, ClaimsStand
<1>. QED
  BY <1>2, <1>3, <1>4, <1>5, <1>6

(* The verdict is given once, before anything is read of it.                *)
LEMMA VerifiesKeeps ==
    ASSUME EnrollInv, NEW e \in E, Verifies(e) PROVE EnrollInv'
<1>. USE DEF EnrollInv, Verifies, view, memory, clearing, world
<1>0. /\ verdict[e] = "not_verified" /\ begin[e] = "over"
      /\ \A d \in E \ {e} : verdict'[d] = verdict[d]
      /\ verdict'[e] \in {"verified", "failed", "foreign", "gone", "unlisted"}
      /\ verdict' \in [E -> {"none", "not_verified", "verified", "failed", "foreign", "gone", "unlisted"}]
  BY DEF Begun, ETypeOK
<1>1. ETypeOK'
  BY <1>0 DEF ETypeOK
<1>2. Begun' /\ ChecksFit' /\ KeptFits' /\ RecordsLive' /\ SeenFits'
  BY <1>0 DEF Begun, ChecksFit, KeptFits, Kept, ClaimsStand, RecordsLive, SeenFits
<1>3. Proven'
  BY <1>0 DEF Proven, Verified
<1>. QED
  BY <1>1, <1>2, <1>3

(* A beginning: nothing is known of the enrollment before it is over.       *)
LEMMA BeginsFit ==
    ASSUME EnrollInv, NEW e \in E, begin[e] \in {"none", "reading", "creating", "clearing"},
           NEW b \in {"none", "reading", "clearing", "creating", "over"},
           begin' = [begin EXCEPT ![e] = b],
           clear'[e] # "idle" => b = "clearing",
           \A d \in E \ {e} : clear'[d] = clear[d],
           UNCHANGED <<poll, claims, loading, st, inMap, live, blank, restored, kept, verdict,
                       evidence, leaf>>
    PROVE  /\ begin' \in [E -> {"none", "reading", "clearing", "creating", "over"}]
           /\ \A d \in E : begin[d] = "over" => begin'[d] = "over"
           /\ Begun' /\ Proven' /\ ChecksFit' /\ KeptFits' /\ RecordsLive'
<1>. USE DEF EnrollInv
<1>1. /\ begin' \in [E -> {"none", "reading", "clearing", "creating", "over"}] /\ begin'[e] = b
      /\ \A d \in E \ {e} : begin'[d] = begin[d]
  BY DEF ETypeOK
<1>2. /\ verdict[e] = "none" /\ st[e] = "none" /\ poll[e] = "idle"
      /\ ~Kept(e)
  BY DEF Begun, KeptFits
<1>3. Begun'
  BY <1>1, <1>2 DEF Begun
<1>4. Proven' /\ ChecksFit' /\ RecordsLive'
  BY DEF Proven, Verified, ChecksFit, ClaimsStand, RecordsLive
<1>5. KeptFits'
  <2>1. \A d \in E : Kept(d)' <=> Kept(d)
    BY DEF Kept
  <2>. QED
    BY <1>1, <1>2, <2>1 DEF KeptFits, ClaimsStand
<1>. QED
  BY <1>1, <1>3, <1>4, <1>5

LEMMA BeginKeeps ==
    ASSUME EnrollInv, NEW e \in E, Begin(e) \/ BeginClears(e) \/ CreateFails(e) PROVE EnrollInv'
<1>. USE DEF view, memory, clearing, service, world
<1>0. /\ clear \in [Callers -> {"idle", "cleanup", "erase", "erase_failed"}] /\ e \in Callers
      /\ seen \in [Callers -> SUBSET E] /\ inMap \in SUBSET E /\ E \subseteq Callers
      /\ home \in [Callers -> Adapters] /\ adapter \in Adapters
      /\ \A d \in inMap : begin[d] = "over"
      /\ \A c \in Callers : clear[c] = "idle" => seen[c] = {}
      /\ \A c \in Callers : \A d \in seen[c] : d \in E /\ begin[d] = "over" /\ home[d] = home[c]
  BY DEF EnrollInv, ETypeOK, Callers, SeenFits
<1>1. CASE Begin(e)
  <2>1. clear[e] = "idle" /\ begin[e] = "none"
    BY <1>1 DEF Begin, EnrollInv, Begun
  <2>2. /\ begin' \in [E -> {"none", "reading", "clearing", "creating", "over"}]
        /\ \A d \in E : begin[d] = "over" => begin'[d] = "over"
        /\ Begun' /\ Proven' /\ ChecksFit' /\ KeptFits' /\ RecordsLive'
    BY <1>1, <2>1, BeginsFit DEF Begin
  <2>3. /\ home' \in [Callers -> Adapters] /\ \A c \in Callers \ {e} : home'[c] = home[c]
        /\ inMap' = inMap /\ seen' = seen /\ clear' = clear
    BY <1>0, <1>1 DEF Begin
  <2>4. ETypeOK'
    BY <1>1, <2>2, <2>3 DEF Begin, EnrollInv, ETypeOK
  <2>5. SeenFits'
    <3>1. e \notin inMap /\ seen[e] = {} /\ \A c \in Callers : e \notin seen[c]
      BY <1>0, <2>1
    <3>. QED
      BY <1>0, <2>2, <2>3, <3>1 DEF SeenFits
  <2>. QED
    BY <2>2, <2>4, <2>5 DEF EnrollInv
<1>2. CASE CreateFails(e)
  <2>1. clear[e] = "idle" /\ faults' \in 0..MaxFaults
    BY <1>2, FaultFits DEF CreateFails, EnrollInv, Begun
  <2>2. /\ begin' \in [E -> {"none", "reading", "clearing", "creating", "over"}]
        /\ \A d \in E : begin[d] = "over" => begin'[d] = "over"
        /\ Begun' /\ Proven' /\ ChecksFit' /\ KeptFits' /\ RecordsLive'
    BY <1>2, <2>1, BeginsFit DEF CreateFails
  <2>3. ETypeOK'
    BY <1>2, <2>1, <2>2 DEF CreateFails, EnrollInv, ETypeOK
  <2>4. SeenFits'
    BY <1>0, <1>2, <2>2 DEF CreateFails, SeenFits
  <2>. QED
    BY <2>2, <2>3, <2>4 DEF EnrollInv
<1>3. CASE /\ BeginClears(e) /\ begin' = [begin EXCEPT ![e] = "clearing"]
           /\ StartClear(e, home[e])
  <2>0. Records(home[e]) \in SUBSET E /\ \A d \in Records(home[e]) : d \in inMap /\ home[d] = home[e]
    BY <1>0 DEF Records
  <2>1. /\ clear' \in [Callers -> {"idle", "cleanup", "erase", "erase_failed"}]
        /\ seen' \in [Callers -> SUBSET E]
        /\ clear'[e] = "cleanup" /\ seen'[e] = Records(home[e])
        /\ \A d \in Callers \ {e} : clear'[d] = clear[d] /\ seen'[d] = seen[d]
    BY <1>0, <1>3, <2>0 DEF StartClear
  <2>2. /\ begin' \in [E -> {"none", "reading", "clearing", "creating", "over"}]
        /\ \A d \in E : begin[d] = "over" => begin'[d] = "over"
        /\ Begun' /\ Proven' /\ ChecksFit' /\ KeptFits' /\ RecordsLive'
    BY <1>0, <1>3, <2>1, BeginsFit DEF BeginClears
  <2>3. ETypeOK'
    BY <1>3, <2>1, <2>2 DEF BeginClears, EnrollInv, ETypeOK
  <2>4. home' = home /\ inMap' = inMap
    BY <1>3 DEF BeginClears
  <2>5. SeenFits'
    BY <1>0, <2>0, <2>1, <2>2, <2>4 DEF SeenFits
  <2>. QED
    BY <2>2, <2>3, <2>5 DEF EnrollInv
<1>4. CASE BeginClears(e) /\ begin' = [begin EXCEPT ![e] = "creating"] /\ UNCHANGED <<clear, seen>>
  <2>1. clear[e] = "idle"
    BY <1>4 DEF BeginClears, EnrollInv, Begun
  <2>2. /\ begin' \in [E -> {"none", "reading", "clearing", "creating", "over"}]
        /\ \A d \in E : begin[d] = "over" => begin'[d] = "over"
        /\ Begun' /\ Proven' /\ ChecksFit' /\ KeptFits' /\ RecordsLive'
    BY <1>4, <2>1, BeginsFit DEF BeginClears
  <2>3. ETypeOK'
    BY <1>4, <2>2 DEF BeginClears, EnrollInv, ETypeOK
  <2>4. SeenFits'
    BY <1>0, <1>4, <2>2 DEF BeginClears, SeenFits
  <2>. QED
    BY <2>2, <2>3, <2>4 DEF EnrollInv
<1>. QED
  BY <1>1, <1>2, <1>3, <1>4 DEF BeginClears

(* The record of the attempt is fresh, and so is the request.               *)
LEMMA CreatedKeeps ==
    ASSUME EnrollInv, NEW e \in E, Created(e) PROVE EnrollInv'
<1>. USE DEF EnrollInv, clearing, world
<1>0. /\ begin[e] = "creating" /\ verdict[e] = "none" /\ st[e] = "none" /\ poll[e] = "idle"
      /\ clear[e] = "idle" /\ ~Kept(e) /\ e \notin evidence
      /\ leaf[e] = NotIssued
  BY DEF Created, Begun, KeptFits, Proven
<1>1. /\ UNCHANGED <<poll, claims, clear, seen, loading, blank, restored, kept, lapsed, now,
                     adapter, home, evidence, leaf, faults>>
      /\ inMap' = inMap \cup {e} /\ live' = live \cup {e}
      /\ active' \in [Adapters -> {None} \cup E]
      /\ context' = context \cup {e} /\ owner' = owner \ {e}
  <2>1. active \in [Adapters -> {None} \cup E] /\ active' = [active EXCEPT ![home[e]] = e]
    BY DEF Created, NewRecord, ETypeOK
  <2>. QED
    BY <2>1 DEF Created, CreateVerificationRequest, NewRecord
<1>2. /\ begin'[e] = "over" /\ verdict'[e] = "not_verified" /\ st'[e] = "pending"
      /\ \A d \in E \ {e} : begin'[d] = begin[d] /\ verdict'[d] = verdict[d] /\ st'[d] = st[d]
      /\ begin' \in [E -> {"none", "reading", "clearing", "creating", "over"}]
      /\ st' \in [E -> {"none", "pending", "issued", "failed", "expired"}]
      /\ verdict' \in [E -> {"none", "not_verified", "verified", "failed", "foreign", "gone", "unlisted"}]
  BY DEF ETypeOK, Created, CreateVerificationRequest, NewRecord
<1>3. ETypeOK'
  <2>1. /\ screen' \in {"closed", "provider", "enrollment", "credential"}
        /\ shown' \in {None} \cup E /\ attempt' \in {None} \cup E
    BY DEF Created, ETypeOK
  <2>. QED
    BY <1>1, <1>2, <2>1 DEF ETypeOK
<1>4. Begun'
  BY <1>0, <1>1, <1>2 DEF Begun
<1>5. Proven'
  BY <1>0, <1>1, <1>2 DEF Proven, Verified
<1>6. ChecksFit'
  <2>1. ASSUME NEW d \in E
        PROVE  /\ poll[d] \in {"issue", "answer", "save", "saved", "cleanup"} => claims[d] \in 0..MaxNow
               /\ poll[d] \in {"answer", "save", "saved", "cleanup"} => ClaimsStand(d)
               /\ poll[d] \notin {"idle", "cleanup"} => st'[d] = "pending"
               /\ poll[d] = "cleanup" => st'[d] = "issued"
    BY <1>0, <1>2 DEF ChecksFit
  <2>. QED
    BY <1>1, <2>1 DEF ChecksFit, ClaimsStand
<1>7. KeptFits'
  <2>1. \A d \in E : Kept(d)' <=> Kept(d)
    BY <1>1 DEF Kept
  <2>. QED
    BY <1>0, <1>1, <1>2, <2>1 DEF KeptFits, ClaimsStand
<1>8. RecordsLive'
  BY <1>1, <1>2 DEF RecordsLive
<1>9. SeenFits'
  <2>1. \A c \in Callers : seen[c] \subseteq E
    BY DEF ETypeOK
  <2>. QED
    BY <1>1, <1>2, <2>1 DEF SeenFits, ETypeOK
<1>. QED
  BY <1>3, <1>4, <1>5, <1>6, <1>7, <1>8, <1>9

(* Clearing empties; it settles nothing.                                    *)
LEMMA ClearCredentialKeeps ==
    ASSUME EnrollInv, NEW c \in Callers, ClearCredential(c) PROVE EnrollInv'
<1>. USE DEF view, memory, service, world
<1>0. /\ clear \in [Callers -> {"idle", "cleanup", "erase", "erase_failed"}]
      /\ seen \in [Callers -> SUBSET E] /\ inMap \in SUBSET E /\ E \subseteq Callers
      /\ home \in [Callers -> Adapters] /\ adapter \in Adapters
  BY DEF EnrollInv, ETypeOK, Callers
<1>1. /\ c \notin E /\ clear' = [clear EXCEPT ![c] = "cleanup"]
      /\ seen' = [seen EXCEPT ![c] = Records(adapter)] /\ home' = [home EXCEPT ![c] = adapter]
      /\ faults' \in 0..MaxFaults
      /\ UNCHANGED <<screen, shown, attempt, begin, poll, claims, loading, st, inMap, live, blank,
                     active, restored, kept, lapsed, now, adapter, context, evidence, verdict, leaf>>
  BY FaultFits DEF ClearCredential, StartClear
<1>2. Records(adapter) \in SUBSET E /\ \A d \in Records(adapter) : d \in inMap /\ home[d] = adapter
  BY <1>0 DEF Records
<1>3. /\ clear' \in [Callers -> {"idle", "cleanup", "erase", "erase_failed"}]
      /\ seen' \in [Callers -> SUBSET E] /\ home' \in [Callers -> Adapters]
      /\ clear'[c] = "cleanup" /\ seen'[c] = Records(adapter) /\ home'[c] = adapter
      /\ \A d \in Callers \ {c} : clear'[d] = clear[d] /\ seen'[d] = seen[d] /\ home'[d] = home[d]
      /\ \A d \in E : clear'[d] = clear[d] /\ home'[d] = home[d]
  BY <1>0, <1>1, <1>2
<1>4. ETypeOK'
  <2>1. owner' \subseteq {Journey} \cup E
    BY DEF ClearCredential, EnrollInv, ETypeOK
  <2>. QED
    BY <1>1, <1>3, <2>1 DEF EnrollInv, ETypeOK
<1>5. Begun'
  BY <1>1, <1>3 DEF EnrollInv, Begun
<1>6. Proven' /\ ChecksFit' /\ KeptFits' /\ RecordsLive'
  BY <1>1 DEF EnrollInv, Proven, Verified, ChecksFit, ClaimsStand, KeptFits, Kept, RecordsLive
<1>7. SeenFits'
  <2>1. ASSUME NEW x \in Callers, NEW d \in seen'[x]
        PROVE  begin[d] = "over" /\ home'[d] = home'[x]
    <3>1. CASE x = c
      BY <1>0, <1>2, <1>3, <2>1, <3>1 DEF EnrollInv, SeenFits
    <3>2. CASE x # c
      BY <1>0, <1>3, <2>1, <3>2 DEF EnrollInv, SeenFits
    <3>. QED
      BY <3>1, <3>2
  <2>2. \A x \in Callers : clear'[x] = "idle" => seen'[x] = {}
    BY <1>3 DEF EnrollInv, SeenFits
  <2>. QED
    BY <1>1, <2>1, <2>2 DEF EnrollInv, SeenFits
<1>. QED
  BY <1>4, <1>5, <1>6, <1>7 DEF EnrollInv

LEMMA ClearedKeeps ==
    ASSUME EnrollInv, NEW c \in Callers, Cleared(c) PROVE EnrollInv'
<1>. USE DEF view, service, world
<1>0. /\ clear \in [Callers -> {"idle", "cleanup", "erase", "erase_failed"}] /\ E \subseteq Callers
      /\ clear[c] = "cleanup" /\ faults \in 0..MaxFaults
  BY DEF Cleared, EnrollInv, ETypeOK, Callers
<1>1. PICK t \in {"erase", "erase_failed"} : clear' = [clear EXCEPT ![c] = t]
  BY DEF Cleared
<1>2. /\ clear' \in [Callers -> {"idle", "cleanup", "erase", "erase_failed"}]
      /\ \A d \in E : clear'[d] # "idle" => clear[d] # "idle"
      /\ faults' \in 0..MaxFaults /\ context' \subseteq context /\ evidence' \subseteq evidence
  BY <1>0, <1>1, FaultFits DEF Cleared, Forget
<1>3. /\ live' = live \ seen[c] /\ inMap' = inMap \ Records(home[c])
      /\ active' \in [Adapters -> {None} \cup E]
      /\ restored' \in [Adapters -> {None, Unread} \cup E]
      /\ \A k \in Adapters : restored'[k] \in {restored[k], None}
      /\ UNCHANGED <<screen, shown, attempt, owner, begin, poll, claims, seen, loading, st, blank,
                     kept, lapsed, now, adapter, home, verdict, leaf>>
  <2>1. /\ active \in [Adapters -> {None} \cup E] /\ restored \in [Adapters -> {None, Unread} \cup E]
        /\ active' = [active EXCEPT ![home[c]] = None]
        /\ restored' = [restored EXCEPT ![home[c]] = None]
    BY DEF Cleared, EnrollInv, ETypeOK
  <2>. QED
    BY <2>1 DEF Cleared
<1>4. ETypeOK'
  BY <1>2, <1>3 DEF EnrollInv, ETypeOK
<1>5. Begun'
  BY <1>2, <1>3 DEF EnrollInv, Begun
<1>6. Proven' /\ ChecksFit'
  BY <1>2, <1>3 DEF EnrollInv, Proven, Verified, ChecksFit, ClaimsStand
<1>7. None \notin E
  BY EnrollmentAssumption DEF None, E
<1>8. KeptFits'
  <2>1. \A d \in E : Kept(d)' => Kept(d)
    BY <1>3, <1>7 DEF Kept
  <2>. QED
    BY <1>3, <2>1 DEF EnrollInv, KeptFits, ClaimsStand
<1>9. RecordsLive'
  <2>1. \A d \in inMap' : d \in inMap /\ home[d] # home[c]
    BY <1>3 DEF Records
  <2>2. \A d \in inMap' : d \notin seen[c]
    BY <2>1 DEF EnrollInv, SeenFits
  <2>. QED
    BY <1>3, <2>1, <2>2 DEF EnrollInv, RecordsLive
<1>10. SeenFits'
  <2>1. clear'[c] # "idle" /\ \A x \in Callers \ {c} : clear'[x] = clear[x]
    BY <1>0, <1>1
  <2>. QED
    BY <1>3, <2>1 DEF EnrollInv, SeenFits
<1>. QED
  BY <1>4, <1>5, <1>6, <1>8, <1>9, <1>10 DEF EnrollInv

(* A beginning that waited for it goes on, or is over.                      *)
LEMMA ErasedKeeps ==
    ASSUME EnrollInv, NEW c \in Callers, Erased(c) PROVE EnrollInv'
<1>. USE DEF memory, service, world
<1>0. /\ clear \in [Callers -> {"idle", "cleanup", "erase", "erase_failed"}] /\ E \subseteq Callers
      /\ seen \in [Callers -> SUBSET E] /\ clear[c] # "idle"
      /\ begin \in [E -> {"none", "reading", "clearing", "creating", "over"}]
  BY DEF Erased, EnrollInv, ETypeOK, Callers
<1>1. /\ clear' = [clear EXCEPT ![c] = "idle"] /\ seen' = [seen EXCEPT ![c] = {}] /\ kept' = None
      /\ UNCHANGED <<poll, claims, loading, st, inMap, live, blank, active, restored, lapsed, now,
                     adapter, home, context, evidence, verdict, leaf, faults>>
  BY DEF Erased
<1>2. /\ clear' \in [Callers -> {"idle", "cleanup", "erase", "erase_failed"}]
      /\ seen' \in [Callers -> SUBSET E] /\ clear'[c] = "idle" /\ seen'[c] = {}
      /\ \A d \in E \ {c} : clear'[d] = clear[d]
      /\ \A d \in Callers \ {c} : clear'[d] = clear[d] /\ seen'[d] = seen[d]
  BY <1>0, <1>1
<1>3. /\ begin' \in [E -> {"none", "reading", "clearing", "creating", "over"}]
      /\ \A d \in E \ {c} : begin'[d] = begin[d]
      /\ c \in E => begin[c] = "clearing"
  <2>1. c \in E => begin[c] = "clearing"
    BY <1>0 DEF EnrollInv, Begun
  <2>2. CASE c \in E
    <3>1. PICK b \in {"creating", "over"} : begin' = [begin EXCEPT ![c] = b]
      BY <2>2 DEF Erased
    <3>. QED
      BY <1>0, <2>1, <2>2, <3>1
  <2>3. CASE c \notin E
    BY <1>0, <2>3 DEF Erased
  <2>. QED
    BY <2>1, <2>2, <2>3
<1>4. c \in E => /\ verdict[c] = "none" /\ st[c] = "none" /\ poll[c] = "idle"
                 /\ ~Kept(c)
  BY <1>3 DEF EnrollInv, Begun, KeptFits
<1>5. ETypeOK'
  <2>1. /\ screen' \in {"closed", "provider", "enrollment", "credential"}
        /\ shown' \in {None} \cup E /\ attempt' \in {None} \cup E /\ owner' \subseteq {Journey} \cup E
    BY DEF Erased, EnrollInv, ETypeOK
  <2>. QED
    BY <1>1, <1>2, <1>3, <2>1 DEF EnrollInv, ETypeOK
<1>6. Begun'
  BY <1>1, <1>2, <1>3, <1>4 DEF EnrollInv, Begun
<1>7. Proven' /\ ChecksFit' /\ RecordsLive'
  BY <1>1 DEF EnrollInv, Proven, Verified, ChecksFit, ClaimsStand, RecordsLive
<1>8. None \notin E
  BY EnrollmentAssumption DEF None, E
<1>9. KeptFits'
  <2>1. \A d \in E : Kept(d)' => Kept(d)
    BY <1>1, <1>8 DEF Kept
  <2>. QED
    BY <1>1, <1>3, <1>4, <2>1 DEF EnrollInv, KeptFits, ClaimsStand
<1>10. SeenFits'
  <2>1. \A d \in E : begin[d] = "over" => begin'[d] = "over"
    BY <1>3
  <2>2. inMap \subseteq E /\ \A x \in Callers : seen[x] \subseteq E
    BY DEF EnrollInv, ETypeOK
  <2>. QED
    BY <1>1, <1>2, <2>1, <2>2 DEF EnrollInv, SeenFits
<1>. QED
  BY <1>5, <1>6, <1>7, <1>9, <1>10 DEF EnrollInv

LEMMA EInitFits == ASSUME EInit PROVE EnrollInv
<1>1. None \notin E /\ Unread \notin E
  BY EnrollmentAssumption DEF None, Unread, E
<1>2. ETypeOK
  <2>1. 1 \in Adapters
    BY EnrollmentAssumption DEF Adapters
  <2>. QED
    BY <2>1, EnrollmentAssumption DEF EInit, ETypeOK, NotIssued
<1>3. \A d \in E : ~Kept(d)
  BY <1>1 DEF EInit, Kept
<1>. QED
  BY <1>2, <1>3 DEF EInit, EnrollInv, Begun, Proven, ChecksFit, KeptFits, RecordsLive, SeenFits, Callers

LEMMA ENextKeeps == ASSUME EnrollInv, [ENext]_evars PROVE EnrollInv'
<1>1. CASE UNCHANGED evars
  <2>1. /\ UNCHANGED <<begin, poll, claims, clear, seen, st, inMap, live, blank, restored, kept,
                       home, verdict, leaf>>
        /\ loading' = loading /\ evidence' \subseteq evidence
    BY <1>1 DEF evars, memory, clearing, service, world
  <2>2. ETypeOK'
    BY <1>1 DEF evars, view, memory, clearing, service, world, EnrollInv, ETypeOK
  <2>. QED
    BY <2>1, <2>2, QuietKeeps
<1>2. ASSUME NEW c \in Callers, ClearCredential(c) \/ Cleared(c) \/ Erased(c) PROVE EnrollInv'
  BY <1>2, ClearCredentialKeeps, ClearedKeeps, ErasedKeeps
<1>3. ASSUME NEW e \in E, Begin(e) \/ BeginClears(e) \/ CreateFails(e) \/ Created(e) PROVE EnrollInv'
  BY <1>3, BeginKeeps, CreatedKeeps
<1>4. ASSUME NEW e \in E,
             \/ Check(e) \/ StatusAnswers(e) \/ EvidenceAnswers(e) \/ IssueCredential(e)
             \/ Answered(e) \/ SaveVault(e) \/ Saved(e) \/ Verifies(e)
      PROVE  EnrollInv'
  BY <1>4, CheckKeeps, StatusAnswersKeeps, EvidenceAnswersKeeps, IssueCredentialKeeps, AnsweredKeeps,
     SaveVaultKeeps, SavedKeeps, VerifiesKeeps
<1>5. ASSUME NEW e \in E, IssueFails(e) \/ SaveFails(e) \/ CleanedUp(e) \/ AnswerLost(e) PROVE EnrollInv'
  BY <1>5, ChecksKeep
<1>6. CASE \/ \E k \in Adapters : LoadRestored(k)
           \/ ReplaceAdapter \/ Back \/ Close \/ Reopen \/ Tick \/ Restart
           \/ \E e \in E : Lapse(e) \/ CheckIssued(e)
  BY <1>6, WorldKeeps
<1>7. CASE EReload \/ \E k \in Adapters : Loaded(k)
  BY <1>7, LoadedKeeps, EReloadKeeps
<1>. QED
  BY <1>1, <1>2, <1>3, <1>4, <1>5, <1>6, <1>7 DEF ENext

LEMMA EnrollInvHolds == ESpec => []EnrollInv
  BY EInitFits, ENextKeeps, PTL DEF ESpec

(* A credential the browser keeps, in the vault or in the memory of any     *)
(* adapter the application has built, opens the leaf on the ledger and was  *)
(* issued on a proof made for its own request, whatever is cleared, lost,   *)
(* restarted, replaced or begun again around it (validateIssuance,          *)
(* persistIssuedRecord, evidenceFromProof).                                 *)
THEOREM KeptCredentialStands == ESpec => []KeptCredentialOpens
<1>1. ASSUME EnrollInv, NEW e \in E, Kept(e) \/ st[e] = "issued"
      PROVE  e \notin blank /\ leaf[e] = claims[e] /\ verdict[e] = "verified"
  <2>1. claims[e] \in 0..MaxNow /\ leaf[e] = claims[e] /\ blank = {}
    BY <1>1 DEF EnrollInv, KeptFits, ClaimsStand, RecordsLive
  <2>2. leaf[e] # NotIssued
    BY <2>1, EnrollmentAssumption DEF NotIssued
  <2>. QED
    BY <1>1, <2>1, <2>2 DEF EnrollInv, Proven
<1>2. EnrollInv => KeptCredentialOpens
  BY <1>1 DEF KeptCredentialOpens, Kept
<1>. QED
  BY <1>2, EnrollInvHolds, PTL

(* Only the end of a check brings the credential screen, or a check of a    *)
(* record that was issued before.                                           *)
LEMMA CleanedUpShows ==
    ASSUME EnrollInv, ENext, screen # "credential", screen' = "credential"
    PROVE  \E e \in E : (CleanedUp(e) \/ CheckIssued(e)) /\ Held(e)
<1>1. ASSUME NEW e \in E, NEW s, Ends(e, s) PROVE Held(e) /\ s = "issued"
  BY <1>1 DEF Ends
<1>2. ASSUME NEW e \in E,
             \/ StatusAnswers(e) \/ EvidenceAnswers(e) \/ IssueFails(e) \/ Answered(e)
             \/ SaveFails(e) \/ AnswerLost(e)
      PROVE  FALSE
  <2>1. st[e] # "issued"
    BY <1>2 DEF EnrollInv, ChecksFit, StatusAnswers, EvidenceAnswers, IssueFails, Answered,
       SaveFails, AnswerLost
  <2>2. \A s : Ends(e, s) => s = "issued"
    BY <1>1
  <2>3. screen' # screen
    OBVIOUS
  <2>4. CASE StatusAnswers(e)
    BY <2>1, <2>2, <2>3, <2>4 DEF StatusAnswers, Fails, view
  <2>5. CASE EvidenceAnswers(e)
    BY <2>1, <2>2, <2>3, <2>5 DEF EvidenceAnswers, Fails, view
  <2>6. CASE Answered(e)
    BY <2>1, <2>2, <2>3, <2>6 DEF Answered, view
  <2>7. CASE IssueFails(e) \/ SaveFails(e) \/ AnswerLost(e)
    BY <2>1, <2>2, <2>7 DEF IssueFails, SaveFails, AnswerLost, Fails
  <2>. QED
    BY <1>2, <2>4, <2>5, <2>6, <2>7
<1>3. ASSUME NEW e \in E,
             \/ Begin(e) \/ BeginClears(e) \/ Created(e) \/ CreateFails(e) \/ Check(e)
             \/ IssueCredential(e) \/ SaveVault(e) \/ Saved(e) \/ Verifies(e) \/ Lapse(e)
      PROVE  FALSE
  BY <1>3 DEF Begin, BeginClears, Created, CreateFails, Check, IssueCredential, SaveVault, Saved,
     Verifies, Lapse, view
<1>4. ASSUME NEW c \in Callers, ClearCredential(c) \/ Cleared(c) \/ Erased(c) PROVE FALSE
  BY <1>4 DEF ClearCredential, Cleared, Erased, view
<1>5. /\ ~(ReplaceAdapter \/ Back \/ Close \/ Reopen \/ EReload \/ Tick \/ Restart)
      /\ \A k \in Adapters : ~(LoadRestored(k) \/ Loaded(k))
  BY DEF LoadRestored, Loaded, ReplaceAdapter, Back, Close, Reopen, EReload, Tick, Restart, view
<1>6. ASSUME NEW e \in E, CleanedUp(e) \/ CheckIssued(e) PROVE Held(e)
  BY <1>1, <1>6 DEF CleanedUp, CheckIssued
<1>. QED
  BY <1>2, <1>3, <1>4, <1>5, <1>6 DEF ENext

(* When the journey says the credential is ready, the adapter its check was *)
(* made to has an issued credential and hands out its material, whether the *)
(* check has just ended or was over before the journey was opened again:    *)
(* nobody has cleared it or begun another attempt on it in between          *)
(* (loadCredential after getEnrollmentStatus).  That adapter is not always  *)
(* the one the votes use by then: ReadyIsVotable does not hold.             *)
THEOREM ReadyIsUsableHolds == ESpec => ReadyIsUsable
<1>1. ASSUME EnrollInv, [ENext]_evars, BecomesReady
      PROVE  \E e \in E : leaf[e] # NotIssued /\ Material(home[e], e)'
  <2>0. screen # "credential" /\ screen' = "credential"
    BY <1>1 DEF BecomesReady
  <2>1. ENext
    BY <1>1, <2>0 DEF evars, view
  <2>2. PICK e \in E : (CleanedUp(e) \/ CheckIssued(e)) /\ Held(e)
    BY <1>1, <2>0, <2>1, CleanedUpShows
  <2>3. /\ st[e] = "issued" /\ claims[e] \in 0..MaxNow /\ leaf[e] = claims[e]
    BY <1>1, <2>2 DEF CleanedUp, CheckIssued, EnrollInv, ChecksFit, KeptFits, ClaimsStand
  <2>4. leaf[e] # NotIssued
    BY <2>3, EnrollmentAssumption DEF NotIssued
  <2>5. UNCHANGED <<active, restored, live, home>> /\ st'[e] = "issued"
    <3>1. CASE CleanedUp(e)
      BY <1>1, <3>1 DEF CleanedUp, Ends, EnrollInv, ETypeOK, world
    <3>2. CASE CheckIssued(e)
      BY <1>1, <2>3, <3>2 DEF CheckIssued, memory, world
    <3>. QED
      BY <2>2, <3>1, <3>2
  <2>6. e \in inMap => e \in live
    BY <1>1, <2>3 DEF EnrollInv, RecordsLive
  <2>7. Material(home[e], e)'
    BY <2>2, <2>5, <2>6 DEF Held, Material
  <2>. QED
    BY <2>4, <2>7
<1>. QED
  BY <1>1, EnrollInvHolds, PTL DEF ESpec, ReadyIsUsable
=============================================================================
