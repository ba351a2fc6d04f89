------------------------------ MODULE OpsProofs ------------------------------
(***************************************************************************)
(* What is proved of the files of the services and of the deployment.      *)
(*                                                                         *)
(* FileLock: one evidence authorization serves one enrollment.  In the     *)
(* relay, however often its process dies, because its updates are queued;  *)
(* in the credential service, which starts its updates at once, by the     *)
(* lock alone, and only as long as its process does not die.               *)
(*                                                                         *)
(* Deployment: wherever the runs die, the manifest is true.                *)
(***************************************************************************)
EXTENDS FileLock, Deployment, TLAPS

(***************************************************************************)
(* FileLock.                                                               *)
(***************************************************************************)

(* Inside an update: between its read and the release of its lock.          *)
Inside == {"read", "temp", "rename", "release"}

(* Holding the lock file, as long as nobody takes it away.                  *)
Holding == Inside \cup {"stamp", "sweep"}

Working == Locations \ {"idle", "done"}

LockType ==
    /\ store \in Stores /\ store \in {"relay", "credential"}
    /\ pc \in [Tasks -> Locations] /\ file \in Tasks \cup {Nobody}
    /\ snap \in [Tasks -> Tasks \cup {Nobody}]
    /\ answer \in [Tasks -> {"none", "claimed", "refused", "failed"}]
    /\ lock = [by |-> lock.by, pid |-> lock.pid, orphan |-> lock.orphan, stale |-> lock.stale]

(* The queue of the relay: one update at a time.                            *)
QueueInv == store = "relay" => \A t, u \in Tasks : pc[t] \in Working /\ pc[u] \in Working => t = u

(* The lock of a credential service whose process lives: it is never       *)
(* recovered, and it is there exactly while the task that created it holds *)
(* it.                                                                     *)
OneProcess ==
    store = "credential" =>
      /\ deaths = 0 /\ lock.orphan = FALSE /\ lock.stale = FALSE
      /\ \A t \in Tasks : /\ pc[t] \notin {"judge", "unlink"}
                          /\ pc[t] \in Holding <=> lock.by = t

(* What an update is about to write is still what follows from the file,   *)
(* and what its caller is told is what the file says.                      *)
UpdateInv ==
    \A t \in Tasks :
      /\ pc[t] \in {"temp", "rename"} => snap[t] = IF file = Nobody THEN t ELSE file
      /\ pc[t] \in {"release", "done"} /\ answer[t] = "claimed" => file = t

LockInv == LockType /\ QueueInv /\ OneProcess /\ UpdateInv

(* The process of a credential service does not die: its recovery of a     *)
(* lock is not safe (recoverStaleLock), the relay's has the queue.         *)
CredentialLives == "credential" \in Stores => MaxDeaths["credential"] = 0

LEMMA LockInit == LInit => LockInv
<1>. SUFFICES ASSUME LInit PROVE LockInv
  OBVIOUS
<1>1. store \in {"relay", "credential"}
  BY FileLockAssumption DEF LInit
<1>. QED
  BY <1>1, FileLockAssumption DEF LInit, LockInv, LockType, QueueInv, OneProcess, UpdateInv,
     NoLock, Locations, Working, Holding, Inside

(* Two updates are never inside at once.                                    *)
LEMMA OneInside ==
    ASSUME LockInv, NEW t \in Tasks, NEW u \in Tasks, pc[t] \in Inside, pc[u] \in Inside
    PROVE  t = u
<1>1. CASE store = "relay"
  BY <1>1 DEF LockInv, QueueInv, Working, Inside, Locations
<1>2. CASE store = "credential"
  BY <1>2 DEF LockInv, OneProcess, Holding
<1>. QED
  BY <1>1, <1>2 DEF LockInv, LockType

(* A step of one task keeps the invariant when it keeps the type and what   *)
(* UpdateInv says, and the lock agrees with where it takes the task.        *)
LEMMA TaskMoves ==
    ASSUME LockInv, NEW t \in Tasks, NEW l \in Locations, Goto(t, l), UNCHANGED <<store, deaths>>,
           pc[t] \in Working \/ (pc[t] = "idle" /\ Queued(t)), LockType', UpdateInv',
           store = "credential" =>
             /\ lock'.orphan = FALSE /\ lock'.stale = FALSE /\ l \notin {"judge", "unlink"}
             /\ l \in Holding <=> lock'.by = t
             /\ \A u \in Tasks \ {t} : lock'.by = u <=> lock.by = u
    PROVE  LockInv'
<1>1. pc' = [pc EXCEPT ![t] = l] /\ pc \in [Tasks -> Locations]
  BY DEF Goto, LockInv, LockType
<1>2. QueueInv'
  <2>1. CASE pc[t] = "idle" /\ Queued(t)
    BY <1>1, <2>1 DEF QueueInv, Queued, Working
  <2>2. CASE pc[t] \in Working
    BY <1>1, <2>2 DEF LockInv, QueueInv
  <2>. QED
    BY <2>1, <2>2
<1>3. OneProcess'
  BY <1>1 DEF LockInv, OneProcess
<1>. QED
  BY <1>2, <1>3 DEF LockInv

(* A task that moves outside of its update disturbs nobody.                 *)
LEMMA NothingWritten ==
    ASSUME LockInv, NEW t \in Tasks, NEW l \in Locations \ {"temp", "rename", "release", "done"}, Goto(t, l),
           UNCHANGED <<store, file, snap, answer>>,
           lock' = [by |-> lock'.by, pid |-> lock'.pid, orphan |-> lock'.orphan, stale |-> lock'.stale]
    PROVE  LockType' /\ UpdateInv'
BY DEF Goto, LockInv, LockType, UpdateInv

LEMMA LockNext == ASSUME CredentialLives, LockInv, [LNext]_lvars PROVE LockInv'
<1>1. /\ LockType /\ QueueInv /\ OneProcess /\ UpdateInv
      /\ pc \in [Tasks -> Locations] /\ store \in {"relay", "credential"} /\ Nobody \notin Tasks
  BY FileLockAssumption DEF LockInv, LockType
<1>2. CASE UNCHANGED lvars
  BY <1>1, <1>2 DEF lvars, LockInv, LockType, QueueInv, OneProcess, UpdateInv
<1>3. ASSUME NEW t \in Tasks, Update(t) PROVE LockInv'
  <2>1. /\ pc[t] = "idle" /\ Queued(t) /\ Goto(t, "open") /\ UNCHANGED <<store, lock, file, snap, answer, deaths>>
    BY <1>3 DEF Update
  <2>2. LockType' /\ UpdateInv'
    BY <1>1, <2>1, NothingWritten DEF LockType, Locations
  <2>. QED
    BY <1>1, <2>1, <2>2, TaskMoves DEF Locations, OneProcess, Holding, Inside
<1>4. ASSUME NEW t \in Tasks, Open(t) PROVE LockInv'
  <2>1. /\ pc[t] = "open" /\ UNCHANGED <<store, file, snap, answer, deaths>>
        /\ \/ lock = NoLock /\ lock' = [NoLock EXCEPT !.by = t] /\ Goto(t, "stamp")
           \/ lock # NoLock /\ Goto(t, "stat") /\ UNCHANGED lock
    BY <1>4 DEF Open
  <2>2. LockType' /\ UpdateInv'
    BY <1>1, <2>1, NothingWritten DEF LockType, Locations, NoLock
  <2>3. pc[t] \in Working
    BY <2>1 DEF Working, Locations
  <2>4. CASE lock = NoLock /\ lock' = [NoLock EXCEPT !.by = t] /\ Goto(t, "stamp")
    BY <1>1, <2>1, <2>2, <2>3, <2>4, TaskMoves DEF Locations, OneProcess, Holding, Inside, NoLock
  <2>5. CASE lock # NoLock /\ Goto(t, "stat") /\ UNCHANGED lock
    BY <1>1, <2>1, <2>2, <2>3, <2>5, TaskMoves DEF Locations, OneProcess, Holding, Inside
  <2>. QED
    BY <2>1, <2>4, <2>5
<1>5. ASSUME NEW t \in Tasks, Stamp(t) PROVE LockInv'
  <2>1. /\ pc[t] = "stamp" /\ UNCHANGED <<store, file, snap, answer, deaths>>
        /\ Goto(t, IF store = "relay" THEN "read" ELSE "sweep")
        /\ lock' = IF lock.by = t THEN [lock EXCEPT !.pid = pid] ELSE lock
    BY <1>5 DEF Stamp
  <2>. DEFINE l == IF store = "relay" THEN "read" ELSE "sweep"
  <2>2. /\ l \in Locations \ {"temp", "rename", "release", "done"}
        /\ l \notin {"judge", "unlink"} /\ l \in Holding
    BY DEF Locations, Holding, Inside
  <2>3. /\ lock'.by = lock.by /\ lock'.orphan = lock.orphan /\ lock'.stale = lock.stale
        /\ lock' = [by |-> lock'.by, pid |-> lock'.pid, orphan |-> lock'.orphan, stale |-> lock'.stale]
    BY <1>1, <2>1 DEF LockType
  <2>4. Goto(t, l)
    BY <2>1
  <2>5. pc[t] \in Working /\ pc[t] \in Holding
    BY <2>1 DEF Working, Locations, Holding
  <2>. HIDE DEF l
  <2>6. LockType' /\ UpdateInv'
    BY <2>1, <2>2, <2>3, <2>4, NothingWritten
  <2>. QED
    BY <1>1, <2>1, <2>2, <2>3, <2>4, <2>5, <2>6, TaskMoves DEF OneProcess
<1>6. ASSUME NEW t \in Tasks, Sweep(t) PROVE LockInv'
  <2>1. /\ pc[t] = "sweep" /\ Goto(t, "read") /\ UNCHANGED <<store, lock, file, snap, answer, deaths>>
    BY <1>6 DEF Sweep
  <2>2. LockType' /\ UpdateInv'
    BY <1>1, <2>1, NothingWritten DEF LockType, Locations
  <2>. QED
    BY <1>1, <2>1, <2>2, TaskMoves DEF Working, Locations, OneProcess, Holding, Inside
<1>7. ASSUME NEW t \in Tasks, Read(t) PROVE LockInv'
  <2>1. /\ pc[t] = "read" /\ Goto(t, "temp") /\ UNCHANGED <<store, lock, file, answer, deaths>>
        /\ snap' = [snap EXCEPT ![t] = IF file = Nobody THEN t ELSE file]
    BY <1>7 DEF Read
  <2>2. LockType'
    BY <1>1, <2>1 DEF LockType, Goto, Locations
  <2>3. UpdateInv'
    BY <1>1, <2>1 DEF LockType, UpdateInv, Goto
  <2>. QED
    BY <1>1, <2>1, <2>2, <2>3, TaskMoves DEF Working, Locations, OneProcess, Holding, Inside
<1>8. ASSUME NEW t \in Tasks, WriteTemp(t) PROVE LockInv'
  <2>1. /\ pc[t] = "temp" /\ Goto(t, "rename") /\ UNCHANGED <<store, lock, file, snap, answer, deaths>>
    BY <1>8 DEF WriteTemp
  <2>2. LockType' /\ UpdateInv'
    BY <1>1, <2>1 DEF LockType, UpdateInv, Goto, Locations
  <2>. QED
    BY <1>1, <2>1, <2>2, TaskMoves DEF Working, Locations, OneProcess, Holding, Inside
<1>9. ASSUME NEW t \in Tasks, Rename(t) PROVE LockInv'
  <2>1. /\ pc[t] = "rename" /\ Goto(t, "release") /\ UNCHANGED <<store, lock, snap, deaths>>
        /\ \/ file' = snap[t] /\ answer' = [answer EXCEPT ![t] = IF snap[t] = t THEN "claimed" ELSE "refused"]
           \/ answer' = [answer EXCEPT ![t] = "failed"] /\ UNCHANGED file
    BY <1>9 DEF Rename
  <2>2. LockType'
    BY <1>1, <2>1 DEF LockType, Goto, Locations
  <2>3. \A u \in Tasks : pc[u] \in Inside => u = t
    BY <2>1, OneInside DEF Inside
  <2>4. snap[t] = IF file = Nobody THEN t ELSE file
    BY <1>1, <2>1 DEF UpdateInv
  <2>5. ASSUME NEW u \in Tasks, u # t
        PROVE  /\ pc'[u] \notin {"temp", "rename", "release"} /\ pc'[u] = pc[u] /\ answer'[u] = answer[u]
               /\ pc[u] = "done" /\ answer[u] = "claimed" => file = u /\ file' = u
    BY <1>1, <2>1, <2>3, <2>4, <2>5 DEF LockType, UpdateInv, Goto, Inside
  <2>6. pc'[t] = "release" /\ (answer'[t] = "claimed" => file' = t)
    BY <1>1, <2>1 DEF LockType, Goto
  <2>7. UpdateInv'
    BY <2>5, <2>6 DEF UpdateInv
  <2>. QED
    BY <1>1, <2>1, <2>2, <2>7, TaskMoves DEF Working, Locations, OneProcess, Holding, Inside
<1>10. ASSUME NEW t \in Tasks, Release(t) PROVE LockInv'
  <2>1. /\ pc[t] = "release" /\ lock' = NoLock /\ Goto(t, "done") /\ UNCHANGED <<store, file, snap, answer, deaths>>
    BY <1>10 DEF Release
  <2>2. LockType' /\ UpdateInv'
    BY <1>1, <2>1 DEF LockType, UpdateInv, Goto, Locations, NoLock
  <2>3. store = "credential" => \A u \in Tasks \ {t} : lock.by # u
    BY <1>1, <2>1 DEF OneProcess, Holding, Inside
  <2>4. lock'.by = Nobody /\ lock'.orphan = FALSE /\ lock'.stale = FALSE
    BY <2>1 DEF NoLock
  <2>. QED
    BY <1>1, <2>1, <2>2, <2>3, <2>4, TaskMoves DEF Working, Locations, Holding, Inside
<1>11. ASSUME NEW t \in Tasks, StatLock(t) PROVE LockInv'
  <2>1. PICK l \in {"open", "idle", "judge"} :
          /\ Goto(t, l) /\ pc[t] = "stat" /\ UNCHANGED <<store, lock, file, snap, answer, deaths>>
          /\ l = "judge" => lock.stale
    BY <1>11 DEF StatLock
  <2>2. /\ l \in Locations \ {"temp", "rename", "release", "done"} /\ l \notin Holding /\ l # "unlink"
        /\ pc[t] \in Working /\ pc[t] \notin Holding
    BY <2>1 DEF Locations, Working, Holding, Inside
  <2>3. LockType' /\ UpdateInv'
    BY <1>1, <2>1, <2>2, NothingWritten DEF LockType
  <2>. QED
    BY <1>1, <2>1, <2>2, <2>3, TaskMoves DEF OneProcess
<1>12. ASSUME NEW t \in Tasks, JudgeOwner(t) PROVE LockInv'
  <2>1. PICK l \in {"open", "idle", "unlink"} :
          Goto(t, l) /\ pc[t] = "judge" /\ UNCHANGED <<store, lock, file, snap, answer, deaths>>
    BY <1>12 DEF JudgeOwner
  <2>2. /\ l \in Locations \ {"temp", "rename", "release", "done"} /\ pc[t] \in Working /\ store # "credential"
    BY <1>1, <2>1 DEF Locations, Working, OneProcess
  <2>3. LockType' /\ UpdateInv'
    BY <1>1, <2>1, <2>2, NothingWritten DEF LockType
  <2>. QED
    BY <1>1, <2>1, <2>2, <2>3, TaskMoves
<1>13. ASSUME NEW t \in Tasks, UnlinkLock(t) PROVE LockInv'
  <2>1. Goto(t, "open") /\ pc[t] = "unlink" /\ lock' = NoLock /\ UNCHANGED <<store, file, snap, answer, deaths>>
    BY <1>13 DEF UnlinkLock
  <2>2. pc[t] \in Working /\ store # "credential" /\ "open" \in Locations
    BY <1>1, <2>1 DEF Locations, Working, OneProcess
  <2>3. LockType' /\ UpdateInv'
    BY <1>1, <2>1, <2>2, NothingWritten DEF NoLock, Locations
  <2>. QED
    BY <1>1, <2>1, <2>2, <2>3, TaskMoves
<1>14. CASE Die
  <2>1. /\ deaths < MaxDeaths[store] /\ UNCHANGED <<store, file, snap>>
        /\ lock' = IF lock = NoLock THEN lock ELSE [lock EXCEPT !.orphan = TRUE]
        /\ pc' = [t \in Tasks |-> IF pc[t] = "done" THEN "done" ELSE "idle"]
        /\ answer' = [t \in Tasks |-> IF pc[t] = "done" THEN answer[t] ELSE "none"]
    BY <1>14 DEF Die
  <2>2. store = "relay"
    <3>1. store = "credential" => deaths = 0 /\ MaxDeaths[store] = 0
      BY <1>1 DEF OneProcess, LockType, CredentialLives
    <3>. QED
      BY <1>1, <2>1, <3>1
  <2>3. LockType'
    BY <1>1, <2>1 DEF LockType, Locations
  <2>4. QueueInv' /\ UpdateInv'
    BY <1>1, <2>1 DEF QueueInv, UpdateInv, Working
  <2>. QED
    BY <2>1, <2>2, <2>3, <2>4 DEF LockInv, OneProcess
<1>15. CASE Age
  <2>1. /\ lock.orphan /\ lock' = [lock EXCEPT !.stale = TRUE] /\ UNCHANGED <<store, file, pc, snap, answer, deaths>>
    BY <1>15 DEF Age
  <2>2. store # "credential"
    BY <1>1, <2>1 DEF OneProcess
  <2>. QED
    BY <1>1, <2>1, <2>2 DEF LockInv, LockType, QueueInv, OneProcess, UpdateInv
<1>. QED
  BY <1>2, <1>3, <1>4, <1>5, <1>6, <1>7, <1>8, <1>9, <1>10, <1>11, <1>12, <1>13, <1>14, <1>15 DEF LNext, TaskStep

(* One evidence authorization serves one enrollment: always in the relay,   *)
(* and in a credential service whose process does not die (claim,           *)
(* AtomicJsonStore.update, FileV2ActionStore.withLock).                     *)
THEOREM EvidenceClaimedOnce == ASSUME CredentialLives PROVE LSpec => []ClaimedOnce
<1>1. LockInv => ClaimedOnce
  BY DEF LockInv, UpdateInv, ClaimedOnce
<1>2. LockInv /\ [LNext]_lvars => LockInv'
  BY LockNext
<1>. QED
  BY <1>1, <1>2, LockInit, PTL DEF LSpec

(***************************************************************************)
(* Deployment.                                                             *)
(***************************************************************************)

RegistryRecords == [leaves : Nat, fixture : BOOLEAN, attested : SUBSET Nat]

ReferendumRecords ==
    [registry : Nat, initial : Nat, accepted : SUBSET Nat, phase : {"COMMIT", "REVEAL", "FINALIZED"},
     votes : SUBSET {"fixture", "other"}, revealed : BOOLEAN]

Manifests ==
    [exists : BOOLEAN, registry : Nat, referendum : Nat, initial : Nat, accepted : SUBSET Nat,
     attests : SUBSET Nat, publishes : SUBSET Nat, steps : [Milestones -> {"none", "reconciled", "receipt"}],
     replayRejected : BOOLEAN, sealed : BOOLEAN, complete : BOOLEAN]

Scripts == [stage : Stages, upTo : {"prepare", "complete"}, path : Nat, root : Nat]

(* What a manifest m says of the contracts: JournalIsTrue, and that it says *)
(* nothing of a contract it has no address of.                              *)
TrueOf(m, regs, refs) ==
    /\ m.registry \in 0..Len(regs) /\ m.referendum \in 0..Len(refs)
    /\ m.registry = 0 => m.attests = {} /\ m.referendum = 0
    /\ m.referendum = 0 =>
         m.publishes = {} /\ m.accepted = {m.initial} /\ m.steps["lifecycle.cast"] # "receipt"
    /\ m.registry # 0 => m.attests \subseteq regs[m.registry].attested
    /\ m.referendum # 0 =>
         /\ refs[m.referendum].registry = m.registry /\ refs[m.referendum].initial = m.initial
         /\ m.accepted \subseteq refs[m.referendum].accepted \cap regs[m.registry].attested
         /\ m.publishes \subseteq refs[m.referendum].accepted
         /\ m.steps["lifecycle.cast"] = "receipt" => "fixture" \in refs[m.referendum].votes

(* What a running script r relies on: the addresses its stage needs, and    *)
(* that the root it is about to use has been attested.                      *)
ReliesOn(r, m) ==
    /\ r.stage \notin {"stopped", "registry"} => m.registry # 0
    /\ r.stage \notin {"stopped", "registry", "issue", "attest", "referendum"} => m.referendum # 0
    /\ r.stage = "referendum" /\ m.referendum = 0 => m.initial \in m.attests
    /\ r.stage = "publish" => r.root \in m.attests

JournalInv ==
    /\ registries \in Seq(RegistryRecords) /\ referenda \in Seq(ReferendumRecords)
    /\ manifest \in Manifests /\ run \in Scripts
    /\ TrueOf(manifest, registries, referenda)
    /\ ReliesOn(run, manifest)

(* The chain only grows: contracts stay, and so do the roots they have      *)
(* attested or accepted and the votes.                                      *)
Grows(regs, refs, regs2, refs2) ==
    /\ regs2 \in Seq(RegistryRecords) /\ refs2 \in Seq(ReferendumRecords)
    /\ Len(regs2) >= Len(regs) /\ Len(refs2) >= Len(refs)
    /\ \A i \in 1..Len(regs) : regs[i].attested \subseteq regs2[i].attested
    /\ \A i \in 1..Len(refs) :
         /\ refs2[i].registry = refs[i].registry /\ refs2[i].initial = refs[i].initial
         /\ refs[i].accepted \subseteq refs2[i].accepted /\ refs[i].votes \subseteq refs2[i].votes

LEMMA StillTrue ==
    ASSUME NEW m \in Manifests, NEW regs \in Seq(RegistryRecords), NEW refs \in Seq(ReferendumRecords),
           NEW regs2, NEW refs2, TrueOf(m, regs, refs), Grows(regs, refs, regs2, refs2)
    PROVE  TrueOf(m, regs2, refs2)
<1>1. m.registry \in Nat /\ m.referendum \in Nat
  BY DEF Manifests
<1>2. /\ Len(regs) \in Nat /\ Len(refs) \in Nat /\ Len(regs2) \in Nat /\ Len(refs2) \in Nat
  BY DEF Grows
<1>3. m.registry # 0 => m.registry \in 1..Len(regs)
  BY <1>1, <1>2 DEF TrueOf
<1>4. m.referendum # 0 => m.referendum \in 1..Len(refs)
  BY <1>1, <1>2 DEF TrueOf
<1>5. m.registry \in 0..Len(regs2) /\ m.referendum \in 0..Len(refs2)
  BY <1>1, <1>2 DEF TrueOf, Grows
<1>6. m.referendum # 0 => m.registry # 0
  BY DEF TrueOf
<1>. QED
  BY <1>3, <1>4, <1>5, <1>6 DEF TrueOf, Grows

LEMMA NothingGrows ==
    ASSUME NEW regs \in Seq(RegistryRecords), NEW refs \in Seq(ReferendumRecords)
    PROVE  Grows(regs, refs, regs, refs)
BY DEF Grows, ReferendumRecords

(* A registry or a referendum that changes grows.                           *)
LEMMA RegistryGrows ==
    ASSUME NEW regs \in Seq(RegistryRecords), NEW refs \in Seq(ReferendumRecords),
           NEW i \in 1..Len(regs), NEW new \in RegistryRecords, regs[i].attested \subseteq new.attested
    PROVE  Grows(regs, refs, [regs EXCEPT ![i] = new], refs)
BY DEF Grows

LEMMA ReferendumGrows ==
    ASSUME NEW regs \in Seq(RegistryRecords), NEW refs \in Seq(ReferendumRecords),
           NEW i \in 1..Len(refs), NEW new \in ReferendumRecords,
           new.registry = refs[i].registry, new.initial = refs[i].initial,
           refs[i].accepted \subseteq new.accepted, refs[i].votes \subseteq new.votes
    PROVE  Grows(regs, refs, regs, [refs EXCEPT ![i] = new])
BY DEF Grows

LEMMA RegistryAppears ==
    ASSUME NEW regs \in Seq(RegistryRecords), NEW refs \in Seq(ReferendumRecords), NEW new \in RegistryRecords
    PROVE  /\ Grows(regs, refs, Append(regs, new), refs)
           /\ Len(Append(regs, new)) = Len(regs) + 1 /\ Append(regs, new)[Len(regs) + 1] = new
BY DEF Grows

LEMMA ReferendumAppears ==
    ASSUME NEW regs \in Seq(RegistryRecords), NEW refs \in Seq(ReferendumRecords), NEW new \in ReferendumRecords
    PROVE  /\ Grows(regs, refs, regs, Append(refs, new))
           /\ Len(Append(refs, new)) = Len(refs) + 1 /\ Append(refs, new)[Len(refs) + 1] = new
BY DEF Grows

(* recordStep changes one step of the manifest.                             *)
LEMMA StepRecorded ==
    ASSUME NEW m \in Manifests, NEW id \in Milestones, NEW status \in {"reconciled", "receipt"}
    PROVE  LET s == recordStep(m, id, status)
           IN  /\ s \in Manifests
               /\ s.registry = m.registry /\ s.referendum = m.referendum /\ s.initial = m.initial
               /\ s.accepted = m.accepted /\ s.attests = m.attests /\ s.publishes = m.publishes
               /\ s.steps["lifecycle.cast"] = "receipt" =>
                    m.steps["lifecycle.cast"] = "receipt" \/ (id = "lifecycle.cast" /\ status = "receipt")
BY DEF recordStep, Manifests, Milestones

(* A step that is recorded, but not the receipt of a ballot, leaves what is *)
(* said of the contracts true.                                              *)
LEMMA RecordedIsTrue ==
    ASSUME NEW m \in Manifests, NEW regs, NEW refs, TrueOf(m, regs, refs),
           NEW id \in Milestones, NEW status \in {"reconciled", "receipt"},
           id = "lifecycle.cast" /\ status = "receipt" =>
             m.referendum # 0 /\ "fixture" \in refs[m.referendum].votes
    PROVE  TrueOf(recordStep(m, id, status), regs, refs)
<1>. DEFINE s == recordStep(m, id, status)
<1>1. /\ s.registry = m.registry /\ s.referendum = m.referendum /\ s.initial = m.initial
      /\ s.accepted = m.accepted /\ s.attests = m.attests /\ s.publishes = m.publishes
      /\ s.steps["lifecycle.cast"] = "receipt" =>
           m.steps["lifecycle.cast"] = "receipt" \/ (id = "lifecycle.cast" /\ status = "receipt")
  BY StepRecorded
<1>. HIDE DEF s
<1>2. TrueOf(s, regs, refs)
  BY <1>1 DEF TrueOf
<1>. QED
  BY <1>2 DEF s

LEMMA IdleRelies == ASSUME NEW m PROVE Idle \in Scripts /\ ReliesOn(Idle, m)
BY DEF Idle, Scripts, Stages, ReliesOn

LEMMA AtStage ==
    ASSUME run \in Scripts, NEW to \in Stages
    PROVE  At(to) \in Scripts /\ At(to).stage = to /\ At(to).path = run.path /\ At(to).root = run.root
BY DEF At, Scripts

(* The chain grows, and the script leaves a manifest s that is true of it.  *)
LEMMA TrueStep ==
    ASSUME JournalInv, Grows(registries, referenda, registries', referenda'),
           NEW s \in Manifests, TrueOf(s, registries', referenda'), manifest' = s,
           NEW n \in Scripts, ReliesOn(n, s), run' = n
    PROVE  JournalInv'
BY DEF JournalInv, Grows

(* The script leaves the manifest as it is and goes on, or stops.           *)
LEMMA SameManifest ==
    ASSUME JournalInv, Grows(registries, referenda, registries', referenda'), UNCHANGED manifest,
           NEW n \in Scripts, ReliesOn(n, manifest), run' = n
    PROVE  JournalInv'
<1>1. TrueOf(manifest, registries', referenda')
  BY StillTrue DEF JournalInv
<1>2. manifest' \in Manifests /\ manifest' = manifest
  BY DEF JournalInv
<1>. QED
  BY <1>1, <1>2 DEF JournalInv, Grows

LEMMA ScriptStops ==
    ASSUME JournalInv, Grows(registries, referenda, registries', referenda'), UNCHANGED manifest, run' = Idle
    PROVE  JournalInv'
BY IdleRelies, SameManifest

(* The manifest is saved after a transaction, or the run dies.              *)
LEMMA SaveStep ==
    ASSUME JournalInv, Grows(registries, referenda, registries', referenda'),
           NEW s \in Manifests, TrueOf(s, registries', referenda'),
           NEW n \in Scripts, ReliesOn(n, s), Saved(s, n)
    PROVE  JournalInv'
<1>1. CASE manifest' = s /\ run' = n
  BY <1>1, TrueStep
<1>2. CASE UNCHANGED manifest /\ run' = Idle
  BY <1>2, ScriptStops
<1>. QED
  BY <1>1, <1>2 DEF Saved, Goes, Dies, Stops

(* The world, or the schedule, moves; the script does not.                  *)
LEMMA WorldStep ==
    ASSUME JournalInv, Grows(registries, referenda, registries', referenda'), UNCHANGED <<manifest, run>>
    PROVE  JournalInv'
<1>1. run \in Scripts /\ ReliesOn(run, manifest)
  BY DEF JournalInv
<1>. QED
  BY <1>1, SameManifest

LEMMA NothingMoves ==
    ASSUME JournalInv, UNCHANGED <<registries, referenda>>
    PROVE  Grows(registries, referenda, registries', referenda')
BY NothingGrows DEF JournalInv

(* The contracts the manifest names are on the chain.                       *)
LEMMA Named ==
    ASSUME JournalInv
    PROVE  /\ manifest.registry # 0 => /\ manifest.registry \in 1..Len(registries)
                                       /\ registry \in RegistryRecords
           /\ manifest.referendum # 0 => /\ manifest.referendum \in 1..Len(referenda)
                                         /\ referendum \in ReferendumRecords
                                         /\ manifest.registry # 0
<1>1. manifest.registry \in Nat /\ manifest.referendum \in Nat
  BY DEF JournalInv, Manifests
<1>. QED
  BY <1>1 DEF JournalInv, TrueOf, registry, referendum

(* What the calls of the contracts change.                                  *)
LEMMA AttestGrows ==
    ASSUME JournalInv, manifest.registry # 0, NEW root \in Nat, Attested(root), UNCHANGED referenda
    PROVE  /\ Grows(registries, referenda, registries', referenda')
           /\ registries'[manifest.registry].attested = registry.attested \cup {root}
<1>. DEFINE new == [registry EXCEPT !.attested = @ \cup {root}]
<1>1. new \in RegistryRecords /\ registry.attested \subseteq new.attested /\ new.attested = registry.attested \cup {root}
  BY Named DEF RegistryRecords
<1>2. registries' = [registries EXCEPT ![manifest.registry] = new]
  BY DEF Attested, registry
<1>. HIDE DEF new
<1>3. manifest.registry \in 1..Len(registries) /\ registries \in Seq(RegistryRecords) /\ referenda \in Seq(ReferendumRecords)
  BY Named DEF JournalInv
<1>4. Grows(registries, referenda, registries', referenda)
  BY <1>1, <1>2, <1>3, RegistryGrows DEF registry
<1>. QED
  BY <1>1, <1>2, <1>3, <1>4

LEMMA AcceptGrows ==
    ASSUME JournalInv, manifest.referendum # 0, NEW root \in Nat, Accepts(manifest.referendum, root), UNCHANGED registries
    PROVE  /\ Grows(registries, referenda, registries', referenda')
           /\ referenda'[manifest.referendum].accepted = referendum.accepted \cup {root}
<1>. DEFINE new == [referendum EXCEPT !.accepted = @ \cup {root}]
<1>1. /\ new \in ReferendumRecords /\ new.registry = referendum.registry /\ new.initial = referendum.initial
      /\ new.votes = referendum.votes /\ new.accepted = referendum.accepted \cup {root}
  BY Named DEF ReferendumRecords
<1>2. referenda' = [referenda EXCEPT ![manifest.referendum] = new]
  BY DEF Accepts, referendum
<1>. HIDE DEF new
<1>3. manifest.referendum \in 1..Len(referenda) /\ registries \in Seq(RegistryRecords) /\ referenda \in Seq(ReferendumRecords)
  BY Named DEF JournalInv
<1>4. Grows(registries, referenda, registries, referenda')
  BY <1>1, <1>2, <1>3, ReferendumGrows DEF referendum
<1>. QED
  BY <1>1, <1>2, <1>3, <1>4

LEMMA CastGrows ==
    ASSUME JournalInv, manifest.referendum # 0, NEW voter \in {"fixture", "other"}, Casts(voter), UNCHANGED registries
    PROVE  /\ Grows(registries, referenda, registries', referenda')
           /\ voter \in referenda'[manifest.referendum].votes
<1>. DEFINE new == [referendum EXCEPT !.votes = @ \cup {voter}]
<1>1. /\ new \in ReferendumRecords /\ new.registry = referendum.registry /\ new.initial = referendum.initial
      /\ new.votes = referendum.votes \cup {voter} /\ new.accepted = referendum.accepted
  BY Named DEF ReferendumRecords
<1>2. referenda' = [referenda EXCEPT ![manifest.referendum] = new]
  BY DEF Casts, referendum
<1>. HIDE DEF new
<1>3. manifest.referendum \in 1..Len(referenda) /\ registries \in Seq(RegistryRecords) /\ referenda \in Seq(ReferendumRecords)
  BY Named DEF JournalInv
<1>4. Grows(registries, referenda, registries, referenda')
  BY <1>1, <1>2, <1>3, ReferendumGrows DEF referendum
<1>. QED
  BY <1>1, <1>2, <1>3, <1>4

LEMMA JournalInit == OInit => JournalInv
<1>. SUFFICES ASSUME OInit PROVE JournalInv
  OBVIOUS
<1>1. NoManifest \in Manifests
  BY DEF NoManifest, Manifests
<1>2. TrueOf(NoManifest, << >>, << >>)
  BY DEF TrueOf, NoManifest, Milestones
<1>3. << >> \in Seq(RegistryRecords) /\ << >> \in Seq(ReferendumRecords)
  OBVIOUS
<1>. QED
  BY <1>1, <1>2, <1>3, IdleRelies DEF OInit, JournalInv

LEMMA BeginKeeps == ASSUME JournalInv, NEW p \in {"prepare", "complete"}, Begin(p) PROVE JournalInv'
<1>. DEFINE s == [manifest EXCEPT !.exists = TRUE]
            n == [Idle EXCEPT !.stage = "registry", !.upTo = p]
<1>1. /\ s \in Manifests /\ TrueOf(s, registries, referenda)
  BY DEF JournalInv, Manifests, TrueOf
<1>2. n \in Scripts /\ n.stage = "registry"
  BY DEF Scripts, Idle, Stages
<1>3. manifest' = s /\ run' = n /\ UNCHANGED <<registries, referenda>>
  BY DEF Begin, chain
<1>. HIDE DEF s, n
<1>4. ReliesOn(n, s)
  BY <1>2 DEF ReliesOn
<1>. QED
  BY <1>1, <1>2, <1>3, <1>4, NothingMoves, TrueStep

LEMMA DeployRegistryKeeps == ASSUME JournalInv, DeployRegistry PROVE JournalInv'
<1>1. /\ manifest \in Manifests /\ run \in Scripts /\ TrueOf(manifest, registries, referenda)
      /\ registries \in Seq(RegistryRecords) /\ referenda \in Seq(ReferendumRecords) /\ UNCHANGED referenda
      /\ "registry.deploy" \in Milestones /\ "issue" \in Stages
  BY DEF JournalInv, DeployRegistry, Milestones, Stages
<1>2. ASSUME manifest.registry # 0, UNCHANGED registries, Goes(At("issue")),
             manifest' = recordStep(manifest, "registry.deploy", "reconciled")
      PROVE  JournalInv'
  <2>1. Grows(registries, referenda, registries', referenda')
    BY <1>1, <1>2, NothingMoves
  <2>. DEFINE s == recordStep(manifest, "registry.deploy", "reconciled")
  <2>2. s \in Manifests /\ TrueOf(s, registries, referenda) /\ s.registry = manifest.registry
    BY <1>1, StepRecorded, RecordedIsTrue
  <2>3. manifest' = s /\ run' = At("issue") /\ At("issue") \in Scripts /\ At("issue").stage = "issue"
    BY <1>1, <1>2, AtStage DEF Goes
  <2>. HIDE DEF s
  <2>4. ReliesOn(At("issue"), s)
    BY <1>2, <2>2, <2>3 DEF ReliesOn
  <2>. QED
    BY <1>1, <1>2, <2>1, <2>2, <2>3, <2>4, TrueStep
<1>. DEFINE new == [leaves |-> 0, fixture |-> FALSE, attested |-> {}]
            addressed == [manifest EXCEPT !.registry = Len(registries')]
            s == recordStep(addressed, "registry.deploy", "receipt")
<1>3. ASSUME manifest.registry = 0, registries' = Append(registries, new),
             Saved(s, At("issue")) \/ (manifest' = addressed /\ Dies)
      PROVE  JournalInv'
  <2>1. new \in RegistryRecords /\ new.attested = {}
    BY DEF RegistryRecords
  <2>2. /\ Grows(registries, referenda, registries', referenda')
        /\ Len(registries') = Len(registries) + 1
    BY <1>1, <1>3, <2>1, RegistryAppears
  <2>3. Len(registries) \in Nat
    BY <1>1
  <2>4. /\ addressed \in Manifests /\ addressed.registry = Len(registries') /\ addressed.registry # 0
        /\ addressed.attests = manifest.attests /\ addressed.referendum = manifest.referendum
        /\ addressed.publishes = manifest.publishes /\ addressed.accepted = manifest.accepted
        /\ addressed.initial = manifest.initial /\ addressed.steps = manifest.steps
    BY <1>1, <2>2, <2>3 DEF Manifests
  <2>. HIDE DEF addressed
  <2>5. manifest.attests = {} /\ manifest.referendum = 0
    BY <1>1, <1>3 DEF TrueOf
  <2>6. TrueOf(addressed, registries', referenda')
    BY <1>1, <2>2, <2>3, <2>4, <2>5 DEF TrueOf
  <2>7. s \in Manifests /\ TrueOf(s, registries', referenda') /\ s.registry = addressed.registry
    BY <1>1, <2>4, <2>6, StepRecorded, RecordedIsTrue
  <2>. HIDE DEF s
  <2>8. At("issue") \in Scripts /\ ReliesOn(At("issue"), s)
    BY <1>1, <2>4, <2>7, AtStage DEF ReliesOn
  <2>9. CASE Saved(s, At("issue"))
    BY <2>2, <2>7, <2>8, <2>9, SaveStep
  <2>10. CASE manifest' = addressed /\ Dies
    BY <2>2, <2>4, <2>6, <2>10, IdleRelies, TrueStep DEF Dies, Stops
  <2>. QED
    BY <1>3, <2>9, <2>10
<1>. QED
  BY <1>2, <1>3 DEF DeployRegistry

LEMMA IssueKeeps == ASSUME JournalInv, Issue PROVE JournalInv'
<1>1. /\ manifest \in Manifests /\ run \in Scripts /\ TrueOf(manifest, registries, referenda)
      /\ registries \in Seq(RegistryRecords) /\ referenda \in Seq(ReferendumRecords) /\ UNCHANGED referenda
      /\ "registry.issue" \in Milestones /\ "attest" \in Stages
  BY DEF JournalInv, Issue, Milestones, Stages
<1>2. run.stage = "issue" /\ manifest.registry # 0
  BY DEF JournalInv, ReliesOn, Issue
<1>3. registry \in RegistryRecords /\ manifest.registry \in 1..Len(registries)
  BY <1>2, Named
<1>4. ASSUME NEW path \in Nat
      PROVE  [At("attest") EXCEPT !.path = path] \in Scripts /\ [At("attest") EXCEPT !.path = path].stage = "attest"
  BY <1>1, AtStage DEF Scripts
<1>5. ASSUME NEW status \in {"reconciled", "receipt"}
      PROVE  /\ recordStep(manifest, "registry.issue", status) \in Manifests
             /\ TrueOf(recordStep(manifest, "registry.issue", status), registries, referenda)
             /\ recordStep(manifest, "registry.issue", status).registry # 0
  BY <1>1, <1>2, StepRecorded, RecordedIsTrue
<1>6. ASSUME NEW s, s.registry # 0, NEW n, n.stage = "attest" PROVE ReliesOn(n, s)
  BY <1>6 DEF ReliesOn
<1>7. ASSUME UNCHANGED registries, manifest' = recordStep(manifest, "registry.issue", "reconciled"),
             Goes([At("attest") EXCEPT !.path = registry.leaves])
      PROVE  JournalInv'
  <2>. DEFINE n == [At("attest") EXCEPT !.path = registry.leaves]
              s == recordStep(manifest, "registry.issue", "reconciled")
  <2>1. registry.leaves \in Nat
    BY <1>3 DEF RegistryRecords
  <2>2. n \in Scripts /\ n.stage = "attest" /\ run' = n
    BY <1>4, <1>7, <2>1 DEF Goes
  <2>3. s \in Manifests /\ TrueOf(s, registries, referenda) /\ s.registry # 0 /\ manifest' = s
    BY <1>5, <1>7
  <2>. HIDE DEF n, s
  <2>4. ReliesOn(n, s)
    BY <1>6, <2>2, <2>3
  <2>. QED
    BY <1>1, <1>7, <2>2, <2>3, <2>4, NothingMoves, TrueStep
<1>8. ASSUME registries' = [registries EXCEPT ![manifest.registry].leaves = @ + 1, ![manifest.registry].fixture = TRUE],
             Saved(recordStep(manifest, "registry.issue", "receipt"), [At("attest") EXCEPT !.path = registry.leaves + 1])
      PROVE  JournalInv'
  <2>. DEFINE n == [At("attest") EXCEPT !.path = registry.leaves + 1]
              s == recordStep(manifest, "registry.issue", "receipt")
              more == [registry EXCEPT !.leaves = @ + 1]
              new == [more EXCEPT !.fixture = TRUE]
  <2>1. registry.leaves + 1 \in Nat
    BY <1>3 DEF RegistryRecords
  <2>2. more \in RegistryRecords /\ more.attested = registry.attested
    BY <1>3 DEF RegistryRecords
  <2>3. registries' = [registries EXCEPT ![manifest.registry] = new]
    <3>1. registries' = [[registries EXCEPT ![manifest.registry].leaves = @ + 1] EXCEPT ![manifest.registry].fixture = TRUE]
      BY <1>8
    <3>2. [registries EXCEPT ![manifest.registry].leaves = @ + 1] = [registries EXCEPT ![manifest.registry] = more]
      BY DEF registry
    <3>. HIDE DEF more
    <3>. QED
      BY <1>1, <1>3, <3>1, <3>2
  <2>. HIDE DEF more
  <2>3a. new \in RegistryRecords /\ registry.attested \subseteq new.attested
    BY <2>2 DEF RegistryRecords
  <2>. HIDE DEF new
  <2>4. Grows(registries, referenda, registries', referenda')
    BY <1>1, <1>3, <2>3a, <2>3, RegistryGrows DEF registry
  <2>5. n \in Scripts /\ n.stage = "attest"
    BY <1>4, <2>1
  <2>6. s \in Manifests /\ TrueOf(s, registries, referenda) /\ s.registry # 0
    BY <1>5
  <2>7. Saved(s, n)
    BY <1>8
  <2>. HIDE DEF n, s
  <2>8. ReliesOn(n, s)
    BY <1>6, <2>5, <2>6
  <2>9. TrueOf(s, registries', referenda')
    BY <1>1, <2>4, <2>6, StillTrue
  <2>. QED
    BY <2>4, <2>5, <2>6, <2>7, <2>8, <2>9, SaveStep
<1>. QED
  BY <1>7, <1>8 DEF Issue

LEMMA AttestInitialKeeps == ASSUME JournalInv, AttestInitial PROVE JournalInv'
<1>1. /\ manifest \in Manifests /\ run \in Scripts /\ TrueOf(manifest, registries, referenda)
      /\ UNCHANGED referenda /\ "referendum" \in Stages /\ run.path \in Nat
  BY DEF JournalInv, AttestInitial, Stages, Scripts
<1>2. run.stage = "attest" /\ manifest.registry # 0
  BY DEF JournalInv, ReliesOn, AttestInitial
<1>3. At("referendum") \in Scripts /\ At("referendum").stage = "referendum"
  BY <1>1, AtStage
<1>. DEFINE attested == [manifest EXCEPT !.attests = @ \cup {run.path}]
            pinned == [attested EXCEPT !.initial = run.path, !.accepted = {run.path}]
<1>4. /\ attested \in Manifests /\ attested.registry = manifest.registry /\ attested.referendum = manifest.referendum
      /\ attested.attests = manifest.attests \cup {run.path} /\ attested.publishes = manifest.publishes
      /\ attested.accepted = manifest.accepted /\ attested.initial = manifest.initial /\ attested.steps = manifest.steps
  BY <1>1 DEF Manifests
<1>5. /\ pinned \in Manifests /\ pinned.registry = manifest.registry /\ pinned.referendum = manifest.referendum
      /\ pinned.attests = manifest.attests \cup {run.path} /\ pinned.publishes = manifest.publishes
      /\ pinned.accepted = {run.path} /\ pinned.initial = run.path /\ pinned.steps = manifest.steps
  <2>. HIDE DEF attested
  <2>. QED
    BY <1>1, <1>4 DEF Manifests
<1>. HIDE DEF attested, pinned
<1>6. ReliesOn(At("referendum"), pinned)
  BY <1>2, <1>3, <1>5 DEF ReliesOn
<1>7. ASSUME manifest.referendum # 0, Goes(At("referendum")), UNCHANGED <<registries, manifest>> PROVE JournalInv'
  <2>1. ReliesOn(At("referendum"), manifest)
    BY <1>2, <1>3, <1>7 DEF ReliesOn
  <2>. QED
    BY <1>1, <1>3, <1>7, <2>1, NothingMoves, SameManifest DEF Goes
<1>8. ASSUME manifest.referendum = 0, run.path \in manifest.attests, manifest' = pinned,
             Goes(At("referendum")), UNCHANGED registries
      PROVE  JournalInv'
  <2>1. TrueOf(pinned, registries, referenda)
    BY <1>1, <1>2, <1>5, <1>8 DEF TrueOf
  <2>. QED
    BY <1>1, <1>3, <1>5, <1>6, <1>8, <2>1, NothingMoves, TrueStep DEF Goes
<1>9. ASSUME manifest.referendum = 0, Attested(run.path), Saved(pinned, At("referendum")) \/ (manifest' = attested /\ Dies)
      PROVE  JournalInv'
  <2>1. /\ Grows(registries, referenda, registries', referenda')
        /\ registries'[manifest.registry].attested = registry.attested \cup {run.path}
    BY <1>1, <1>2, <1>9, AttestGrows
  <2>2. TrueOf(manifest, registries', referenda') /\ manifest.attests \subseteq registry.attested
    BY <1>1, <1>2, <2>1, StillTrue DEF JournalInv, TrueOf, registry
  <2>3. TrueOf(pinned, registries', referenda')
    BY <1>2, <1>5, <1>9, <2>1, <2>2 DEF TrueOf
  <2>4. TrueOf(attested, registries', referenda')
    BY <1>2, <1>4, <1>9, <2>1, <2>2 DEF TrueOf
  <2>5. CASE Saved(pinned, At("referendum"))
    BY <1>3, <1>5, <1>6, <2>1, <2>3, <2>5, SaveStep
  <2>6. CASE manifest' = attested /\ Dies
    BY <1>4, <2>1, <2>4, <2>6, IdleRelies, TrueStep DEF Dies, Stops
  <2>. QED
    BY <1>9, <2>5, <2>6
<1>10. ASSUME Rejected, UNCHANGED registries PROVE JournalInv'
  BY <1>1, <1>10, NothingMoves, ScriptStops DEF Rejected, Stops
<1>. QED
  BY <1>7, <1>8, <1>9, <1>10 DEF AttestInitial, attested, pinned

LEMMA DeployReferendumKeeps == ASSUME JournalInv, DeployReferendum PROVE JournalInv'
<1>1. /\ manifest \in Manifests /\ run \in Scripts /\ TrueOf(manifest, registries, referenda)
      /\ registries \in Seq(RegistryRecords) /\ referenda \in Seq(ReferendumRecords) /\ UNCHANGED registries
      /\ "referendum.deploy" \in Milestones /\ "admit" \in Stages
  BY DEF JournalInv, DeployReferendum, Milestones, Stages
<1>2. run.stage = "referendum" /\ manifest.registry # 0
  BY DEF JournalInv, ReliesOn, DeployReferendum
<1>3. At("admit") \in Scripts /\ At("admit").stage = "admit"
  BY <1>1, AtStage
<1>4. ASSUME NEW s, s.registry # 0, s.referendum # 0 PROVE ReliesOn(At("admit"), s)
  BY <1>3, <1>4 DEF ReliesOn
<1>5. ASSUME manifest.referendum # 0, manifest' = recordStep(manifest, "referendum.deploy", "reconciled"),
             Goes(At("admit")), UNCHANGED referenda
      PROVE  JournalInv'
  <2>. DEFINE s == recordStep(manifest, "referendum.deploy", "reconciled")
  <2>1. s \in Manifests /\ TrueOf(s, registries, referenda) /\ s.registry # 0 /\ s.referendum # 0 /\ manifest' = s
    BY <1>1, <1>2, <1>5, StepRecorded, RecordedIsTrue
  <2>. HIDE DEF s
  <2>2. ReliesOn(At("admit"), s)
    BY <1>4, <2>1
  <2>. QED
    BY <1>1, <1>3, <1>5, <2>1, <2>2, NothingMoves, TrueStep DEF Goes
<1>. DEFINE new == [registry |-> manifest.registry, initial |-> manifest.initial, accepted |-> {manifest.initial},
                    phase |-> "COMMIT", votes |-> {}, revealed |-> FALSE]
            addressed == [manifest EXCEPT !.referendum = Len(referenda')]
            s == recordStep(addressed, "referendum.deploy", "receipt")
<1>6. ASSUME manifest.referendum = 0, referenda' = Append(referenda, new),
             Saved(s, At("admit")) \/ (manifest' = addressed /\ Dies)
      PROVE  JournalInv'
  <2>1. /\ new \in ReferendumRecords /\ new.registry = manifest.registry /\ new.initial = manifest.initial
        /\ new.accepted = {manifest.initial}
    BY <1>1 DEF ReferendumRecords, Manifests
  <2>. HIDE DEF new
  <2>2. /\ Grows(registries, referenda, registries', referenda')
        /\ Len(referenda') = Len(referenda) + 1 /\ referenda'[Len(referenda')] = new
    BY <1>1, <1>6, <2>1, ReferendumAppears
  <2>3. Len(referenda) \in Nat /\ Len(referenda') \in Nat /\ Len(referenda') # 0
    <3>1. Len(referenda) \in Nat
      BY <1>1
    <3>. QED
      BY <2>2, <3>1
  <2>4. /\ addressed \in Manifests /\ addressed.referendum = Len(referenda') /\ addressed.referendum # 0
        /\ addressed.attests = manifest.attests /\ addressed.registry = manifest.registry
        /\ addressed.publishes = manifest.publishes /\ addressed.accepted = manifest.accepted
        /\ addressed.initial = manifest.initial /\ addressed.steps = manifest.steps
    BY <1>1, <2>3 DEF Manifests
  <2>. HIDE DEF addressed
  <2>5. /\ manifest.publishes = {} /\ manifest.accepted = {manifest.initial} /\ manifest.initial \in manifest.attests
        /\ manifest.steps["lifecycle.cast"] # "receipt"
    BY <1>1, <1>2, <1>6 DEF TrueOf, JournalInv, ReliesOn
  <2>6. manifest.attests \subseteq registries'[manifest.registry].attested /\ manifest.registry \in 0..Len(registries')
    BY <1>1, <1>2 DEF TrueOf
  <2>7. TrueOf(addressed, registries', referenda')
    BY <1>2, <2>1, <2>2, <2>3, <2>4, <2>5, <2>6 DEF TrueOf
  <2>8. /\ s \in Manifests /\ TrueOf(s, registries', referenda')
        /\ s.registry = addressed.registry /\ s.referendum = addressed.referendum
    BY <1>1, <2>4, <2>7, StepRecorded, RecordedIsTrue
  <2>. HIDE DEF s
  <2>9. ReliesOn(At("admit"), s)
    BY <1>2, <1>4, <2>4, <2>8
  <2>10. CASE Saved(s, At("admit"))
    BY <1>3, <2>2, <2>8, <2>9, <2>10, SaveStep
  <2>11. CASE manifest' = addressed /\ Dies
    BY <2>2, <2>4, <2>7, <2>11, IdleRelies, TrueStep DEF Dies, Stops
  <2>. QED
    BY <1>6, <2>10, <2>11
<1>. QED
  BY <1>5, <1>6 DEF DeployReferendum

(* The stages after the referendum is there rely on no more than the        *)
(* addresses, but for that of the publication.                              *)
LEMMA LaterStage ==
    ASSUME NEW n, NEW m, m.registry # 0, m.referendum # 0, n.stage \in Stages \ {"publish"} PROVE ReliesOn(n, m)
BY DEF ReliesOn

LEMMA AdmittedKeeps ==
    ASSUME JournalInv, Grows(registries, referenda, registries', referenda'), Admitted,
           NEW s \in Manifests, TrueOf(s, registries', referenda'), manifest' = s,
           s.registry # 0, s.referendum # 0
    PROVE  JournalInv'
<1>1. run \in Scripts /\ "cast" \in Stages \ {"publish"}
  BY DEF JournalInv, Stages
<1>2. /\ At("cast") \in Scripts /\ At("cast").stage = "cast"
  BY <1>1, AtStage
<1>3. ReliesOn(At("cast"), s)
  BY <1>1, <1>2, LaterStage
<1>4. CASE run' = At("cast")
  BY <1>2, <1>3, <1>4, TrueStep
<1>5. CASE run' = Idle
  BY <1>5, IdleRelies, TrueStep
<1>. QED
  BY <1>4, <1>5 DEF Admitted, Goes

LEMMA AdmitKeeps == ASSUME JournalInv, Admit PROVE JournalInv'
<1>1. /\ manifest \in Manifests /\ run \in Scripts /\ TrueOf(manifest, registries, referenda)
      /\ UNCHANGED referenda /\ "publish" \in Stages
  BY DEF JournalInv, Admit, Stages
<1>2. manifest.registry # 0 /\ manifest.referendum # 0
  BY DEF JournalInv, ReliesOn, Admit
<1>3. registry.leaves \in Nat
  BY <1>2, Named DEF RegistryRecords
<1>. DEFINE n == [At("publish") EXCEPT !.root = registry.leaves]
            s == [manifest EXCEPT !.attests = @ \cup {registry.leaves}]
<1>4. n \in Scripts /\ n.stage = "publish" /\ n.root = registry.leaves
  BY <1>1, <1>3, AtStage DEF Scripts
<1>5. /\ s \in Manifests /\ s.registry = manifest.registry /\ s.referendum = manifest.referendum
      /\ s.attests = manifest.attests \cup {registry.leaves} /\ s.publishes = manifest.publishes
      /\ s.accepted = manifest.accepted /\ s.initial = manifest.initial /\ s.steps = manifest.steps
  BY <1>1, <1>3 DEF Manifests
<1>. HIDE DEF n, s
<1>6. ASSUME Admitted, UNCHANGED <<registries, manifest>> PROVE JournalInv'
  <2>1. Grows(registries, referenda, registries', referenda') /\ TrueOf(manifest, registries', referenda')
    BY <1>1, <1>6, NothingMoves
  <2>. QED
    BY <1>1, <1>2, <1>6, <2>1, AdmittedKeeps
<1>7. ASSUME registry.leaves \in manifest.attests, Goes(n), UNCHANGED <<registries, manifest>> PROVE JournalInv'
  <2>1. ReliesOn(n, manifest)
    BY <1>2, <1>4, <1>7 DEF ReliesOn
  <2>. QED
    BY <1>1, <1>4, <1>7, <2>1, NothingMoves, SameManifest DEF Goes
<1>8. ASSUME Attested(registry.leaves), Saved(s, n) PROVE JournalInv'
  <2>1. /\ Grows(registries, referenda, registries', referenda')
        /\ registries'[manifest.registry].attested = registry.attested \cup {registry.leaves}
    BY <1>1, <1>2, <1>3, <1>8, AttestGrows
  <2>2. TrueOf(manifest, registries', referenda') /\ manifest.attests \subseteq registry.attested
    BY <1>1, <1>2, <2>1, StillTrue DEF JournalInv, TrueOf, registry
  <2>3. TrueOf(s, registries', referenda')
    BY <1>2, <1>5, <2>1, <2>2 DEF TrueOf
  <2>4. ReliesOn(n, s)
    BY <1>2, <1>4, <1>5 DEF ReliesOn
  <2>. QED
    BY <1>4, <1>5, <1>8, <2>1, <2>3, <2>4, SaveStep
<1>. QED
  BY <1>6, <1>7, <1>8 DEF Admit, n, s

LEMMA PublishKeeps == ASSUME JournalInv, Publish PROVE JournalInv'
<1>1. /\ manifest \in Manifests /\ run \in Scripts /\ TrueOf(manifest, registries, referenda)
      /\ UNCHANGED registries /\ run.root \in Nat
  BY DEF JournalInv, Publish, Scripts
<1>2. manifest.registry # 0 /\ manifest.referendum # 0 /\ run.root \in manifest.attests
  BY DEF JournalInv, ReliesOn, Publish
<1>. DEFINE published == [manifest EXCEPT !.publishes = @ \cup {run.root}]
            accepted == [published EXCEPT !.accepted = @ \cup {run.root}]
<1>3. /\ published \in Manifests /\ published.registry = manifest.registry
      /\ published.referendum = manifest.referendum /\ published.initial = manifest.initial
      /\ published.publishes = manifest.publishes \cup {run.root} /\ published.attests = manifest.attests
      /\ published.accepted = manifest.accepted /\ published.steps = manifest.steps
  BY <1>1 DEF Manifests
<1>4. /\ accepted \in Manifests /\ accepted.registry = manifest.registry
      /\ accepted.referendum = manifest.referendum /\ accepted.initial = manifest.initial
      /\ accepted.publishes = manifest.publishes \cup {run.root} /\ accepted.attests = manifest.attests
      /\ accepted.accepted = manifest.accepted \cup {run.root} /\ accepted.steps = manifest.steps
  <2>. HIDE DEF published
  <2>. QED
    BY <1>1, <1>3 DEF Manifests
<1>. HIDE DEF published, accepted
<1>5. /\ manifest.attests \subseteq registry.attested /\ manifest.publishes \subseteq referendum.accepted
      /\ registry.attested = registries'[manifest.registry].attested
  BY <1>1, <1>2 DEF TrueOf, registry, referendum
<1>6. ASSUME run.root \in manifest.publishes, manifest' = accepted, Admitted, UNCHANGED referenda PROVE JournalInv'
  <2>1. Grows(registries, referenda, registries', referenda')
    BY <1>1, <1>6, NothingMoves
  <2>2. TrueOf(accepted, registries', referenda')
    BY <1>1, <1>2, <1>4, <1>5, <1>6 DEF TrueOf, referendum
  <2>. QED
    BY <1>2, <1>4, <1>6, <2>1, <2>2, AdmittedKeeps
<1>7. ASSUME Accepts(manifest.referendum, run.root),
             (manifest' = accepted /\ Admitted) \/ (Dies /\ manifest' \in {manifest, published})
      PROVE  JournalInv'
  <2>1. /\ Grows(registries, referenda, registries', referenda')
        /\ referenda'[manifest.referendum].accepted = referendum.accepted \cup {run.root}
    BY <1>1, <1>2, <1>7, AcceptGrows
  <2>2. TrueOf(manifest, registries', referenda')
    BY <1>1, <2>1, StillTrue DEF JournalInv
  <2>3. TrueOf(published, registries', referenda')
    BY <1>2, <1>3, <1>5, <2>1, <2>2 DEF TrueOf
  <2>4. TrueOf(accepted, registries', referenda')
    BY <1>2, <1>4, <1>5, <2>1, <2>2 DEF TrueOf
  <2>5. CASE manifest' = accepted /\ Admitted
    BY <1>2, <1>4, <2>1, <2>4, <2>5, AdmittedKeeps
  <2>6. CASE Dies /\ manifest' \in {manifest, published}
    <3>1. run' = Idle
      BY <2>6 DEF Dies, Stops
    <3>. QED
      BY <1>1, <1>3, <2>1, <2>2, <2>3, <2>6, <3>1, IdleRelies, TrueStep
  <2>. QED
    BY <1>7, <2>5, <2>6
<1>8. ASSUME Rejected, UNCHANGED referenda PROVE JournalInv'
  BY <1>1, <1>8, NothingMoves, ScriptStops DEF Rejected, Stops
<1>. QED
  BY <1>6, <1>7, <1>8 DEF Publish, published, accepted

LEMMA CastKeeps == ASSUME JournalInv, Cast PROVE JournalInv'
<1>1. /\ manifest \in Manifests /\ run \in Scripts /\ TrueOf(manifest, registries, referenda)
      /\ registries \in Seq(RegistryRecords) /\ referenda \in Seq(ReferendumRecords)
      /\ UNCHANGED registries /\ "lifecycle.cast" \in Milestones /\ "replay" \in Stages \ {"publish"}
  BY DEF JournalInv, Cast, Milestones, Stages
<1>2. manifest.registry # 0 /\ manifest.referendum # 0
  BY DEF JournalInv, ReliesOn, Cast
<1>3. At("replay") \in Scripts /\ At("replay").stage = "replay"
  BY <1>1, AtStage
<1>4. ASSUME NEW status \in {"reconciled", "receipt"}
      PROVE  /\ recordStep(manifest, "lifecycle.cast", status) \in Manifests
             /\ recordStep(manifest, "lifecycle.cast", status).registry # 0
             /\ recordStep(manifest, "lifecycle.cast", status).referendum # 0
  BY <1>1, <1>2, StepRecorded
<1>5. ASSUME manifest' = recordStep(manifest, "lifecycle.cast", "reconciled"), Goes(At("replay")), UNCHANGED referenda
      PROVE  JournalInv'
  <2>. DEFINE s == recordStep(manifest, "lifecycle.cast", "reconciled")
  <2>1. s \in Manifests /\ s.registry # 0 /\ s.referendum # 0 /\ manifest' = s
    BY <1>4, <1>5
  <2>2. TrueOf(s, registries, referenda)
    BY <1>1, RecordedIsTrue
  <2>. HIDE DEF s
  <2>3. ReliesOn(At("replay"), s)
    BY <1>1, <1>3, <2>1, LaterStage
  <2>. QED
    BY <1>1, <1>3, <1>5, <2>1, <2>2, <2>3, NothingMoves, TrueStep DEF Goes
<1>6. ASSUME Casts("fixture"), Saved(recordStep(manifest, "lifecycle.cast", "receipt"), At("replay")) PROVE JournalInv'
  <2>. DEFINE s == recordStep(manifest, "lifecycle.cast", "receipt")
  <2>1. /\ Grows(registries, referenda, registries', referenda')
        /\ "fixture" \in referenda'[manifest.referendum].votes
    BY <1>1, <1>2, <1>6, CastGrows
  <2>2. TrueOf(manifest, registries', referenda')
    BY <1>1, <2>1, StillTrue
  <2>3. TrueOf(s, registries', referenda')
    BY <1>1, <1>2, <2>1, <2>2, RecordedIsTrue
  <2>4. s \in Manifests /\ s.registry # 0 /\ s.referendum # 0 /\ Saved(s, At("replay"))
    BY <1>4, <1>6
  <2>. HIDE DEF s
  <2>5. ReliesOn(At("replay"), s)
    BY <1>1, <1>3, <2>4, LaterStage
  <2>. QED
    BY <1>3, <2>1, <2>3, <2>4, <2>5, SaveStep
<1>7. ASSUME Rejected, UNCHANGED referenda PROVE JournalInv'
  BY <1>1, <1>7, NothingMoves, ScriptStops DEF Rejected, Stops
<1>. QED
  BY <1>5, <1>6, <1>7 DEF Cast

LEMMA ReplayKeeps == ASSUME JournalInv, Replay PROVE JournalInv'
<1>1. /\ manifest \in Manifests /\ run \in Scripts /\ TrueOf(manifest, registries, referenda)
      /\ UNCHANGED registries /\ "close" \in Stages \ {"publish"}
  BY DEF JournalInv, Replay, Stages
<1>2. manifest.registry # 0 /\ manifest.referendum # 0
  BY DEF JournalInv, ReliesOn, Replay
<1>3. At("close") \in Scripts /\ At("close").stage = "close"
  BY <1>1, AtStage
<1>4. ASSUME Goes(At("close")), UNCHANGED <<referenda, manifest>> PROVE JournalInv'
  <2>1. ReliesOn(At("close"), manifest)
    BY <1>1, <1>2, <1>3, LaterStage
  <2>. QED
    BY <1>1, <1>3, <1>4, <2>1, NothingMoves, SameManifest DEF Goes
<1>5. ASSUME Casts("fixture"), Rejected PROVE JournalInv'
  <2>1. Grows(registries, referenda, registries', referenda')
    BY <1>1, <1>2, <1>5, CastGrows
  <2>. QED
    BY <1>5, <2>1, ScriptStops DEF Rejected, Stops
<1>6. ASSUME manifest' = [manifest EXCEPT !.replayRejected = TRUE], run' = At("close"), UNCHANGED referenda PROVE JournalInv'
  <2>. DEFINE s == [manifest EXCEPT !.replayRejected = TRUE]
  <2>1. s \in Manifests /\ s.registry = manifest.registry /\ s.referendum = manifest.referendum /\ TrueOf(s, registries, referenda)
    BY <1>1 DEF Manifests, TrueOf
  <2>2. manifest' = s
    BY <1>6
  <2>. HIDE DEF s
  <2>3. ReliesOn(At("close"), s)
    BY <1>1, <1>2, <1>3, <2>1, LaterStage
  <2>. QED
    BY <1>1, <1>3, <1>6, <2>1, <2>2, <2>3, NothingMoves, TrueStep
<1>. QED
  BY <1>4, <1>5, <1>6 DEF Replay

LEMMA MilestoneKeeps ==
    ASSUME JournalInv, NEW at \in {"close", "reveal", "finalize"}, NEW from, NEW ready,
           NEW effect \in ReferendumRecords, NEW id \in Milestones \ {"lifecycle.cast"},
           NEW next \in Stages \ {"publish"},
           effect.registry = referendum.registry, effect.initial = referendum.initial,
           effect.accepted = referendum.accepted, effect.votes = referendum.votes,
           Milestone(at, from, ready, effect, id, next)
    PROVE  JournalInv'
<1>1. /\ manifest \in Manifests /\ run \in Scripts /\ TrueOf(manifest, registries, referenda)
      /\ registries \in Seq(RegistryRecords) /\ referenda \in Seq(ReferendumRecords) /\ UNCHANGED registries
  BY DEF JournalInv, Milestone
<1>2. manifest.registry # 0 /\ manifest.referendum # 0
  BY DEF JournalInv, ReliesOn, Milestone
<1>3. At(next) \in Scripts /\ At(next).stage = next
  BY <1>1, AtStage
<1>4. ASSUME NEW status \in {"reconciled", "receipt"}
      PROVE  /\ recordStep(manifest, id, status) \in Manifests
             /\ recordStep(manifest, id, status).registry # 0
             /\ recordStep(manifest, id, status).referendum # 0
  BY <1>1, <1>2, StepRecorded
<1>5. ASSUME NEW s \in Manifests, s.registry # 0, s.referendum # 0 PROVE ReliesOn(At(next), s)
  BY <1>3, <1>5, LaterStage
<1>6. ASSUME manifest' = recordStep(manifest, id, "reconciled"), Goes(At(next)), UNCHANGED referenda
      PROVE  JournalInv'
  <2>. DEFINE s == recordStep(manifest, id, "reconciled")
  <2>1. s \in Manifests /\ s.registry # 0 /\ s.referendum # 0 /\ manifest' = s
    BY <1>4, <1>6
  <2>2. TrueOf(s, registries, referenda)
    BY <1>1, RecordedIsTrue
  <2>. HIDE DEF s
  <2>3. ReliesOn(At(next), s)
    BY <1>5, <2>1
  <2>. QED
    BY <1>1, <1>3, <1>6, <2>1, <2>2, <2>3, NothingMoves, TrueStep DEF Goes
<1>7. ASSUME referenda' = [referenda EXCEPT ![manifest.referendum] = effect],
             Saved(recordStep(manifest, id, "receipt"), At(next))
      PROVE  JournalInv'
  <2>. DEFINE s == recordStep(manifest, id, "receipt")
  <2>1. Grows(registries, referenda, registries', referenda')
    BY <1>1, <1>2, <1>7, Named, ReferendumGrows DEF referendum
  <2>2. TrueOf(manifest, registries', referenda')
    BY <1>1, <2>1, StillTrue
  <2>3. TrueOf(s, registries', referenda')
    BY <1>1, <2>2, RecordedIsTrue
  <2>4. s \in Manifests /\ s.registry # 0 /\ s.referendum # 0 /\ Saved(s, At(next))
    BY <1>4, <1>7
  <2>. HIDE DEF s
  <2>5. ReliesOn(At(next), s)
    BY <1>5, <2>4
  <2>. QED
    BY <1>3, <2>1, <2>3, <2>4, <2>5, SaveStep
<1>8. ASSUME Rejected, UNCHANGED referenda PROVE JournalInv'
  BY <1>1, <1>8, NothingMoves, ScriptStops DEF Rejected, Stops
<1>. QED
  BY <1>6, <1>7, <1>8 DEF Milestone

(* The milestones of the count change the phase of the referendum, or what  *)
(* is revealed of it, and nothing else.                                     *)
LEMMA PhaseChanges ==
    ASSUME JournalInv, manifest.referendum # 0, NEW p \in {"COMMIT", "REVEAL", "FINALIZED"}
    PROVE  LET closed   == [referendum EXCEPT !.phase = p]
               revealed == [referendum EXCEPT !.revealed = TRUE]
           IN  /\ closed \in ReferendumRecords /\ revealed \in ReferendumRecords
               /\ closed.registry = referendum.registry /\ revealed.registry = referendum.registry
               /\ closed.initial = referendum.initial /\ revealed.initial = referendum.initial
               /\ closed.accepted = referendum.accepted /\ revealed.accepted = referendum.accepted
               /\ closed.votes = referendum.votes /\ revealed.votes = referendum.votes
<1>1. referendum \in ReferendumRecords
  BY Named
<1>. QED
  BY <1>1 DEF ReferendumRecords

LEMMA CountKeeps == ASSUME JournalInv, CloseVote \/ RevealVote \/ FinalizeVote PROVE JournalInv'
<1>1. manifest.referendum # 0
  BY DEF JournalInv, ReliesOn, CloseVote, RevealVote, FinalizeVote, Milestone
<1>2. /\ {"lifecycle.close", "lifecycle.reveal", "lifecycle.finalize"} \subseteq Milestones \ {"lifecycle.cast"}
      /\ {"reveal", "finalize", "seal"} \subseteq Stages \ {"publish"}
  BY DEF Milestones, Stages
<1>3. CASE CloseVote
  <2>. DEFINE effect == [referendum EXCEPT !.phase = "REVEAL"]
              ready == period \in {"count", "over"}
  <2>1. /\ effect \in ReferendumRecords /\ effect.registry = referendum.registry /\ effect.initial = referendum.initial
        /\ effect.accepted = referendum.accepted /\ effect.votes = referendum.votes
    BY <1>1, PhaseChanges
  <2>2. Milestone("close", "COMMIT", ready, effect, "lifecycle.close", "reveal")
    BY <1>3 DEF CloseVote
  <2>. HIDE DEF effect, ready
  <2>. QED
    BY <1>2, <2>1, <2>2, MilestoneKeeps
<1>4. CASE RevealVote
  <2>. DEFINE effect == [referendum EXCEPT !.revealed = TRUE]
              ready == "fixture" \in referendum.votes
  <2>1. /\ effect \in ReferendumRecords /\ effect.registry = referendum.registry /\ effect.initial = referendum.initial
        /\ effect.accepted = referendum.accepted /\ effect.votes = referendum.votes
    BY <1>1, PhaseChanges
  <2>2. Milestone("reveal", "REVEAL", ready, effect, "lifecycle.reveal", "finalize")
    BY <1>4 DEF RevealVote
  <2>. HIDE DEF effect, ready
  <2>. QED
    BY <1>2, <2>1, <2>2, MilestoneKeeps
<1>5. CASE FinalizeVote
  <2>. DEFINE effect == [referendum EXCEPT !.phase = "FINALIZED"]
              ready == period = "over"
  <2>1. /\ effect \in ReferendumRecords /\ effect.registry = referendum.registry /\ effect.initial = referendum.initial
        /\ effect.accepted = referendum.accepted /\ effect.votes = referendum.votes
    BY <1>1, PhaseChanges
  <2>2. Milestone("finalize", "REVEAL", ready, effect, "lifecycle.finalize", "seal")
    BY <1>5 DEF FinalizeVote
  <2>. HIDE DEF effect, ready
  <2>. QED
    BY <1>2, <2>1, <2>2, MilestoneKeeps
<1>. QED
  BY <1>3, <1>4, <1>5

LEMMA AlreadyRevealedKeeps == ASSUME JournalInv, AlreadyRevealed PROVE JournalInv'
<1>. DEFINE s == recordStep(manifest, "lifecycle.reveal", "reconciled")
<1>1. /\ manifest \in Manifests /\ run \in Scripts /\ TrueOf(manifest, registries, referenda)
      /\ UNCHANGED <<registries, referenda>> /\ "lifecycle.reveal" \in Milestones /\ "finalize" \in Stages \ {"publish"}
  BY DEF JournalInv, AlreadyRevealed, chain, Milestones, Stages
<1>2. manifest.registry # 0 /\ manifest.referendum # 0 /\ manifest' = s /\ run' = At("finalize")
  BY DEF JournalInv, ReliesOn, AlreadyRevealed, Goes
<1>3. At("finalize") \in Scripts /\ At("finalize").stage = "finalize"
  BY <1>1, AtStage
<1>4. s \in Manifests /\ s.registry # 0 /\ s.referendum # 0 /\ TrueOf(s, registries, referenda)
  BY <1>1, <1>2, StepRecorded, RecordedIsTrue
<1>. HIDE DEF s
<1>5. ReliesOn(At("finalize"), s)
  BY <1>1, <1>3, <1>4, LaterStage
<1>. QED
  BY <1>1, <1>2, <1>3, <1>4, <1>5, NothingMoves, TrueStep

(* The end of a run and the evidence runner: what is written down is        *)
(* nothing of the contracts, or a new manifest that names none.             *)
LEMMA RunnerKeeps == ASSUME JournalInv, Seal \/ StartEvidence \/ FinalizeEvidence PROVE JournalInv'
<1>1. /\ manifest \in Manifests /\ run \in Scripts /\ TrueOf(manifest, registries, referenda)
      /\ UNCHANGED <<registries, referenda>>
  BY DEF JournalInv, Seal, StartEvidence, FinalizeEvidence, chain
<1>2. CASE Seal
  <2>. DEFINE s == [manifest EXCEPT !.sealed = TRUE]
  <2>1. s \in Manifests /\ TrueOf(s, registries, referenda) /\ manifest' = s /\ run' = Idle
    BY <1>1, <1>2 DEF Manifests, TrueOf, Seal
  <2>. HIDE DEF s
  <2>. QED
    BY <1>1, <2>1, IdleRelies, NothingMoves, TrueStep
<1>3. CASE StartEvidence
  <2>1. NoManifest \in Manifests
    BY DEF NoManifest, Manifests
  <2>2. TrueOf(NoManifest, registries, referenda)
    BY <1>1 DEF TrueOf, NoManifest, Milestones, JournalInv
  <2>3. ReliesOn(run, NoManifest) /\ manifest' = NoManifest /\ run' = run
    BY <1>3 DEF StartEvidence, ReliesOn
  <2>. QED
    BY <1>1, <2>1, <2>2, <2>3, NothingMoves, TrueStep
<1>4. CASE FinalizeEvidence
  <2>. DEFINE s == [manifest EXCEPT !.complete = TRUE]
  <2>1. s \in Manifests /\ TrueOf(s, registries, referenda)
    BY <1>1 DEF Manifests, TrueOf
  <2>2. run' = run /\ (manifest' = s \/ UNCHANGED manifest)
    BY <1>4 DEF FinalizeEvidence
  <2>. HIDE DEF s
  <2>3. ReliesOn(run, s) /\ ReliesOn(run, manifest)
    BY <1>4 DEF FinalizeEvidence, ReliesOn
  <2>. QED
    BY <1>1, <2>1, <2>2, <2>3, NothingMoves, TrueStep, SameManifest
<1>. QED
  BY <1>2, <1>3, <1>4

LEMMA WorldKeeps == ASSUME JournalInv, Enroll \/ OthersVote \/ PublishOther \/ PeriodEnds PROVE JournalInv'
<1>1. UNCHANGED <<manifest, run>>
  BY DEF Enroll, OthersVote, PublishOther, PeriodEnds, script
<1>2. registries \in Seq(RegistryRecords) /\ referenda \in Seq(ReferendumRecords)
  BY DEF JournalInv
<1>3. CASE Enroll
  <2>. DEFINE new == [registry EXCEPT !.leaves = @ + 1]
  <2>1. manifest.registry # 0 /\ UNCHANGED referenda /\ registries' = [registries EXCEPT ![manifest.registry] = new]
    BY <1>3 DEF Enroll, registry
  <2>2. registry \in RegistryRecords /\ manifest.registry \in 1..Len(registries)
    BY <2>1, Named
  <2>3. new \in RegistryRecords /\ registry.attested \subseteq new.attested
    BY <2>2 DEF RegistryRecords
  <2>. HIDE DEF new
  <2>4. Grows(registries, referenda, registries', referenda')
    BY <1>2, <2>1, <2>2, <2>3, RegistryGrows DEF registry
  <2>. QED
    BY <1>1, <2>4, WorldStep
<1>4. CASE OthersVote
  <2>1. manifest.referendum # 0 /\ Casts("other") /\ UNCHANGED registries
    BY <1>4 DEF OthersVote
  <2>2. Grows(registries, referenda, registries', referenda')
    BY <2>1, CastGrows
  <2>. QED
    BY <1>1, <2>2, WorldStep
<1>5. CASE PublishOther
  <2>1. manifest.referendum # 0 /\ Accepts(manifest.referendum, registry.leaves) /\ Attested(registry.leaves)
    BY <1>5 DEF PublishOther
  <2>2. manifest.registry # 0 /\ registry.leaves \in Nat
    BY <2>1, Named DEF RegistryRecords
  <2>. DEFINE new == [registry EXCEPT !.attested = @ \cup {registry.leaves}]
              fresh == [referendum EXCEPT !.accepted = @ \cup {registry.leaves}]
  <2>3. registries' = [registries EXCEPT ![manifest.registry] = new]
    BY <2>1 DEF Attested, registry
  <2>4. referenda' = [referenda EXCEPT ![manifest.referendum] = fresh]
    BY <2>1 DEF Accepts, referendum
  <2>5. new \in RegistryRecords /\ registry.attested \subseteq new.attested
    BY <2>2, Named DEF RegistryRecords
  <2>6. /\ fresh \in ReferendumRecords /\ fresh.registry = referendum.registry /\ fresh.initial = referendum.initial
        /\ fresh.votes = referendum.votes /\ fresh.accepted = referendum.accepted \cup {registry.leaves}
    BY <2>1, <2>2, Named DEF ReferendumRecords
  <2>. HIDE DEF new, fresh
  <2>7. manifest.registry \in 1..Len(registries) /\ manifest.referendum \in 1..Len(referenda)
    BY <2>1, <2>2, Named
  <2>8. Grows(registries, referenda, registries', referenda)
    BY <1>2, <2>3, <2>5, <2>7, RegistryGrows DEF registry
  <2>9. Grows(registries, referenda, registries, referenda')
    BY <1>2, <2>4, <2>6, <2>7, ReferendumGrows DEF referendum
  <2>10. Grows(registries, referenda, registries', referenda')
    BY <2>8, <2>9 DEF Grows
  <2>. QED
    BY <1>1, <2>10, WorldStep
<1>6. CASE PeriodEnds
  BY <1>1, <1>6, NothingMoves, WorldStep DEF PeriodEnds
<1>. QED
  BY <1>3, <1>4, <1>5, <1>6

LEMMA JournalNext == JournalInv /\ [ONext]_ovars => JournalInv'
<1>. SUFFICES ASSUME JournalInv, [ONext]_ovars PROVE JournalInv'
  OBVIOUS
<1>1. CASE UNCHANGED ovars
  BY <1>1, NothingMoves, WorldStep DEF ovars
<1>2. CASE ScriptStep
  BY <1>2, DeployRegistryKeeps, IssueKeeps, AttestInitialKeeps, DeployReferendumKeeps, AdmitKeeps, PublishKeeps,
     CastKeeps, ReplayKeeps, CountKeeps, AlreadyRevealedKeeps, RunnerKeeps DEF ScriptStep
<1>3. CASE Fail
  BY <1>3, NothingMoves, ScriptStops DEF Fail, Dies, Stops, chain
<1>. QED
  BY <1>1, <1>2, <1>3, BeginKeeps, RunnerKeeps, WorldKeeps DEF ONext

(* Wherever the runs of the deployment have died, and whatever others have  *)
(* enrolled, voted and published meanwhile, the manifest tells the truth    *)
(* about the chain (deploy-passport-v2.mjs, evidence-undeployed-v2.mjs).    *)
THEOREM ManifestIsTrue == OSpec => []JournalIsTrue
<1>1. JournalInv => JournalIsTrue
  BY DEF JournalInv, TrueOf, JournalIsTrue, registry, referendum
<1>. QED
  BY <1>1, JournalInit, JournalNext, PTL DEF OSpec
=============================================================================
