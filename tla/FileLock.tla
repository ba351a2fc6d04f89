------------------------------ MODULE FileLock ------------------------------
(***************************************************************************)
(* The JSON files of the two services: FileV2ActionStore of the relay and  *)
(* AtomicJsonStore of the credential service.  An update takes a lock      *)
(* file, reads the state, changes it, writes a temporary file, renames it  *)
(* over the state and removes the lock.  Every call of the file system is  *)
(* a step; the process may die between any two, and a lock it leaves       *)
(* behind is recovered once it is stale.                                   *)
(*                                                                         *)
(* The state is one evidence authorization that several tasks claim, each  *)
(* for an enrollment of its own.  The relay passes its updates through a   *)
(* queue (tail) and the credential service does not; each service is one   *)
(* process at a time.  An update that is alive is taken to need less than  *)
(* staleLockMs, so only the lock of a dead process ages.                   *)
(***************************************************************************)
EXTENDS Naturals, FiniteSets

CONSTANTS Tasks,       \* updates, each for an enrollment of its own
          Pids,        \* identities a process may be given
          Stores,      \* which of the two stores is modelled: relay, credential
          MaxDeaths    \* bound: deaths of the process, for each of Stores

Nobody == "nobody"   \* no claim in the file, no task, no process

ASSUME FileLockAssumption ==
    /\ Stores \subseteq {"relay", "credential"} /\ MaxDeaths \in [Stores -> Nat]
    /\ IsFiniteSet(Tasks) /\ IsFiniteSet(Pids) /\ Nobody \notin Tasks \cup Pids

NoLock == [by |-> Nobody, pid |-> Nobody, orphan |-> FALSE, stale |-> FALSE]

VARIABLES
    store,       \* the store of this behaviour
    lock,        \* the lock file: who created it, the pid written in it, or NoLock
    file,        \* the state file: the task whose enrollment holds the evidence
    temps,       \* the tasks whose temporary file exists
    pc,          \* where each task is
    snap,        \* the state each task has read and changed
    answer,      \* what each task's caller was told
    pid,         \* the identity of the running process
    deaths

lvars == <<store, lock, file, temps, pc, snap, answer, pid, deaths>>

Locations == {"idle", "open", "stamp", "sweep", "read", "temp", "rename", "release", "stat", "judge", "unlink", "done"}

LTypeOK ==
    /\ store \in Stores /\ file \in Tasks \cup {Nobody} /\ temps \subseteq Tasks
    /\ lock \in [by : Tasks \cup {Nobody}, pid : Pids \cup {Nobody}, orphan : BOOLEAN, stale : BOOLEAN]
    /\ pc \in [Tasks -> Locations] /\ snap \in [Tasks -> Tasks \cup {Nobody}]
    /\ answer \in [Tasks -> {"none", "claimed", "refused", "failed"}]
    /\ pid \in Pids /\ deaths \in 0..MaxDeaths[store]

LInit ==
    /\ store \in Stores /\ lock = NoLock /\ file = Nobody /\ temps = {}
    /\ pc = [t \in Tasks |-> "idle"] /\ snap = [t \in Tasks |-> Nobody]
    /\ answer = [t \in Tasks |-> "none"] /\ pid \in Pids /\ deaths = 0

Goto(t, l) == pc' = [pc EXCEPT ![t] = l]

\* Mutant: the updates of the relay are not queued.
QueuedNot(t) == TRUE

\* update: the relay chains updates on tail, the credential service starts them at once.
Queued(t) == store = "relay" => \A u \in Tasks : pc[u] \in {"idle", "done"}

Update(t) ==
    /\ pc[t] = "idle" /\ Queued(t) /\ Goto(t, "open")
    /\ UNCHANGED <<store, lock, file, temps, snap, answer, pid, deaths>>

\* acquireLock: open(lockPath, 'wx').
Open(t) ==
    /\ pc[t] = "open"
    /\ \/ lock = NoLock /\ lock' = [NoLock EXCEPT !.by = t] /\ Goto(t, "stamp")
       \/ lock # NoLock /\ Goto(t, "stat") /\ UNCHANGED lock
    /\ UNCHANGED <<store, file, temps, snap, answer, pid, deaths>>

\* The pid goes to the file that was opened, which somebody may have unlinked.
Stamp(t) ==
    /\ pc[t] = "stamp" /\ Goto(t, IF store = "relay" THEN "read" ELSE "sweep")
    /\ lock' = IF lock.by = t THEN [lock EXCEPT !.pid = pid] ELSE lock
    /\ UNCHANGED <<store, file, temps, snap, answer, pid, deaths>>

\* removeStaleTemps, in the credential service only.
Sweep(t) ==
    /\ pc[t] = "sweep" /\ temps' = {} /\ Goto(t, "read")
    /\ UNCHANGED <<store, lock, file, snap, answer, pid, deaths>>

\* The state is read and the mutator applied: claim gives free evidence to this enrollment.
Read(t) ==
    /\ pc[t] = "read" /\ snap' = [snap EXCEPT ![t] = IF file = Nobody THEN t ELSE file] /\ Goto(t, "temp")
    /\ UNCHANGED <<store, lock, file, temps, answer, pid, deaths>>

WriteTemp(t) ==
    /\ pc[t] = "temp" /\ temps' = temps \cup {t} /\ Goto(t, "rename")
    /\ UNCHANGED <<store, lock, file, snap, answer, pid, deaths>>

\* writeAtomic: the rename fails when another update has swept the temporary file away.
Rename(t) ==
    /\ pc[t] = "rename" /\ temps' = temps \ {t} /\ Goto(t, "release")
    /\ \/ t \in temps /\ file' = snap[t] /\ answer' = [answer EXCEPT ![t] = IF snap[t] = t THEN "claimed" ELSE "refused"]
       \/ t \notin temps /\ answer' = [answer EXCEPT ![t] = "failed"] /\ UNCHANGED file
    /\ UNCHANGED <<store, lock, snap, pid, deaths>>

\* release removes whatever lock file is there.
Release(t) ==
    /\ pc[t] = "release" /\ lock' = NoLock /\ Goto(t, "done")
    /\ UNCHANGED <<store, file, temps, snap, answer, pid, deaths>>

\* A young lock is waited for, until lockTimeoutMs; the caller then tries again later.
StatLock(t) ==
    /\ pc[t] = "stat"
    /\ \/ lock = NoLock /\ Goto(t, "open")
       \/ lock # NoLock /\ ~lock.stale /\ (Goto(t, "open") \/ Goto(t, "idle"))
       \/ lock.stale /\ Goto(t, "judge")
    /\ UNCHANGED <<store, lock, file, temps, snap, answer, pid, deaths>>

\* Mutant: the relay's own pid counts as a live owner, as in the credential service.
OwnerLivesOwn(p) == p = pid

\* isProcessAlive: only the running process is; the relay takes its own pid for a dead one's.
OwnerLives(p) == p = pid /\ store = "credential"

\* The owner is read from the lock file that is there by now; none is as good as a dead one.
JudgeOwner(t) ==
    /\ pc[t] = "judge"
    /\ \/ OwnerLives(lock.pid) /\ (Goto(t, "open") \/ Goto(t, "idle"))
       \/ ~OwnerLives(lock.pid) /\ Goto(t, "unlink")
    /\ UNCHANGED <<store, lock, file, temps, snap, answer, pid, deaths>>

\* recoverDeadLock, recoverStaleLock: the lock that is there by now is unlinked.
UnlinkLock(t) ==
    /\ pc[t] = "unlink" /\ lock' = NoLock /\ Goto(t, "open")
    /\ UNCHANGED <<store, file, temps, snap, answer, pid, deaths>>

\* The process dies; its successor may be given the same pid.  Callers try again.
Die ==
    /\ deaths < MaxDeaths[store] /\ deaths' = deaths + 1
    /\ pid' \in Pids /\ lock' = IF lock = NoLock THEN lock ELSE [lock EXCEPT !.orphan = TRUE]
    /\ pc' = [t \in Tasks |-> IF pc[t] = "done" THEN "done" ELSE "idle"]
    /\ answer' = [t \in Tasks |-> IF pc[t] = "done" THEN answer[t] ELSE "none"]
    /\ UNCHANGED <<store, file, temps, snap>>

\* staleLockMs passes over the lock of a dead process.
Age ==
    /\ lock.orphan /\ ~lock.stale /\ lock' = [lock EXCEPT !.stale = TRUE]
    /\ UNCHANGED <<store, file, temps, pc, snap, answer, pid, deaths>>

TaskStep(t) ==
    \/ Update(t) \/ Open(t) \/ Stamp(t) \/ Sweep(t) \/ Read(t) \/ WriteTemp(t) \/ Rename(t) \/ Release(t)
    \/ StatLock(t) \/ JudgeOwner(t) \/ UnlinkLock(t)

LNext == Die \/ Age \/ \E t \in Tasks : TaskStep(t)

\* Timers fire and callers try again; deaths are never owed.
LFairness == WF_lvars(Age) /\ \A t \in Tasks : WF_lvars(TaskStep(t))

LSpec == LInit /\ [][LNext]_lvars /\ LFairness

-----------------------------------------------------------------------------

\* One evidence authorization serves one enrollment: no two callers are told that it is
\* theirs, and what a caller was told is what the file says (claim, AtomicJsonStore.update,
\* FileV2ActionStore.withLock).
ClaimedOnce ==
    \A t \in Tasks : pc[t] = "done" /\ answer[t] = "claimed" => file = t

\* A lock left by a dead process is removed while anybody is waiting for it, unless the
\* successor of a credential service was given the very pid that is written in it
\* (recoverDeadLock, recoverStaleLock).
OrphanLockRecovered ==
    lock.orphan /\ (store = "credential" => lock.pid # pid) ~> (~lock.orphan \/ \A t \in Tasks : pc[t] = "done")
=============================================================================
