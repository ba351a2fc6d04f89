----------------------- MODULE CredentialRootPublisher -----------------------
(***************************************************************************)
(* cico-service/src/credential-root-publisher.ts composed with the          *)
(* credential registry it reads and the open referenda it admits roots to.  *)
(*                                                                          *)
(* The issuer keeps adding credentials while a publish cycle runs.  Each    *)
(* await of runCycle is a point where the registry, the referenda, the      *)
(* clock or the life of the process may change, so every stretch of code    *)
(* between two awaits is one action.  Cycles are serialised (exclusive);    *)
(* the timer starts the next one.  Of a referendum only what decides        *)
(* publishCredentialRoot is kept: the roots, the flag and the deadline of   *)
(* enrollment, which is never later than that of voting.                    *)
(***************************************************************************)
EXTENDS CredentialRegistryV1, Integers, FiniteSets, FiniteSetsExt

CONSTANTS
    Referenda,        \* the configured targets, in order (a sequence)
    EnrollmentCloses, \* enrollmentClosesAtUnix of each target
    MinBatchSize,     \* minBatchSize
    MaxWait,          \* maxWaitMs, in ticks of the clock
    NoRoot, NoTime,   \* null
    MaxTime,          \* bound on the clock
    MaxFaults,        \* bound on failed reads and transactions
    MaxRestarts       \* bound on process restarts

Targets == {Referenda[i] : i \in DOMAIN Referenda}

InitialRoot == << >>

ASSUME PublisherAssumption ==
    /\ Referenda \in Seq(Targets)
    /\ MinBatchSize \in Nat \ {0}
    /\ MaxWait \in Nat \ {0}
    /\ EnrollmentCloses \in [Targets -> Nat]
    /\ MaxTime \in Nat /\ MaxFaults \in Nat /\ MaxRestarts \in Nat

VARIABLES
    \* the referenda
    accepted, revoked, enrollmentClosed,
    \* memory of the publisher
    lastPublishedRoot, lastPublishedCount, pendingRoot, pendingSince,
    cycle,       \* the cycle under way: [pc, root, i, at, below]
    \* the environment
    now, faults, restarts,
    admissions   \* history: what each successful publication admitted

referenda == <<accepted, revoked, enrollmentClosed>>
memory    == <<lastPublishedRoot, lastPublishedCount, pendingRoot,
               pendingSince>>
environment == <<now, faults, restarts>>
publisherVars == <<registryVars, referenda, memory, cycle, environment, admissions>>

Idle == [pc |-> "idle", root |-> InitialRoot, i |-> 0, at |-> 0,
         below |-> FALSE]

PublisherInit ==
    /\ RegistryInit
    /\ accepted = [t \in Targets |-> {InitialRoot}]
    /\ revoked = [t \in Targets |-> {}]
    /\ enrollmentClosed = [t \in Targets |-> FALSE]
    /\ lastPublishedRoot = NoRoot
    /\ lastPublishedCount = 0
    /\ pendingRoot = NoRoot
    /\ pendingSince = NoTime
    /\ cycle = Idle
    /\ now = 0
    /\ faults = 0
    /\ restarts = 0
    /\ admissions = << >>

-----------------------------------------------------------------------------
(* The cycle                                                                *)

BeginCycle ==
    /\ cycle = Idle
    /\ Len(Referenda) > 0
    /\ cycle' = [Idle EXCEPT !.pc = "reading"]
    /\ UNCHANGED <<registryVars, referenda, memory, environment, admissions>>

(* A read or a transaction fails for a reason outside the ledger.           *)
Fault ==
    /\ faults < MaxFaults
    /\ faults' = faults + 1
    /\ UNCHANGED <<now, restarts>>

Attesting(root, below) ==
    [Idle EXCEPT !.pc = "attesting", !.root = root, !.below = below]

(* Up to the first decision: the registry is read, a root not seen before   *)
(* starts the clock of the batch, and a batch that is large enough or has   *)
(* waited long enough goes on to be attested.                               *)
ReadRegistry ==
    /\ cycle.pc = "reading"
    /\ LET root  == credentials
           since == IF pendingRoot = root THEN pendingSince ELSE now
           batch == Len(root) - lastPublishedCount
       IN  \/ /\ lastPublishedRoot = root
              /\ cycle' = Idle
              /\ UNCHANGED memory
           \/ /\ lastPublishedRoot # root
              /\ pendingRoot' = root
              /\ pendingSince' = since
              /\ cycle' = IF batch <= 0 THEN Idle
                          ELSE IF batch >= MinBatchSize
                            THEN Attesting(root, FALSE)
                          ELSE IF now - since >= MaxWait
                            THEN Attesting(root, TRUE)
                          ELSE [Idle EXCEPT !.pc = "deadline", !.root = root,
                                            !.i = 1, !.at = now]
              /\ UNCHANGED <<lastPublishedRoot, lastPublishedCount>>
    /\ UNCHANGED <<registryVars, referenda, environment, admissions>>

ReadRegistryFails ==
    /\ cycle.pc = "reading"
    /\ cycle' = Idle
    /\ Fault
    /\ UNCHANGED <<registryVars, referenda, memory, admissions>>

(* isEnrollmentDeadlineImminent, one referendum at a time: the last one     *)
(* that says no ends the cycle below the minimum batch.                     *)
NextDeadline ==
    IF cycle.i = Len(Referenda) THEN Idle ELSE [cycle EXCEPT !.i = @ + 1]

ReadDeadline ==
    /\ cycle.pc = "deadline"
    /\ LET t == Referenda[cycle.i] IN
       cycle' = IF ~enrollmentClosed[t]
                     /\ EnrollmentCloses[t] <= cycle.at + MaxWait
                  THEN Attesting(cycle.root, TRUE)
                  ELSE NextDeadline
    /\ UNCHANGED <<registryVars, referenda, memory, environment, admissions>>

ReadDeadlineFails ==
    /\ cycle.pc = "deadline"
    /\ cycle' = NextDeadline
    /\ Fault
    /\ UNCHANGED <<registryVars, referenda, memory, admissions>>

(* The attestation is a transaction of its own; the registry refuses a root *)
(* that is no longer its current one.                                       *)
Attest ==
    /\ cycle.pc = "attesting"
    /\ AttestCurrentRoot(cycle.root)
    /\ cycle' = [cycle EXCEPT !.pc = "publishing", !.i = 1]
    /\ UNCHANGED <<referenda, memory, environment, admissions>>

(* Mutant: a failed attestation is logged and the cycle goes on.            *)
AttestRefusedGoesOn ==
    /\ cycle.pc = "attesting"
    /\ ~CheckRoot(cycle.root)
    /\ cycle' = [cycle EXCEPT !.pc = "publishing", !.i = 1]
    /\ UNCHANGED <<registryVars, referenda, memory, environment, admissions>>

AttestRefused ==
    /\ cycle.pc = "attesting"
    /\ ~CheckRoot(cycle.root)
    /\ cycle' = Idle
    /\ UNCHANGED <<registryVars, referenda, memory, environment, admissions>>

(* The transaction may have been applied although the call throws.          *)
AttestFails ==
    /\ cycle.pc = "attesting"
    /\ \/ AttestCurrentRoot(cycle.root)
       \/ UNCHANGED registryVars
    /\ cycle' = Idle
    /\ Fault
    /\ UNCHANGED <<referenda, memory, admissions>>

(* publishCredentialRoot's assertions.                                      *)
PublishAllowed(t, root) ==
    /\ ~enrollmentClosed[t]
    /\ now < EnrollmentCloses[t]
    /\ root \notin accepted[t]
    /\ root \notin revoked[t]

(* Mutant: the registry is read again at the end, for the newest values.    *)
CycleEndsRereading ==
    /\ lastPublishedRoot' = credentials
    /\ lastPublishedCount' = Len(credentials)
    /\ pendingRoot' = NoRoot
    /\ pendingSince' = NoTime

(* Mutant: the count of published credentials is not brought up to date.    *)
CycleEndsUncounted ==
    /\ lastPublishedRoot' = cycle.root
    /\ lastPublishedCount' = lastPublishedCount
    /\ pendingRoot' = NoRoot
    /\ pendingSince' = NoTime

(* After the last referendum: the root counts as published, whatever the    *)
(* outcomes were.                                                           *)
CycleEnds ==
    /\ lastPublishedRoot' = cycle.root
    /\ lastPublishedCount' = Len(cycle.root)
    /\ pendingRoot' = NoRoot
    /\ pendingSince' = NoTime

NextReferendum ==
    IF cycle.i = Len(Referenda)
      THEN cycle' = Idle /\ CycleEnds
      ELSE cycle' = [cycle EXCEPT !.i = @ + 1] /\ UNCHANGED memory

Admit(t, root) ==
    /\ accepted' = [accepted EXCEPT ![t] = @ \cup {root}]
    /\ admissions' = Append(admissions,
         [referendum |-> t, below |-> cycle.below,
          newcomers |-> Len(root)
             - Max({Len(r) : r \in accepted[t] \cup revoked[t]})])
    /\ UNCHANGED <<revoked, enrollmentClosed>>

PublishToReferendum ==
    /\ cycle.pc = "publishing"
    /\ PublishAllowed(Referenda[cycle.i], cycle.root)
    /\ Admit(Referenda[cycle.i], cycle.root)
    /\ NextReferendum
    /\ UNCHANGED <<registryVars, environment>>

PublishRefused ==
    /\ cycle.pc = "publishing"
    /\ ~PublishAllowed(Referenda[cycle.i], cycle.root)
    /\ NextReferendum
    /\ UNCHANGED <<registryVars, referenda, environment, admissions>>

(* The call throws: the transaction was lost, or applied all the same.      *)
PublishFails ==
    /\ cycle.pc = "publishing"
    /\ \/ /\ PublishAllowed(Referenda[cycle.i], cycle.root)
          /\ Admit(Referenda[cycle.i], cycle.root)
       \/ UNCHANGED <<referenda, admissions>>
    /\ NextReferendum
    /\ Fault
    /\ UNCHANGED registryVars

(* The process is restarted; nothing the publisher knows is persisted.      *)
Restart ==
    /\ restarts < MaxRestarts
    /\ restarts' = restarts + 1
    /\ lastPublishedRoot' = NoRoot
    /\ lastPublishedCount' = 0
    /\ pendingRoot' = NoRoot
    /\ pendingSince' = NoTime
    /\ cycle' = Idle
    /\ UNCHANGED <<registryVars, referenda, now, faults, admissions>>

-----------------------------------------------------------------------------
(* What others do meanwhile                                                 *)

Issue ==
    /\ \E secret \in IssuerSecrets, leaf \in Leaves :
          AddCredential(secret, leaf)
    /\ UNCHANGED <<referenda, memory, cycle, environment, admissions>>

(* The issuer's coordinator freezes the root it has read, maybe a while ago. *)
FreezeRegistry ==
    /\ \E secret \in IssuerSecrets, n \in 0..Len(credentials) :
          Freeze(secret, SubSeq(credentials, 1, n))
    /\ UNCHANGED <<referenda, memory, cycle, environment, admissions>>

CloseEnrollment(t) ==
    /\ ~enrollmentClosed[t]
    /\ enrollmentClosed' = [enrollmentClosed EXCEPT ![t] = TRUE]
    /\ UNCHANGED <<registryVars, accepted, revoked, memory, cycle,
                   environment, admissions>>

RevokeRoot(t, root) ==
    /\ now < EnrollmentCloses[t]
    /\ accepted[t] \ {root} # {}
    /\ accepted' = [accepted EXCEPT ![t] = @ \ {root}]
    /\ revoked' = [revoked EXCEPT ![t] = @ \cup {root}]
    /\ UNCHANGED <<registryVars, enrollmentClosed, memory, cycle,
                   environment, admissions>>

Tick ==
    /\ now < MaxTime
    /\ now' = now + 1
    /\ UNCHANGED <<registryVars, referenda, memory, cycle, faults, restarts,
                   admissions>>

-----------------------------------------------------------------------------

CycleStep ==
    \/ BeginCycle
    \/ ReadRegistry
    \/ ReadDeadline
    \/ Attest
    \/ AttestRefused
    \/ PublishToReferendum
    \/ PublishRefused

PublisherNext ==
    \/ CycleStep
    \/ ReadRegistryFails
    \/ ReadDeadlineFails
    \/ AttestFails
    \/ PublishFails
    \/ Restart
    \/ Issue
    \/ FreezeRegistry
    \/ \E t \in Targets : CloseEnrollment(t)
    \/ \E t \in Targets : \E root \in accepted[t] : RevokeRoot(t, root)
    \/ Tick

PublisherSpec == PublisherInit /\ [][PublisherNext]_publisherVars

(* setInterval keeps starting cycles and every call of a cycle returns.     *)
PublisherFairSpec == PublisherSpec /\ WF_publisherVars(CycleStep) /\ WF_publisherVars(Tick)

-----------------------------------------------------------------------------
(* Properties                                                               *)

Batches == [referendum : Targets, below : BOOLEAN, newcomers : Int]

(* The fields keep their types; a cycle never leaves the list of referenda. *)
PublisherTypeOK ==
    /\ credentials \in Seq(Leaves) /\ Len(credentials) <= RegistryCapacity
    /\ frozen \in BOOLEAN
    /\ frozenRoot \in Seq(Leaves)
    /\ \A t \in Targets : accepted[t] \cup revoked[t] \subseteq Seq(Leaves)
    /\ enrollmentClosed \in [Targets -> BOOLEAN]
    /\ lastPublishedRoot = NoRoot \/ lastPublishedRoot \in Seq(Leaves)
    /\ lastPublishedCount \in 0..RegistryCapacity
    /\ pendingRoot = NoRoot <=> pendingSince = NoTime
    /\ pendingSince = NoTime \/ pendingSince \in 0..now
    /\ cycle.pc \in {"idle", "reading", "deadline", "attesting", "publishing"}
    /\ cycle.pc \in {"deadline", "publishing"} => cycle.i \in DOMAIN Referenda
    /\ admissions \in Seq(Batches)

(* "A failed attestation must never be followed by a publish": every root a *)
(* referendum accepts besides its first was attested by the registry, and   *)
(* is a root the registry really had, so its members are still members,     *)
(* however much the registry grew between the read, the attestation and     *)
(* the publications.                                                        *)
AdmittedRootsAttested ==
    \A t \in Targets : \A root \in accepted[t] \ {InitialRoot} :
        /\ root \in attested
        /\ root = SubSeq(credentials, 1, Len(root))

(* "An under-sized batch that is published anyway is flagged": as long as   *)
(* the process lives, a publication that adds fewer than minBatchSize       *)
(* members to a referendum is reported belowMinimum, through lost calls,    *)
(* referenda that refuse a root and enrollments in the middle of a cycle.   *)
(* A restarted publisher counts from zero again and loses this.             *)
UndersizedBatchFlagged ==
    \A i \in DOMAIN admissions :
        restarts = 0 /\ admissions[i].newcomers < MinBatchSize
            => admissions[i].below

(* Everybody who enrolls gets under an admitted root of every referendum    *)
(* whose enrollment stays open, through any restart: as the batch fills,    *)
(* waits long enough or the deadline comes near, the referenda catch up     *)
(* with the registry, time and again.  A lost call excuses it, for a root   *)
(* whose publication failed counts as published all the same.               *)
EnrolledEventuallyAdmitted ==
    []<>(\A t \in Targets :
            \/ faults > 0
            \/ enrollmentClosed[t]
            \/ now >= EnrollmentCloses[t]
            \/ \E root \in accepted[t] \cup revoked[t] :
                  Len(root) = Len(credentials))
=============================================================================
