-------------------- MODULE CredentialRootPublisherProofs --------------------
(***************************************************************************)
(* Proofs about CredentialRootPublisher, for any referenda, batch sizes,    *)
(* waiting times and capacities and any number of faults and restarts.      *)
(*                                                                          *)
(* A root that was attested was the whole registry then, and the registry   *)
(* only grows: it stays a beginning of the registry.  For the batches, what *)
(* the referenda have is at most what the publisher counts as published, or *)
(* the root of the cycle under way, as long as the process lives.           *)
(***************************************************************************)
EXTENDS CredentialRootPublisher, TLAPS

Beginning(root) ==
    /\ root \in Seq(Leaves) /\ Len(root) <= Len(credentials)
    /\ \A i \in 1..Len(root) : root[i] = credentials[i]

RegistryFits ==
    /\ credentials \in Seq(Leaves)
    /\ \A root \in attested : Beginning(root)

CycleShape == [pc : {"idle", "reading", "deadline", "attesting", "publishing"},
               root : Seq(Leaves), i : Nat, at : Nat, below : BOOLEAN]

(* The cycle: it stays within the list, its root was the registry's when it *)
(* was read, and what it publishes was attested.                            *)
CycleFits ==
    /\ cycle \in CycleShape
    /\ cycle.pc \in {"deadline", "publishing"} => cycle.i \in DOMAIN Referenda
    /\ cycle.pc # "idle" => Len(Referenda) > 0
    /\ cycle.pc = "publishing" => cycle.root \in attested
    /\ now \in Nat /\ restarts \in Nat

Roots(t) == accepted[t] \cup revoked[t]

(* The referenda: only attested roots, and one of them is the longest.      *)
ReferendaFit ==
    /\ accepted \in [Targets -> SUBSET Seq(Leaves)]
    /\ revoked \in [Targets -> SUBSET Seq(Leaves)]
    /\ \A t \in Targets :
         /\ accepted[t] \subseteq attested \cup {InitialRoot}
         /\ \E m \in Roots(t) : \A r \in Roots(t) : Len(r) <= Len(m)

(* A batch in the making is new, and as large as it must be unless it is    *)
(* flagged.                                                                 *)
BatchFits ==
    /\ lastPublishedCount \in Nat
    /\ cycle.pc \in {"deadline", "attesting", "publishing"} =>
         Len(cycle.root) > lastPublishedCount
    /\ cycle.pc \in {"attesting", "publishing"} =>
         cycle.below \/ Len(cycle.root) - lastPublishedCount >= MinBatchSize

(* What a referendum has is counted, or of the cycle under way.             *)
Counted ==
    restarts = 0 =>
        \A t \in Targets : \A r \in Roots(t) :
            \/ Len(r) <= lastPublishedCount
            \/ cycle.pc = "publishing" /\ r = cycle.root

Flagged ==
    /\ admissions \in Seq(Batches)
    /\ UndersizedBatchFlagged

PublisherInv ==
    RegistryFits /\ CycleFits /\ ReferendaFit /\ BatchFits /\ Counted /\ Flagged

-----------------------------------------------------------------------------
(* The cycle's record.                                                      *)

LEMMA IdleFits ==
    Idle \in CycleShape /\ Idle.pc = "idle"
  BY DEF Idle, CycleShape, InitialRoot

LEMMA AttestingFits ==
    ASSUME NEW root \in Seq(Leaves), NEW below \in BOOLEAN
    PROVE  /\ Attesting(root, below) \in CycleShape
           /\ Attesting(root, below).pc = "attesting"
           /\ Attesting(root, below).root = root
           /\ Attesting(root, below).below = below
  BY DEF Attesting, Idle, CycleShape

DeadlineOf(root, at) == [Idle EXCEPT !.pc = "deadline", !.root = root, !.i = 1, !.at = at]

LEMMA DeadlineFits ==
    ASSUME NEW root \in Seq(Leaves), NEW at \in Nat
    PROVE  /\ DeadlineOf(root, at) \in CycleShape
           /\ DeadlineOf(root, at).pc = "deadline"
           /\ DeadlineOf(root, at).root = root
           /\ DeadlineOf(root, at).i = 1
  BY DEF DeadlineOf, Idle, CycleShape

Advanced(c) == [c EXCEPT !.i = @ + 1]

LEMMA AdvancedFits ==
    ASSUME NEW c \in CycleShape
    PROVE  /\ Advanced(c) \in CycleShape /\ Advanced(c).pc = c.pc
           /\ Advanced(c).root = c.root /\ Advanced(c).i = c.i + 1
           /\ Advanced(c).below = c.below
  BY DEF Advanced, CycleShape

Publishing(c) == [c EXCEPT !.pc = "publishing", !.i = 1]

LEMMA PublishingFits ==
    ASSUME NEW c \in CycleShape
    PROVE  /\ Publishing(c) \in CycleShape /\ Publishing(c).pc = "publishing"
           /\ Publishing(c).root = c.root /\ Publishing(c).i = 1
           /\ Publishing(c).below = c.below
  BY DEF Publishing, CycleShape

(* The list of referenda.                                                   *)
LEMMA ListFits ==
    /\ Len(Referenda) \in Nat /\ DOMAIN Referenda = 1..Len(Referenda)
    /\ \A i \in DOMAIN Referenda : Referenda[i] \in Targets
  BY PublisherAssumption DEF Targets

LEMMA PublisherInitInv == PublisherInit => PublisherInv
<1>. SUFFICES ASSUME PublisherInit PROVE PublisherInv
  OBVIOUS
<1>1. cycle = Idle /\ restarts = 0 /\ now = 0 /\ lastPublishedCount = 0
  BY DEF PublisherInit
<1>2. RegistryFits
  BY DEF PublisherInit, RegistryInit, RegistryFits
<1>3. CycleFits
  BY <1>1, IdleFits DEF CycleFits
<1>4. InitialRoot \in Seq(Leaves) /\ Len(InitialRoot) = 0
  BY DEF InitialRoot
<1>5. \A t \in Targets : Roots(t) = {InitialRoot} /\ accepted[t] = {InitialRoot}
  BY DEF PublisherInit, Roots
<1>6. ReferendaFit
  BY <1>4, <1>5 DEF PublisherInit, ReferendaFit
<1>7. BatchFits
  BY <1>1, IdleFits DEF BatchFits
<1>8. Counted
  BY <1>1, <1>4, <1>5 DEF Counted
<1>9. Flagged
  BY DEF PublisherInit, Flagged, UndersizedBatchFlagged
<1>. QED
  BY <1>2, <1>3, <1>6, <1>7, <1>8, <1>9 DEF PublisherInv

-----------------------------------------------------------------------------
(* Steps that admit nothing.                                                *)

LEMMA ReferendaKept ==
    ASSUME PublisherInv, UNCHANGED <<referenda, attested>>
    PROVE  ReferendaFit'
  BY DEF PublisherInv, ReferendaFit, Roots, referenda

(* A cycle that ends without having published anything.                     *)
LEMMA CycleDrops ==
    ASSUME PublisherInv, cycle.pc # "publishing", cycle' = Idle,
           UNCHANGED <<referenda, lastPublishedCount, now, restarts, admissions>>
    PROVE  CycleFits' /\ BatchFits' /\ Counted' /\ Flagged'
<1>1. CycleFits'
  BY IdleFits DEF PublisherInv, CycleFits
<1>2. BatchFits'
  BY IdleFits DEF PublisherInv, BatchFits
<1>3. Counted'
  BY DEF PublisherInv, Counted, Roots, referenda
<1>4. Flagged'
  BY DEF PublisherInv, Flagged, UndersizedBatchFlagged
<1>. QED
  BY <1>1, <1>2, <1>3, <1>4

LEMMA BeginCycleKeeps ==
    ASSUME PublisherInv, BeginCycle PROVE PublisherInv'
<1>. DEFINE next == [Idle EXCEPT !.pc = "reading"]
<1>1. next \in CycleShape /\ next.pc = "reading"
  BY IdleFits DEF CycleShape
<1>2. cycle' = next /\ cycle.pc = "idle"
  BY IdleFits DEF BeginCycle
<1>. HIDE DEF next
<1>3. RegistryFits' /\ ReferendaFit'
  BY ReferendaKept DEF BeginCycle, PublisherInv, RegistryFits, Beginning, registryVars
<1>4. CycleFits' /\ BatchFits'
  BY <1>1, <1>2, ListFits DEF BeginCycle, PublisherInv, CycleFits, BatchFits, memory, environment
<1>5. Counted' /\ Flagged'
  BY <1>2 DEF BeginCycle, PublisherInv, Counted, Flagged, UndersizedBatchFlagged, Roots,
              memory, environment, referenda
<1>. QED
  BY <1>3, <1>4, <1>5 DEF PublisherInv

(* The decision: what goes on is new, and large enough or flagged.          *)
LEMMA ReadRegistryKeeps ==
    ASSUME PublisherInv, ReadRegistry PROVE PublisherInv'
<1>0. /\ cycle.pc = "reading" /\ credentials \in Seq(Leaves) /\ now \in Nat
      /\ lastPublishedCount \in Nat
      /\ UNCHANGED <<registryVars, referenda, environment, admissions, lastPublishedCount>>
  BY DEF ReadRegistry, PublisherInv, RegistryFits, CycleFits, BatchFits, memory
<1>1. RegistryFits' /\ ReferendaFit'
  BY <1>0, ReferendaKept DEF PublisherInv, RegistryFits, Beginning, registryVars
<1>2. CASE cycle' = Idle
  BY <1>0, <1>1, <1>2, CycleDrops DEF PublisherInv, environment
<1>3. ASSUME cycle' \in CycleShape, cycle'.pc \in {"attesting", "deadline"},
             cycle'.root = credentials, Len(credentials) > lastPublishedCount,
             cycle'.pc = "deadline" => cycle'.i \in DOMAIN Referenda,
             cycle'.pc = "attesting" =>
               cycle'.below \/ Len(credentials) - lastPublishedCount >= MinBatchSize
      PROVE  PublisherInv'
  <2>1. CycleFits' /\ BatchFits'
    BY <1>0, <1>3 DEF PublisherInv, CycleFits, BatchFits, environment
  <2>2. Counted' /\ Flagged'
    BY <1>0, <1>3 DEF PublisherInv, Counted, Flagged, UndersizedBatchFlagged, Roots,
              environment, referenda
  <2>. QED
    BY <1>1, <2>1, <2>2 DEF PublisherInv
<1>4. CASE cycle' = Attesting(credentials, FALSE)
           /\ Len(credentials) - lastPublishedCount >= MinBatchSize
  <2>1. cycle' \in CycleShape /\ cycle'.pc = "attesting" /\ cycle'.root = credentials
    BY <1>0, <1>4, AttestingFits
  <2>2. Len(credentials) > lastPublishedCount
    BY <1>0, <1>4, PublisherAssumption
  <2>. QED
    BY <1>3, <1>4, <2>1, <2>2
<1>5. CASE cycle' = Attesting(credentials, TRUE)
           /\ ~(Len(credentials) - lastPublishedCount <= 0)
  <2>1. cycle' \in CycleShape /\ cycle'.pc = "attesting" /\ cycle'.root = credentials
        /\ cycle'.below
    BY <1>0, <1>5, AttestingFits
  <2>2. Len(credentials) > lastPublishedCount
    BY <1>0, <1>5
  <2>. QED
    BY <1>3, <2>1, <2>2
<1>6. CASE cycle' = DeadlineOf(credentials, now)
           /\ ~(Len(credentials) - lastPublishedCount <= 0)
  <2>1. 1 \in DOMAIN Referenda
    BY <1>0, ListFits DEF PublisherInv, CycleFits
  <2>. QED
    BY <1>0, <1>3, <1>6, <2>1, DeadlineFits
<1>. QED
  BY <1>2, <1>4, <1>5, <1>6 DEF ReadRegistry, DeadlineOf

LEMMA ReadRegistryFailsKeeps ==
    ASSUME PublisherInv, ReadRegistryFails PROVE PublisherInv'
<1>1. RegistryFits' /\ ReferendaFit'
  BY ReferendaKept DEF ReadRegistryFails, PublisherInv, RegistryFits, Beginning, registryVars
<1>. QED
  BY <1>1, CycleDrops DEF ReadRegistryFails, Fault, memory, PublisherInv

(* One referendum after the other is asked for its deadline.                *)
LEMMA DeadlineKeeps ==
    ASSUME PublisherInv, ReadDeadline \/ ReadDeadlineFails PROVE PublisherInv'
<1>0. /\ cycle.pc = "deadline" /\ cycle \in CycleShape /\ cycle.i \in DOMAIN Referenda
      /\ Len(cycle.root) > lastPublishedCount /\ cycle.root \in Seq(Leaves)
      /\ UNCHANGED <<registryVars, referenda, memory, now, restarts, admissions>>
  BY DEF ReadDeadline, ReadDeadlineFails, Fault, environment, PublisherInv, CycleFits, BatchFits,
         CycleShape
<1>1. RegistryFits' /\ ReferendaFit'
  BY <1>0, ReferendaKept DEF PublisherInv, RegistryFits, Beginning, registryVars
<1>2. CASE cycle' = Idle
  BY <1>0, <1>1, <1>2, CycleDrops DEF memory, PublisherInv
<1>3. ASSUME cycle' \in CycleShape, cycle'.root = cycle.root,
             \/ cycle'.pc = "deadline" /\ cycle'.i \in DOMAIN Referenda
             \/ cycle'.pc = "attesting" /\ cycle'.below
      PROVE  PublisherInv'
  <2>1. CycleFits' /\ BatchFits'
    BY <1>0, <1>3 DEF PublisherInv, CycleFits, BatchFits, memory
  <2>2. Counted' /\ Flagged'
    BY <1>0, <1>3 DEF PublisherInv, Counted, Flagged, UndersizedBatchFlagged, Roots,
              memory, referenda
  <2>. QED
    BY <1>1, <2>1, <2>2 DEF PublisherInv
<1>4. CASE cycle' = Attesting(cycle.root, TRUE)
  <2>1. cycle' \in CycleShape /\ cycle'.pc = "attesting" /\ cycle'.root = cycle.root
        /\ cycle'.below
    BY <1>0, <1>4, AttestingFits
  <2>. QED
    BY <1>3, <2>1
<1>5. CASE cycle' = Advanced(cycle) /\ cycle.i # Len(Referenda)
  <2>1. cycle.i + 1 \in DOMAIN Referenda
    BY <1>0, <1>5, ListFits
  <2>. QED
    BY <1>0, <1>3, <1>5, <2>1, AdvancedFits
<1>. QED
  BY <1>2, <1>4, <1>5 DEF ReadDeadline, ReadDeadlineFails, NextDeadline, Advanced

(* What is attested is the whole registry.                                  *)
LEMMA AttestedGrows ==
    ASSUME PublisherInv, AttestCurrentRoot(cycle.root)
    PROVE  /\ RegistryFits' /\ attested \subseteq attested' /\ cycle.root \in attested'
           /\ credentials' = credentials
  BY DEF PublisherInv, RegistryFits, Beginning, AttestCurrentRoot, CheckRoot

LEMMA ReferendaKeptAttesting ==
    ASSUME PublisherInv, UNCHANGED referenda, attested \subseteq attested'
    PROVE  ReferendaFit'
  BY DEF PublisherInv, ReferendaFit, Roots, referenda

LEMMA AttestKeeps ==
    ASSUME PublisherInv, Attest PROVE PublisherInv'
<1>0. /\ cycle.pc = "attesting" /\ cycle \in CycleShape
      /\ UNCHANGED <<referenda, memory, environment, admissions>>
  BY DEF Attest, PublisherInv, CycleFits
<1>1. RegistryFits' /\ attested \subseteq attested' /\ cycle.root \in attested'
  BY AttestedGrows DEF Attest
<1>2. ReferendaFit'
  BY <1>0, <1>1, ReferendaKeptAttesting
<1>3. cycle' = Publishing(cycle)
  BY DEF Attest, Publishing
<1>4. cycle' \in CycleShape /\ cycle'.pc = "publishing" /\ cycle'.i = 1
      /\ cycle'.root = cycle.root /\ cycle'.below = cycle.below
  BY <1>0, <1>3, PublishingFits
<1>5. 1 \in DOMAIN Referenda
  BY <1>0, ListFits DEF PublisherInv, CycleFits
<1>6. CycleFits' /\ BatchFits'
  BY <1>0, <1>1, <1>4, <1>5 DEF PublisherInv, CycleFits, BatchFits, memory, environment
<1>7. Counted' /\ Flagged'
  BY <1>0 DEF PublisherInv, Counted, Flagged, UndersizedBatchFlagged, Roots,
              memory, environment, referenda
<1>. QED
  BY <1>1, <1>2, <1>6, <1>7 DEF PublisherInv

LEMMA AttestEndsKeeps ==
    ASSUME PublisherInv, AttestRefused \/ AttestFails PROVE PublisherInv'
<1>0. /\ cycle.pc = "attesting" /\ cycle' = Idle
      /\ UNCHANGED <<referenda, memory, now, restarts, admissions>>
      /\ UNCHANGED registryVars \/ AttestCurrentRoot(cycle.root)
  BY DEF AttestRefused, AttestFails, Fault, environment
<1>1. RegistryFits' /\ attested \subseteq attested'
  BY <1>0, AttestedGrows DEF PublisherInv, RegistryFits, Beginning, registryVars
<1>2. ReferendaFit'
  BY <1>0, <1>1, ReferendaKeptAttesting
<1>. QED
  BY <1>0, <1>1, <1>2, CycleDrops DEF memory, PublisherInv

-----------------------------------------------------------------------------
(* Publishing.                                                              *)

(* The next referendum, or the end of the cycle: then its root counts.      *)
LEMMA NextReferendumFits ==
    ASSUME PublisherInv, cycle.pc = "publishing", NextReferendum,
           UNCHANGED <<registryVars, now, restarts>>
    PROVE  /\ RegistryFits' /\ CycleFits' /\ BatchFits'
           /\ \/ cycle'.pc = "publishing" /\ cycle'.root = cycle.root
                 /\ lastPublishedCount' = lastPublishedCount
              \/ lastPublishedCount' = Len(cycle.root)
<1>0. /\ cycle \in CycleShape /\ cycle.i \in DOMAIN Referenda /\ cycle.root \in Seq(Leaves)
      /\ cycle.root \in attested
  BY DEF PublisherInv, CycleFits, CycleShape
<1>1. RegistryFits'
  BY DEF PublisherInv, RegistryFits, Beginning, registryVars
<1>2. CASE cycle.i = Len(Referenda)
  <2>1. cycle' = Idle /\ lastPublishedCount' = Len(cycle.root)
    BY <1>2 DEF NextReferendum, CycleEnds
  <2>2. CycleFits' /\ BatchFits'
    BY <1>0, <2>1, IdleFits DEF PublisherInv, CycleFits, BatchFits
  <2>. QED
    BY <1>1, <2>1, <2>2
<1>3. CASE cycle.i # Len(Referenda)
  <2>1. cycle' = Advanced(cycle) /\ lastPublishedCount' = lastPublishedCount
    BY <1>3 DEF NextReferendum, Advanced, memory
  <2>2. cycle.i + 1 \in DOMAIN Referenda
    BY <1>0, <1>3, ListFits
  <2>3. cycle' \in CycleShape /\ cycle'.pc = "publishing" /\ cycle'.root = cycle.root
        /\ cycle'.i = cycle.i + 1 /\ cycle'.below = cycle.below
    BY <1>0, <2>1, AdvancedFits
  <2>4. CycleFits' /\ BatchFits'
    BY <1>0, <2>1, <2>2, <2>3 DEF PublisherInv, CycleFits, BatchFits, registryVars
  <2>. QED
    BY <1>1, <2>1, <2>3, <2>4
<1>. QED
  BY <1>2, <1>3

(* Nothing is admitted.                                                     *)
LEMMA PassedOverKeeps ==
    ASSUME PublisherInv, cycle.pc = "publishing", NextReferendum,
           UNCHANGED <<registryVars, referenda, now, restarts, admissions>>
    PROVE  PublisherInv'
<1>1. /\ RegistryFits' /\ CycleFits' /\ BatchFits'
      /\ \/ cycle'.pc = "publishing" /\ cycle'.root = cycle.root
            /\ lastPublishedCount' = lastPublishedCount
         \/ lastPublishedCount' = Len(cycle.root)
  BY NextReferendumFits
<1>2. ReferendaFit'
  BY ReferendaKept DEF registryVars
<1>3. /\ Len(cycle.root) \in Nat /\ lastPublishedCount \in Nat
      /\ Len(cycle.root) > lastPublishedCount
  BY DEF PublisherInv, CycleFits, CycleShape, BatchFits
<1>4. \A t \in Targets : \A r \in Roots(t) : Len(r) \in Nat
  BY DEF PublisherInv, ReferendaFit, Roots
<1>5. Counted'
  BY <1>1, <1>3, <1>4 DEF PublisherInv, Counted, Roots, referenda
<1>6. Flagged'
  BY DEF PublisherInv, Flagged, UndersizedBatchFlagged
<1>. QED
  BY <1>1, <1>2, <1>5, <1>6 DEF PublisherInv

LEMMA MaxFits ==
    ASSUME NEW S, S \subseteq Nat, NEW m \in S, \A x \in S : x <= m
    PROVE  Max(S) \in S
<1>1. \A y \in S : m >= y
  OBVIOUS
<1>. QED
  BY <1>1 DEF Max

(* A root is admitted: its newcomers are counted against what the           *)
(* referendum has, which is at most what the publisher counts.              *)
LEMMA AdmittedKeeps ==
    ASSUME PublisherInv, cycle.pc = "publishing",
           PublishAllowed(Referenda[cycle.i], cycle.root),
           Admit(Referenda[cycle.i], cycle.root), NextReferendum,
           UNCHANGED <<registryVars, now, restarts>>
    PROVE  PublisherInv'
<1>. DEFINE t == Referenda[cycle.i]
            lens == {Len(r) : r \in Roots(t)}
            batch == [referendum |-> t, below |-> cycle.below, newcomers |-> Len(cycle.root) - Max(lens)]
<1>0. /\ t \in Targets /\ cycle.root \in Seq(Leaves) /\ cycle.root \in attested
      /\ cycle.below \in BOOLEAN /\ restarts \in Nat
      /\ Len(cycle.root) \in Nat /\ lastPublishedCount \in Nat
      /\ Len(cycle.root) > lastPublishedCount
      /\ cycle.below \/ Len(cycle.root) - lastPublishedCount >= MinBatchSize
  BY ListFits DEF PublisherInv, CycleFits, CycleShape, BatchFits
<1>1. /\ RegistryFits' /\ CycleFits' /\ BatchFits'
      /\ \/ cycle'.pc = "publishing" /\ cycle'.root = cycle.root
            /\ lastPublishedCount' = lastPublishedCount
         \/ lastPublishedCount' = Len(cycle.root)
  BY NextReferendumFits
<1>2. /\ accepted' = [accepted EXCEPT ![t] = @ \cup {cycle.root}] /\ revoked' = revoked
      /\ admissions' = Append(admissions, batch)
      /\ cycle.root \notin Roots(t)
  BY DEF Admit, PublishAllowed, Roots
<1>3. /\ accepted \in [Targets -> SUBSET Seq(Leaves)] /\ revoked \in [Targets -> SUBSET Seq(Leaves)]
      /\ \A u \in Targets : accepted[u] \subseteq attested \cup {InitialRoot}
      /\ \A u \in Targets : \E m \in Roots(u) : \A r \in Roots(u) : Len(r) <= Len(m)
      /\ \A u \in Targets : \A r \in Roots(u) : r \in Seq(Leaves) /\ Len(r) \in Nat
  BY DEF PublisherInv, ReferendaFit, Roots
<1>. HIDE DEF t
<1>4. /\ accepted' \in [Targets -> SUBSET Seq(Leaves)]
      /\ accepted'[t] = accepted[t] \cup {cycle.root}
      /\ \A u \in Targets : u # t => accepted'[u] = accepted[u]
  BY <1>0, <1>2, <1>3
<1>5. \A u \in Targets : Roots(u)' = IF u = t THEN Roots(u) \cup {cycle.root} ELSE Roots(u)
  BY <1>2, <1>4 DEF Roots
<1>6. ReferendaFit'
  <2>1. ASSUME NEW u \in Targets
        PROVE  \E m \in Roots(u)' : \A r \in Roots(u)' : Len(r) <= Len(m)
    <3>1. PICK m \in Roots(u) : \A r \in Roots(u) : Len(r) <= Len(m)
      BY <1>3
    <3>2. CASE u # t
      BY <1>5, <3>1, <3>2
    <3>3. CASE u = t
      <4>1. CASE Len(m) <= Len(cycle.root)
        <5>1. \A r \in Roots(u) : Len(r) <= Len(cycle.root)
          BY <1>0, <1>3, <3>1, <4>1
        <5>. QED
          BY <1>0, <1>5, <3>3, <5>1
      <4>2. CASE ~(Len(m) <= Len(cycle.root))
        <5>1. Len(cycle.root) <= Len(m)
          BY <1>0, <1>3, <4>2
        <5>. QED
          BY <1>5, <3>1, <3>3, <5>1
      <4>. QED
        BY <4>1, <4>2
    <3>. QED
      BY <3>2, <3>3
  <2>2. attested' = attested
    BY DEF registryVars
  <2>3. \A u \in Targets : accepted'[u] \subseteq attested \cup {InitialRoot}
    BY <1>0, <1>3, <1>4
  <2>. QED
    BY <1>2, <1>3, <1>4, <2>1, <2>2, <2>3 DEF ReferendaFit
<1>7. Counted'
  <2>. SUFFICES ASSUME restarts = 0, NEW u \in Targets, NEW r \in Roots(u)'
                PROVE  \/ Len(r) <= lastPublishedCount'
                       \/ cycle'.pc = "publishing" /\ r = cycle'.root
    BY DEF Counted
  <2>1. r = cycle.root \/ (r \in Roots(u) /\ Len(r) \in Nat)
    BY <1>3, <1>5
  <2>2. r = cycle.root \/ (Len(r) \in Nat /\ Len(r) <= lastPublishedCount)
    BY <2>1 DEF PublisherInv, Counted
  <2>. QED
    BY <1>0, <1>1, <2>2
<1>8. Flagged'
  <2>1. lens \subseteq Nat /\ \E m \in lens : \A x \in lens : x <= m
    BY <1>0, <1>3
  <2>2. Max(lens) \in lens /\ Max(lens) \in Nat
    <3>. HIDE DEF lens
    <3>. QED
      BY <2>1, MaxFits
  <2>3. restarts = 0 => Max(lens) <= lastPublishedCount
    <3>1. restarts = 0 => \A r \in Roots(t) : Len(r) <= lastPublishedCount
      BY <1>0, <1>2 DEF PublisherInv, Counted
    <3>. QED
      BY <2>2, <3>1
  <2>. HIDE DEF lens
  <2>4. batch \in Batches /\ batch.below = cycle.below
        /\ batch.newcomers = Len(cycle.root) - Max(lens)
    BY <1>0, <2>2 DEF Batches
  <2>5. restarts = 0 /\ batch.newcomers < MinBatchSize => batch.below
    BY <1>0, <2>2, <2>3, <2>4, PublisherAssumption
  <2>6. admissions \in Seq(Batches) /\ UndersizedBatchFlagged
    BY DEF PublisherInv, Flagged
  <2>. HIDE DEF batch
  <2>7. /\ admissions' \in Seq(Batches) /\ DOMAIN admissions' = 1..(Len(admissions) + 1)
        /\ \A i \in 1..Len(admissions) : admissions'[i] = admissions[i]
        /\ admissions'[Len(admissions) + 1] = batch
        /\ DOMAIN admissions = 1..Len(admissions) /\ Len(admissions) \in Nat
    BY <1>2, <2>4, <2>6
  <2>8. ASSUME NEW i \in DOMAIN admissions'
        PROVE  i \in DOMAIN admissions \/ admissions'[i] = batch
    BY <2>7
  <2>9. UndersizedBatchFlagged'
    BY <2>5, <2>6, <2>7, <2>8 DEF UndersizedBatchFlagged
  <2>. QED
    BY <2>7, <2>9 DEF Flagged
<1>. QED
  BY <1>1, <1>6, <1>7, <1>8 DEF PublisherInv

LEMMA PublishKeeps ==
    ASSUME PublisherInv, PublishToReferendum \/ PublishRefused \/ PublishFails
    PROVE  PublisherInv'
<1>1. CASE PublishToReferendum
  BY <1>1, AdmittedKeeps DEF PublishToReferendum, environment
<1>2. CASE PublishRefused
  BY <1>2, PassedOverKeeps DEF PublishRefused, environment
<1>3. CASE PublishFails
  BY <1>3, AdmittedKeeps, PassedOverKeeps DEF PublishFails, Fault
<1>. QED
  BY <1>1, <1>2, <1>3

-----------------------------------------------------------------------------
(* What happens meanwhile.                                                  *)

LEMMA RestartKeeps ==
    ASSUME PublisherInv, Restart PROVE PublisherInv'
<1>0. /\ cycle' = Idle /\ lastPublishedCount' = 0 /\ restarts' = restarts + 1
      /\ UNCHANGED <<registryVars, referenda, now, admissions>>
  BY DEF Restart
<1>1. RegistryFits' /\ ReferendaFit'
  BY <1>0, ReferendaKept DEF PublisherInv, RegistryFits, Beginning, registryVars
<1>2. CycleFits' /\ BatchFits'
  BY <1>0, IdleFits DEF PublisherInv, CycleFits, BatchFits
<1>3. restarts' # 0
  BY <1>0 DEF PublisherInv, CycleFits
<1>4. Counted' /\ Flagged'
  BY <1>0, <1>3 DEF PublisherInv, Counted, Flagged, UndersizedBatchFlagged
<1>. QED
  BY <1>1, <1>2, <1>4 DEF PublisherInv

(* The registry grows at its end only.                                      *)
LEMMA RegistryKeeps ==
    ASSUME PublisherInv, Issue \/ FreezeRegistry PROVE PublisherInv'
<1>0. UNCHANGED <<referenda, memory, cycle, environment, admissions, attested>>
  BY DEF Issue, FreezeRegistry, AddCredential, Freeze
<1>1. RegistryFits'
  <2>1. CASE credentials' = credentials
    BY <1>0, <2>1 DEF PublisherInv, RegistryFits, Beginning
  <2>2. ASSUME NEW leaf \in Leaves, credentials' = Append(credentials, leaf)
        PROVE  RegistryFits'
    <3>1. credentials \in Seq(Leaves)
      BY DEF PublisherInv, RegistryFits
    <3>2. /\ credentials' \in Seq(Leaves) /\ Len(credentials') = Len(credentials) + 1
          /\ Len(credentials) \in Nat
          /\ \A i \in 1..Len(credentials) : credentials'[i] = credentials[i]
      BY <2>2, <3>1
    <3>3. ASSUME NEW root \in attested PROVE Beginning(root)'
      <4>1. /\ root \in Seq(Leaves) /\ Len(root) <= Len(credentials) /\ Len(root) \in Nat
            /\ \A i \in 1..Len(root) : root[i] = credentials[i]
        BY DEF PublisherInv, RegistryFits, Beginning
      <4>. QED
        BY <3>2, <4>1 DEF Beginning
    <3>. QED
      BY <1>0, <3>2, <3>3 DEF RegistryFits
  <2>. QED
    BY <2>1, <2>2 DEF Issue, FreezeRegistry, AddCredential, Freeze
<1>2. ReferendaFit'
  BY <1>0, ReferendaKept
<1>3. CycleFits' /\ BatchFits'
  BY <1>0 DEF PublisherInv, CycleFits, BatchFits, memory, environment
<1>4. Counted' /\ Flagged'
  BY <1>0 DEF PublisherInv, Counted, Flagged, UndersizedBatchFlagged, Roots, memory, environment,
              referenda
<1>. QED
  BY <1>1, <1>2, <1>3, <1>4 DEF PublisherInv

LEMMA CloseOrTickKeeps ==
    ASSUME PublisherInv, Tick \/ \E t \in Targets : CloseEnrollment(t) PROVE PublisherInv'
<1>0. /\ UNCHANGED <<registryVars, accepted, revoked, memory, cycle, restarts, admissions>>
      /\ (now' = now \/ now' = now + 1)
  <2>1. CASE Tick
    BY <2>1 DEF Tick, referenda
  <2>2. ASSUME NEW t \in Targets, CloseEnrollment(t)
        PROVE  UNCHANGED <<registryVars, accepted, revoked, memory, cycle, environment, admissions>>
    BY <2>2 DEF CloseEnrollment
  <2>. QED
    BY <2>1, <2>2 DEF environment
<1>1. RegistryFits' /\ CycleFits' /\ BatchFits'
  BY <1>0 DEF PublisherInv, RegistryFits, Beginning, CycleFits, BatchFits, memory, registryVars
<1>2. ReferendaFit' /\ Counted' /\ Flagged'
  BY <1>0 DEF PublisherInv, ReferendaFit, Counted, Flagged, UndersizedBatchFlagged, Roots, memory,
              registryVars
<1>. QED
  BY <1>1, <1>2 DEF PublisherInv

(* A revoked root is still one the referendum has had.                      *)
LEMMA RevokeKeeps ==
    ASSUME PublisherInv, NEW t \in Targets, NEW root \in accepted[t], RevokeRoot(t, root)
    PROVE  PublisherInv'
<1>0. UNCHANGED <<registryVars, memory, cycle, environment, admissions>>
  BY DEF RevokeRoot
<1>1. RegistryFits' /\ CycleFits' /\ BatchFits' /\ Flagged'
  BY <1>0 DEF PublisherInv, RegistryFits, Beginning, CycleFits, BatchFits, Flagged,
              UndersizedBatchFlagged, memory, environment, registryVars
<1>2. /\ accepted \in [Targets -> SUBSET Seq(Leaves)] /\ revoked \in [Targets -> SUBSET Seq(Leaves)]
      /\ accepted' = [accepted EXCEPT ![t] = @ \ {root}]
      /\ revoked' = [revoked EXCEPT ![t] = @ \cup {root}]
      /\ root \in Seq(Leaves)
  BY DEF PublisherInv, ReferendaFit, RevokeRoot
<1>3. /\ accepted' \in [Targets -> SUBSET Seq(Leaves)]
      /\ revoked' \in [Targets -> SUBSET Seq(Leaves)]
      /\ \A u \in Targets : accepted'[u] \subseteq accepted[u]
  BY <1>2
<1>4. \A u \in Targets : Roots(u)' = Roots(u)
  BY <1>2 DEF Roots
<1>5. ReferendaFit'
  BY <1>0, <1>3, <1>4 DEF PublisherInv, ReferendaFit, registryVars
<1>6. Counted'
  BY <1>0, <1>4 DEF PublisherInv, Counted, memory, environment
<1>. QED
  BY <1>1, <1>5, <1>6 DEF PublisherInv

LEMMA PublisherNextInv == PublisherInv /\ [PublisherNext]_publisherVars => PublisherInv'
<1>. SUFFICES ASSUME PublisherInv, [PublisherNext]_publisherVars PROVE PublisherInv'
  OBVIOUS
<1>1. CASE UNCHANGED publisherVars
  BY <1>1 DEF publisherVars, registryVars, referenda, memory, environment, PublisherInv, RegistryFits,
       Beginning, CycleFits, ReferendaFit, Roots, BatchFits, Counted, Flagged,
       UndersizedBatchFlagged
<1>2. CASE CycleStep
  BY <1>2, BeginCycleKeeps, ReadRegistryKeeps, DeadlineKeeps, AttestKeeps, AttestEndsKeeps,
     PublishKeeps DEF CycleStep
<1>3. CASE ReadRegistryFails \/ ReadDeadlineFails \/ AttestFails \/ PublishFails
  BY <1>3, ReadRegistryFailsKeeps, DeadlineKeeps, AttestEndsKeeps, PublishKeeps
<1>4. CASE Restart \/ Issue \/ FreezeRegistry \/ Tick \/ \E t \in Targets : CloseEnrollment(t)
  BY <1>4, RestartKeeps, RegistryKeeps, CloseOrTickKeeps
<1>5. CASE \E t \in Targets : \E root \in accepted[t] : RevokeRoot(t, root)
  BY <1>5, RevokeKeeps
<1>. QED
  BY <1>1, <1>2, <1>3, <1>4, <1>5 DEF PublisherNext

LEMMA PublisherAlways == PublisherSpec => []PublisherInv
  BY PublisherInitInv, PublisherNextInv, PTL DEF PublisherSpec

(* runCycle never publishes what the registry has not attested, and what it *)
(* published stays a part of the registry, whatever it grows to.            *)
THEOREM PublishedIsAttested == PublisherSpec => []AdmittedRootsAttested
<1>1. ASSUME PublisherInv, NEW t \in Targets, NEW root \in accepted[t] \ {InitialRoot}
      PROVE  root \in attested /\ root = SubSeq(credentials, 1, Len(root))
  <2>1. root \in attested
    BY <1>1 DEF PublisherInv, ReferendaFit
  <2>2. /\ root \in Seq(Leaves) /\ Len(root) <= Len(credentials) /\ credentials \in Seq(Leaves)
        /\ \A i \in 1..Len(root) : root[i] = credentials[i]
    BY <1>1, <2>1 DEF PublisherInv, RegistryFits, Beginning
  <2>. QED
    BY <2>1, <2>2
<1>2. PublisherInv => AdmittedRootsAttested
  BY <1>1 DEF AdmittedRootsAttested
<1>. QED
  BY <1>2, PublisherAlways, PTL

(* A batch below minBatchSize that runCycle publishes is reported           *)
(* belowMinimum, for any minBatchSize and any referenda, until the process  *)
(* is restarted.                                                            *)
THEOREM UndersizedIsFlagged == PublisherSpec => []UndersizedBatchFlagged
<1>1. PublisherInv => UndersizedBatchFlagged
  BY DEF PublisherInv, Flagged
<1>. QED
  BY <1>1, PublisherAlways, PTL
=============================================================================
