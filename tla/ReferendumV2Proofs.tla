------------------------- MODULE ReferendumV2Proofs -------------------------
(***************************************************************************)
(* Theorems about ReferendumV2, for any number of voters, credentials and   *)
(* roots, any schedule the constructor accepts and a ballot tree of any     *)
(* depth.                                                                   *)
(***************************************************************************)
EXTENDS ReferendumV2, FiniteSetTheorems, TLAPS

(* The two fields that tell where the referendum stands agree, and nothing  *)
(* is opened before voting is over.                                         *)
PhaseFits ==
    /\ closed <=> phase # "COMMIT"
    /\ phase = "COMMIT" => revealed = {}

(* The nullifier of every voter who has a ballot in the tree is spent.      *)
NullifiersFit ==
    \A i \in DOMAIN electors : <<"vote-nullifier", electors[i].secret>> \in spent

(* The count, without the bound that follows from it.                       *)
CountFits ==
    /\ IsFiniteSet(revealed)
    /\ \A c \in Choices :
          tally[c] = Cardinality({r \in revealed : r.choice = c})
    /\ \A r \in revealed : BallotCommitted(r)

(* The inductive invariant.                                                 *)
SafeInv ==
    /\ TypeOK
    /\ PhaseFits
    /\ NullifiersFit
    /\ OneBallotPerVoter
    /\ ElectorateSound
    /\ CountFits
    /\ DeadlinesHonoured

-----------------------------------------------------------------------------
(* Facts about sets and sequences                                           *)

(* A set whose members all occur in a sequence is no larger than it.        *)
LEMMA OccurringBound ==
    ASSUME NEW T, NEW s \in Seq(T), NEW S, \A x \in S : \E i \in DOMAIN s : s[i] = x
    PROVE  Cardinality(S) <= Len(s)
<1> DEFINE R == {s[i] : i \in 1..Len(s)}
<1>1. Len(s) \in Nat /\ DOMAIN s = 1..Len(s)
  OBVIOUS
<1>2. IsFiniteSet(1..Len(s)) /\ Cardinality(1..Len(s)) = Len(s)
  <2>1. /\ IsFiniteSet(1..Len(s))
        /\ Cardinality(1..Len(s)) = IF 1 > Len(s) THEN 0 ELSE Len(s) - 1 + 1
    BY <1>1, FS_Interval
  <2> QED
    BY <2>1, <1>1
<1>3. s \in Surjection(1..Len(s), R)
  <2>1. s \in [1..Len(s) -> R]
    BY <1>1
  <2> QED
    BY <2>1 DEF Surjection
<1>4. IsFiniteSet(R) /\ Cardinality(R) <= Len(s)
  BY <1>2, <1>3, FS_Surjection
<1>5. S \in SUBSET R
  BY <1>1
<1>6. IsFiniteSet(S) /\ Cardinality(S) <= Cardinality(R)
  BY <1>4, <1>5, FS_Subset
<1>7. Cardinality(S) \in Nat /\ Cardinality(R) \in Nat
  BY <1>4, <1>6, FS_CardinalityType
<1> QED
  BY <1>1, <1>4, <1>6, <1>7

(* Opening one more commitment adds one to the count of its choice.         *)
LEMMA OpenOne ==
    ASSUME NEW S, IsFiniteSet(S), NEW k, k \notin S, NEW c,
           NEW Before, Before = {r \in S : r.choice = c},
           NEW After, After = {r \in S \cup {k} : r.choice = c}
    PROVE  Cardinality(After) =
             IF k.choice = c THEN Cardinality(Before) + 1 ELSE Cardinality(Before)
<1>1. IsFiniteSet(Before)
  <2>1. Before \in SUBSET S
    OBVIOUS
  <2> QED
    BY <2>1, FS_Subset
<1>2. CASE k.choice = c
  <2>1. After = Before \cup {k} /\ k \notin Before
    BY <1>2
  <2>2. Cardinality(Before \cup {k}) = Cardinality(Before) + 1
    BY <1>1, <2>1, FS_AddElement
  <2> QED
    BY <1>2, <2>1, <2>2
<1>3. CASE k.choice # c
  <2>1. After = Before
    BY <1>3
  <2> QED
    BY <1>3, <2>1
<1> QED
  BY <1>2, <1>3

-----------------------------------------------------------------------------
(* The invariant holds when the constructor has run                         *)

LEMMA InitSafe == Init => SafeInv
<1> SUFFICES ASSUME Init PROVE SafeInv
  OBVIOUS
<1> USE CredentialsAssumption, BoundAssumption
<1>1. TypeOK
  <2>1. schedule \in Schedules
    BY DEF Init
  <2>2. tally \in [Choices -> Nat]
    BY DEF Init
  <2>3. ballots \in Seq(Commitments) /\ Len(ballots) <= TreeCapacity
    BY DEF Init
  <2>4. electors \in Seq([secret : VoterSecrets, root : Roots])
    BY DEF Init
  <2>5. now \in 0..MaxTime /\ issuedVotes \in Nat
    BY DEF Init
  <2>6. accepted \subseteq Roots /\ phase \in Phases
    BY DEF Init, Phases
  <2> QED
    BY <2>1, <2>2, <2>3, <2>4, <2>5, <2>6 DEF Init, TypeOK
<1>2. PhaseFits
  BY DEF Init, PhaseFits
<1>3. NullifiersFit /\ OneBallotPerVoter
  BY DEF Init, NullifiersFit, OneBallotPerVoter
<1>4. ElectorateSound
  BY DEF Init, ElectorateSound
<1>5. CountFits
  <2>1. IsFiniteSet({}) /\ Cardinality({}) = 0
    BY FS_EmptySet
  <2>2. \A c \in Choices : {r \in revealed : r.choice = c} = {}
    BY DEF Init
  <2> QED
    BY <2>1, <2>2 DEF Init, CountFits
<1>6. DeadlinesHonoured
  BY DEF Init, DeadlinesHonoured
<1> QED
  BY <1>1, <1>2, <1>3, <1>4, <1>5, <1>6 DEF SafeInv

-----------------------------------------------------------------------------
(* Every circuit preserves it                                               *)

LEMMA CastVoteSafe ==
    ASSUME SafeInv,
           NEW secret \in VoterSecrets, NEW credential \in Credentials,
           NEW root \in Roots, NEW choice \in Choices, NEW salt \in Salts,
           CastVote(secret, credential, root, choice, salt)
    PROVE  SafeInv'
<1> DEFINE ballot  == [choice |-> choice, salt |-> salt]
           elector == [secret |-> secret, root |-> root]
<1> USE DEF SafeInv
<1>1. /\ ballots \in Seq(Commitments) /\ ballot \in Commitments
      /\ electors \in Seq([secret : VoterSecrets, root : Roots])
      /\ elector \in [secret : VoterSecrets, root : Roots]
      /\ ballots' = Append(ballots, ballot)
      /\ electors' = Append(electors, elector)
  BY DEF TypeOK, Commitments, CastVote
<1>2. /\ Len(ballots') = Len(ballots) + 1
      /\ \A i \in DOMAIN ballots : i \in DOMAIN ballots' /\ ballots'[i] = ballots[i]
  BY <1>1
<1>3. /\ Len(electors') = Len(electors) + 1
      /\ DOMAIN electors' = DOMAIN electors \cup {Len(electors) + 1}
      /\ \A i \in DOMAIN electors : electors'[i] = electors[i]
      /\ electors'[Len(electors) + 1] = elector
      /\ Len(electors) + 1 \notin DOMAIN electors
  BY <1>1
<1>4. TypeOK'
  <2>1. Nullifier(secret, credential) \in Nullifiers
    BY DEF Nullifiers
  <2>2. spent' \subseteq Nullifiers
    BY <2>1 DEF CastVote, TypeOK
  <2>3. ballots' \in Seq(Commitments) /\ electors' \in Seq([secret : VoterSecrets, root : Roots])
    BY <1>1
  <2>4. Len(ballots') <= TreeCapacity
    BY <1>1, <1>2, BoundAssumption DEF CastVote, TypeOK, BallotTreeFull
  <2>5. issuedVotes' \in Nat
    BY DEF CastVote, TypeOK
  <2> QED
    BY <2>2, <2>3, <2>4, <2>5 DEF CastVote, TypeOK
<1>5. PhaseFits'
  BY DEF CastVote, PhaseFits
<1>6. \A i \in DOMAIN electors : electors[i].secret # secret
  BY DEF CastVote, NullifiersFit, Nullifier
<1>7. NullifiersFit'
  BY <1>3 DEF CastVote, NullifiersFit, Nullifier
<1>8. OneBallotPerVoter'
  <2>1. \A i, j \in DOMAIN electors' : electors'[i].secret = electors'[j].secret => i = j
    BY <1>3, <1>6 DEF OneBallotPerVoter
  <2>2. Len(electors') = Len(ballots') /\ issuedVotes' = Len(ballots')
    BY <1>2, <1>3 DEF OneBallotPerVoter, CastVote
  <2> QED
    BY <2>1, <2>2 DEF OneBallotPerVoter
<1>9. ElectorateSound'
  BY DEF CastVote, ElectorateSound
<1>10. CountFits'
  <2>1. revealed' = revealed /\ tally' = tally
    BY DEF CastVote
  <2>2. \A r \in revealed : BallotCommitted(r)'
    BY <1>2 DEF CountFits, BallotCommitted
  <2> QED
    BY <2>1, <2>2 DEF CountFits
<1>11. DeadlinesHonoured'
  BY DEF CastVote, DeadlinesHonoured
<1> QED
  BY <1>4, <1>5, <1>7, <1>8, <1>9, <1>10, <1>11

(* The circuits of enrollment and of the phases touch neither the ballots   *)
(* nor the count.                                                           *)
LEMMA CountUntouched ==
    ASSUME SafeInv, UNCHANGED <<ballots, spent, revealed, tally, issuedVotes, electors>>
    PROVE  /\ NullifiersFit'
           /\ OneBallotPerVoter'
           /\ CountFits'
<1> USE DEF SafeInv
<1>1. NullifiersFit'
  BY DEF NullifiersFit
<1>2. OneBallotPerVoter'
  BY DEF OneBallotPerVoter
<1>3. CountFits'
  BY DEF CountFits, BallotCommitted
<1> QED
  BY <1>1, <1>2, <1>3

LEMMA PublishSafe ==
    ASSUME SafeInv, NEW secret \in RoleSecrets, NEW root \in Roots,
           PublishCredentialRoot(secret, root)
    PROVE  SafeInv'
<1> USE DEF SafeInv
<1>1. TypeOK'
  BY DEF PublishCredentialRoot, TypeOK
<1>2. PhaseFits' /\ DeadlinesHonoured'
  BY DEF PublishCredentialRoot, PhaseFits, DeadlinesHonoured
<1>3. ElectorateSound'
  BY DEF PublishCredentialRoot, PublishAllowed, ElectorateSound
<1> QED
  BY <1>1, <1>2, <1>3, CountUntouched DEF PublishCredentialRoot

LEMMA RevokeSafe ==
    ASSUME SafeInv, NEW secret \in RoleSecrets, NEW root \in Roots,
           RevokeCredentialRoot(secret, root)
    PROVE  SafeInv'
<1> USE DEF SafeInv
<1>1. TypeOK'
  BY DEF RevokeCredentialRoot, TypeOK
<1>2. PhaseFits' /\ DeadlinesHonoured'
  BY DEF RevokeCredentialRoot, PhaseFits, DeadlinesHonoured
<1>3. ElectorateSound'
  BY DEF RevokeCredentialRoot, RevokeAllowed, ElectorateSound
<1> QED
  BY <1>1, <1>2, <1>3, CountUntouched DEF RevokeCredentialRoot

LEMMA CloseEnrollmentSafe ==
    ASSUME SafeInv, NEW secret \in RoleSecrets, CloseEnrollment(secret)
    PROVE  SafeInv'
<1> USE DEF SafeInv
<1>1. TypeOK'
  BY DEF CloseEnrollment, TypeOK
<1>2. PhaseFits' /\ DeadlinesHonoured' /\ ElectorateSound'
  BY DEF CloseEnrollment, PhaseFits, DeadlinesHonoured, ElectorateSound
<1> QED
  BY <1>1, <1>2, CountUntouched DEF CloseEnrollment

LEMMA CloseVoteSafe ==
    ASSUME SafeInv, CloseVote
    PROVE  SafeInv'
<1> USE DEF SafeInv
<1>1. TypeOK'
  BY DEF CloseVote, TypeOK, Phases
<1>2. PhaseFits' /\ ElectorateSound'
  BY DEF CloseVote, PhaseFits, ElectorateSound
<1>3. DeadlinesHonoured'
  BY DEF CloseVote, DeadlinesHonoured, BlockTimeGte
<1> QED
  BY <1>1, <1>2, <1>3, CountUntouched DEF CloseVote

LEMMA RevealVoteSafe ==
    ASSUME SafeInv, NEW choice \in Choices, NEW salt \in Salts,
           RevealVote(choice, salt)
    PROVE  SafeInv'
<1> DEFINE k == [choice |-> choice, salt |-> salt]
<1> USE DEF SafeInv
<1>1. /\ phase = "REVEAL" /\ BallotCommitted(k) /\ k \notin revealed
      /\ revealed' = revealed \cup {k}
      /\ tally' = [tally EXCEPT ![choice] = @ + 1]
      /\ UNCHANGED <<schedule, accepted, revoked, enrollmentClosed, ballots,
                     spent, phase, closed, issuedVotes, now, electors>>
  BY DEF RevealVote, RevealAllowed
<1>2. k \in Commitments /\ k.choice = choice
  BY DEF Commitments
<1>3. TypeOK'
  <2>1. tally' \in [Choices -> Nat] /\ revealed' \subseteq Commitments
    BY <1>1, <1>2 DEF TypeOK
  <2> QED
    BY <1>1, <2>1 DEF TypeOK
<1>4. PhaseFits' /\ DeadlinesHonoured' /\ ElectorateSound'
  BY <1>1 DEF PhaseFits, DeadlinesHonoured, ElectorateSound
<1>5. NullifiersFit' /\ OneBallotPerVoter'
  BY <1>1 DEF NullifiersFit, OneBallotPerVoter
<1>6. CountFits'
  <2>1. IsFiniteSet(revealed')
    BY <1>1, FS_AddElement DEF CountFits
  <2>2. ASSUME NEW c \in Choices
        PROVE  tally'[c] = Cardinality({r \in revealed' : r.choice = c})
    <3>0. IsFiniteSet(revealed) /\ k \notin revealed
      BY <1>1 DEF CountFits
    <3> DEFINE before == {r \in revealed : r.choice = c}
               after  == {r \in revealed \cup {k} : r.choice = c}
    <3>1. Cardinality(after) =
            IF k.choice = c THEN Cardinality(before) + 1 ELSE Cardinality(before)
      <4>1. /\ before = {r \in revealed : r.choice = c}
            /\ after = {r \in revealed \cup {k} : r.choice = c}
        OBVIOUS
      <4> HIDE DEF k, before, after
      <4> QED
        BY <3>0, <4>1, OpenOne
    <3>2. tally'[c] = IF c = choice THEN tally[c] + 1 ELSE tally[c]
      BY <1>1 DEF TypeOK
    <3>3. tally[c] = Cardinality({r \in revealed : r.choice = c})
      BY DEF CountFits
    <3> QED
      BY <1>1, <1>2, <3>1, <3>2, <3>3
  <2>3. \A r \in revealed' : BallotCommitted(r)'
    BY <1>1 DEF CountFits, BallotCommitted
  <2> QED
    BY <2>1, <2>2, <2>3 DEF CountFits
<1> QED
  BY <1>3, <1>4, <1>5, <1>6

LEMMA FinalizeVoteSafe ==
    ASSUME SafeInv, FinalizeVote
    PROVE  SafeInv'
<1> USE DEF SafeInv
<1>1. TypeOK'
  BY DEF FinalizeVote, TypeOK, Phases
<1>2. PhaseFits' /\ ElectorateSound'
  BY DEF FinalizeVote, FinalizeAllowed, PhaseFits, ElectorateSound
<1>3. DeadlinesHonoured'
  BY DEF FinalizeVote, FinalizeAllowed, DeadlinesHonoured, BlockTimeGte
<1> QED
  BY <1>1, <1>2, <1>3, CountUntouched DEF FinalizeVote

LEMMA TickSafe ==
    ASSUME SafeInv, Tick
    PROVE  SafeInv'
<1> USE DEF SafeInv
<1>1. TypeOK'
  BY BoundAssumption DEF Tick, ledger, TypeOK
<1>2. PhaseFits' /\ ElectorateSound'
  BY DEF Tick, ledger, PhaseFits, ElectorateSound
<1>3. DeadlinesHonoured'
  BY DEF Tick, ledger, DeadlinesHonoured, TypeOK, Schedules
<1> QED
  BY <1>1, <1>2, <1>3, CountUntouched DEF Tick, ledger

LEMMA StepSafe == SafeInv /\ [Next]_vars => SafeInv'
<1> SUFFICES ASSUME SafeInv, [Next]_vars PROVE SafeInv'
  OBVIOUS
<1>1. CASE Next
  BY <1>1, CastVoteSafe, PublishSafe, RevokeSafe, CloseEnrollmentSafe, CloseVoteSafe,
     RevealVoteSafe, FinalizeVoteSafe, TickSafe DEF Next
<1>2. CASE UNCHANGED vars
  <2>1. TypeOK' /\ PhaseFits' /\ ElectorateSound' /\ DeadlinesHonoured'
    BY <1>2 DEF vars, ledger, SafeInv, TypeOK, PhaseFits, ElectorateSound, DeadlinesHonoured
  <2> QED
    BY <1>2, <2>1, CountUntouched DEF vars, ledger, SafeInv
<1> QED
  BY <1>1, <1>2

LEMMA AlwaysSafe == Spec => []SafeInv
  BY InitSafe, StepSafe, PTL DEF Spec

-----------------------------------------------------------------------------
(* The theorems                                                             *)

(* Every field of the ledger keeps its type and the ballot tree its depth.  *)
THEOREM TypeCorrect == Spec => []TypeOK
<1>1. SafeInv => TypeOK
  BY DEF SafeInv
<1> QED
  BY <1>1, AlwaysSafe, PTL

(* No secret ever casts two ballots, whatever credentials and roots it can  *)
(* be proved with, and issuedVotes is the number of ballots: castVote's     *)
(* nullifier is enough.                                                     *)
THEOREM OneVoterOneBallot == Spec => []OneBallotPerVoter
<1>1. SafeInv => OneBallotPerVoter
  BY DEF SafeInv
<1> QED
  BY <1>1, AlwaysSafe, PTL

(* Publisher and organizer together never make a root both accepted and     *)
(* revoked, and never leave the referendum without an electorate.           *)
THEOREM ElectorateStaysSound == Spec => []ElectorateSound
<1>1. SafeInv => ElectorateSound
  BY DEF SafeInv
<1> QED
  BY <1>1, AlwaysSafe, PTL

(* The public tally is exactly the count of the opened ballots, all of them *)
(* cast and none counted twice, and stays within the number of votes.       *)
THEOREM TallyExact == Spec => []TallyIsOfCastBallots
<1>1. SafeInv => TallyIsOfCastBallots
  <2> SUFFICES ASSUME SafeInv PROVE TallyIsOfCastBallots
    OBVIOUS
  <2>1. ballots \in Seq(Commitments) /\ issuedVotes = Len(ballots)
    BY DEF SafeInv, TypeOK, OneBallotPerVoter
  <2>2. \A r \in revealed : \E i \in DOMAIN ballots : ballots[i] = r
    BY DEF SafeInv, CountFits, BallotCommitted
  <2>3. Cardinality(revealed) <= Len(ballots)
    BY <2>1, <2>2, OccurringBound
  <2> QED
    BY <2>1, <2>3 DEF SafeInv, CountFits, TallyIsOfCastBallots
<1> QED
  BY <1>1, AlwaysSafe, PTL

(* Nobody, the organizer included, ends the voting or the count early.      *)
THEOREM NoEarlyEnd == Spec => []DeadlinesHonoured
<1>1. SafeInv => DeadlinesHonoured
  BY DEF SafeInv
<1> QED
  BY <1>1, AlwaysSafe, PTL

(* No ballot is cast once one has been opened: castVote and revealVote      *)
(* never overlap.                                                           *)
THEOREM NoPeeking == Spec => NoVoteAfterReveal
<1>1. SafeInv /\ [Next]_vars => [ballots' # ballots => revealed = {}]_vars
  <2> SUFFICES ASSUME SafeInv, [Next]_vars, ballots' # ballots
               PROVE  revealed = {}
    OBVIOUS
  <2>1. PICK secret \in VoterSecrets, credential \in Credentials, root \in Roots,
             choice \in Choices, salt \in Salts :
               CastVote(secret, credential, root, choice, salt)
    BY DEF Next, vars, ledger, PublishCredentialRoot, RevokeCredentialRoot, CloseEnrollment,
           CloseVote, RevealVote, FinalizeVote, Tick
  <2> QED
    BY <2>1 DEF CastVote, SafeInv, PhaseFits
<1> QED
  BY <1>1, AlwaysSafe, PTL DEF Spec, NoVoteAfterReveal

(* Once finalizeVote has run, phase, tally and ballots never change again.  *)
THEOREM ResultStays == Spec => ResultIsFinal
<1>1. SafeInv /\ [Next]_vars =>
        [phase = "FINALIZED" =>
           phase' = "FINALIZED" /\ tally' = tally /\ ballots' = ballots]_vars
  BY DEF Next, vars, ledger, CastVote, PublishCredentialRoot, RevokeCredentialRoot,
         CloseEnrollment, CloseVote, RevealVote, RevealAllowed, FinalizeVote,
         FinalizeAllowed, Tick
<1> QED
  BY <1>1, AlwaysSafe, PTL DEF Spec, ResultIsFinal

(* A revoked root admits nobody any more, not even with a proof made before *)
(* the revocation.                                                          *)
THEOREM RevocationWorks == Spec => RevokedAdmitsNobody
<1>1. SafeInv /\ [Next]_vars =>
        [electors' # electors => electors'[Len(electors')].root \notin revoked]_vars
  <2> SUFFICES ASSUME SafeInv, [Next]_vars, electors' # electors
               PROVE  electors'[Len(electors')].root \notin revoked
    OBVIOUS
  <2>1. PICK secret \in VoterSecrets, credential \in Credentials, root \in Roots,
             choice \in Choices, salt \in Salts :
               CastVote(secret, credential, root, choice, salt)
    BY DEF Next, vars, ledger, PublishCredentialRoot, RevokeCredentialRoot, CloseEnrollment,
           CloseVote, RevealVote, FinalizeVote, Tick
  <2>2. root \in accepted /\ electors' = Append(electors, [secret |-> secret, root |-> root])
    BY <2>1 DEF CastVote, ProvesMembership
  <2>3. electors \in Seq([secret : VoterSecrets, root : Roots])
    BY DEF SafeInv, TypeOK
  <2>4. electors'[Len(electors')].root = root
    BY <2>2, <2>3
  <2> QED
    BY <2>2, <2>4 DEF SafeInv, ElectorateSound
<1> QED
  BY <1>1, AlwaysSafe, PTL DEF Spec, RevokedAdmitsNobody

(* Nobody is admitted or removed after the enrollment deadline.             *)
THEOREM ElectorateStaysSettled == Spec => ElectorateSettles
<1>1. [Next]_vars => [accepted' # accepted => now < schedule.enrollmentCloses]_vars
  BY DEF Next, vars, ledger, CastVote, PublishCredentialRoot, PublishAllowed,
         RevokeCredentialRoot, RevokeAllowed, BlockTimeLt, CloseEnrollment, CloseVote,
         RevealVote, FinalizeVote, Tick
<1> QED
  BY <1>1, PTL DEF Spec, ElectorateSettles
=============================================================================
