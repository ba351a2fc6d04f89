---------------------------- MODULE ReferendumV2 ----------------------------
(***************************************************************************)
(* The commit-reveal referendum contract,                                   *)
(* contracts/referendum-v2/referendum-v2.compact.                           *)
(*                                                                          *)
(* A circuit is one transaction: its assertions are evaluated against the   *)
(* ledger the transaction is applied to, and it changes the ledger in one   *)
(* step or not at all.  Circuits are called by anybody, in any order; block *)
(* time only grows.                                                         *)
(*                                                                          *)
(* Hashes and commitments are collision free and are modelled by the values *)
(* they are taken of: a Merkle root by a member of Roots with the leaves of *)
(* the tree behind it, a holder binding by the secret it binds, a ballot    *)
(* commitment by its opening.                                               *)
(***************************************************************************)
EXTENDS Naturals, Sequences, FiniteSets

CONSTANTS
    VoterSecrets, \* voterSecret() of every person who may try to vote
    RoleSecrets,  \* organizerSecret(), rootPublisherSecret() in use
    Credentials,  \* records [holder, country, ageClass, assurance, epoch,
                  \*          validUntil, blind], what a leaf commits to
    Roots,        \* Merkle roots of credential trees, forged ones included
    Members,      \* the credentials of the tree behind a root
    InitialRoot,  \* initialRootValue of the constructor
    Salts,        \* voteSalt()
    OrganizerKey, RootPublisherKey,  \* role keys of the constructor
    Policy,       \* [countryEnabled, country, adult, assurance, epoch, validity]
    TreeCapacity, \* leaves of the ballot tree, 2^16 in the code
    MaxTime       \* bound on block time and on the schedule

Choices == {"YES", "NO", "ABSTAIN"}
Phases  == {"COMMIT", "REVEAL", "FINALIZED"}

(* A role key is the hash of a role's domain string and a secret.           *)
RoleKey(domain, secret) == <<domain, secret>>

(* A ballot commitment binds choice and salt, not the voter; the event is   *)
(* the one of this contract.                                                *)
Commitments == [choice : Choices, salt : Salts]

ASSUME CredentialsAssumption ==
    /\ \A c \in Credentials : c.holder \in VoterSecrets
    /\ Members \in [Roots -> SUBSET Credentials]
    /\ InitialRoot \in Roots

ASSUME BoundAssumption == TreeCapacity \in Nat \ {0} /\ MaxTime \in Nat

(* The constructor refuses equal role keys.                                 *)
ASSUME RolesAssumption == OrganizerKey # RootPublisherKey

VARIABLES
    schedule,    \* the sealed deadlines
    accepted,    \* acceptedCredentialRoots
    revoked,     \* revokedCredentialRoots
    enrollmentClosed,
    ballots,     \* ballotCommitments, in the order of insertion
    spent,       \* spentVoteNullifiers
    revealed,    \* revealedCommitments
    tally, phase, closed, issuedVotes,
    now,         \* block time
    electors     \* history: who cast each ballot, under which root

ledger == <<schedule, accepted, revoked, enrollmentClosed, ballots, spent,
            revealed, tally, phase, closed, issuedVotes>>
vars == <<ledger, now, electors>>

-----------------------------------------------------------------------------

BlockTimeGte(t) == now >= t
BlockTimeLt(t)  == now < t

(* What the constructor asserts of the schedule it seals.                   *)
ScheduleAccepted(s) ==
    /\ s.opens <= s.enrollmentCloses
    /\ s.enrollmentCloses <= s.closes
    /\ s.opens < s.closes
    /\ s.closes < s.revealCloses

Schedules == [opens : 0..MaxTime, enrollmentCloses : 0..MaxTime,
              closes : 0..MaxTime, revealCloses : 0..MaxTime]

(* The constructor.                                                         *)
Init ==
    /\ schedule \in {s \in Schedules : ScheduleAccepted(s)}
    /\ accepted = {InitialRoot}
    /\ revoked = {}
    /\ enrollmentClosed = FALSE
    /\ ballots = << >>
    /\ spent = {}
    /\ revealed = {}
    /\ tally = [c \in Choices |-> 0]
    /\ phase = "COMMIT"
    /\ closed = FALSE
    /\ issuedVotes = 0
    /\ now = 0
    /\ electors = << >>

-----------------------------------------------------------------------------
(* castVote                                                                 *)

PolicySatisfied(credential) ==
    /\ credential.epoch = Policy.epoch
    /\ credential.validUntil >= Policy.validity
    /\ Policy.countryEnabled => credential.country = Policy.country
    /\ Policy.adult => credential.ageClass = 2
    /\ Policy.assurance > 0 => credential.assurance >= Policy.assurance

(* The membership proof: the leaf of the path is this credential, and the   *)
(* root the path leads to is one the referendum accepts.                    *)
ProvesMembership(credential, root) ==
    /\ credential \in Members[root]
    /\ root \in accepted

(* Mutant: the nullifier is derived from the credential's leaf.             *)
NullifierOfLeaf(secret, credential) == <<"vote-nullifier", credential>>

(* The nullifier hashes the voter's secret and the event.                   *)
Nullifier(secret, credential) == <<"vote-nullifier", secret>>

Nullifiers == {Nullifier(s, c) : s \in VoterSecrets, c \in Credentials}

(* secureRandomBytes(32): no two votes draw the same salt.                  *)
FreshSalt(salt) == \A i \in DOMAIN ballots : ballots[i].salt # salt

(* ballotCommitments.isFull()                                               *)
BallotTreeFull == Len(ballots) = TreeCapacity

CastVote(secret, credential, root, choice, salt) ==
    /\ phase = "COMMIT"
    /\ ~closed
    /\ BlockTimeGte(schedule.opens)
    /\ BlockTimeLt(schedule.closes)
    /\ credential.holder = secret
    /\ ProvesMembership(credential, root)
    /\ PolicySatisfied(credential)
    /\ Nullifier(secret, credential) \notin spent
    /\ ~BallotTreeFull
    /\ FreshSalt(salt)
    /\ spent' = spent \cup {Nullifier(secret, credential)}
    /\ ballots' = Append(ballots, [choice |-> choice, salt |-> salt])
    /\ issuedVotes' = issuedVotes + 1
    /\ electors' = Append(electors, [secret |-> secret, root |-> root])
    /\ UNCHANGED <<schedule, accepted, revoked, enrollmentClosed, revealed,
                   tally, phase, closed, now>>

-----------------------------------------------------------------------------
(* Enrollment                                                               *)

(* What publishCredentialRoot asserts of the ledger.                        *)
PublishAllowed(root) ==
    /\ phase = "COMMIT"
    /\ ~closed
    /\ ~enrollmentClosed
    /\ BlockTimeLt(schedule.enrollmentCloses)
    /\ root \notin accepted
    /\ root \notin revoked

PublishCredentialRoot(secret, root) ==
    /\ RoleKey("root-publisher", secret) = RootPublisherKey
    /\ PublishAllowed(root)
    /\ accepted' = accepted \cup {root}
    /\ UNCHANGED <<schedule, revoked, enrollmentClosed, ballots, spent,
                   revealed, tally, phase, closed, issuedVotes, now, electors>>

(* Mutant: revocation follows the closeEnrollment flag, not the deadline.   *)
RevokeAllowedByFlag(root) ==
    /\ ~enrollmentClosed
    /\ root \in accepted
    /\ accepted \ {root} # {}

(* What revokeCredentialRoot asserts: the deadline alone, and never the     *)
(* last root.                                                               *)
RevokeAllowed(root) ==
    /\ BlockTimeLt(schedule.enrollmentCloses)
    /\ root \in accepted
    /\ accepted \ {root} # {}

RevokeCredentialRoot(secret, root) ==
    /\ RoleKey("organizer", secret) = OrganizerKey
    /\ RevokeAllowed(root)
    /\ revoked' = revoked \cup {root}
    /\ accepted' = accepted \ {root}
    /\ UNCHANGED <<schedule, enrollmentClosed, ballots, spent, revealed,
                   tally, phase, closed, issuedVotes, now, electors>>

CloseEnrollment(secret) ==
    /\ RoleKey("organizer", secret) = OrganizerKey
    /\ ~enrollmentClosed
    /\ enrollmentClosed' = TRUE
    /\ UNCHANGED <<schedule, accepted, revoked, ballots, spent, revealed,
                   tally, phase, closed, issuedVotes, now, electors>>

-----------------------------------------------------------------------------
(* Closing and counting                                                     *)

(* Permissionless.                                                          *)
CloseVote ==
    /\ phase = "COMMIT"
    /\ ~closed
    /\ BlockTimeGte(schedule.closes)
    /\ phase' = "REVEAL"
    /\ closed' = TRUE
    /\ UNCHANGED <<schedule, accepted, revoked, enrollmentClosed, ballots,
                   spent, revealed, tally, issuedVotes, now, electors>>

(* The reveal path leads to some root the ballot tree has had, so the       *)
(* commitment is one of the ballots.                                        *)
BallotCommitted(commitment) ==
    \E i \in DOMAIN ballots : ballots[i] = commitment

(* Mutant: revealed commitments are not looked up.                          *)
RevealAllowedTwice(commitment) ==
    phase = "REVEAL" /\ closed /\ BallotCommitted(commitment)

(* Mutant: ballots may be opened while others are still cast.               *)
RevealAllowedEarly(commitment) ==
    phase # "FINALIZED" /\ BallotCommitted(commitment)
        /\ commitment \notin revealed

(* What revealVote asserts: nothing about the time.                         *)
RevealAllowed(commitment) ==
    /\ phase = "REVEAL"
    /\ closed
    /\ BallotCommitted(commitment)
    /\ commitment \notin revealed

(* The tally is a Uint<32>; it cannot overflow as the ballot tree holds at  *)
(* most 2^16 leaves and each is counted once.                               *)
RevealVote(choice, salt) ==
    LET commitment == [choice |-> choice, salt |-> salt] IN
    /\ RevealAllowed(commitment)
    /\ revealed' = revealed \cup {commitment}
    /\ tally' = [tally EXCEPT ![choice] = @ + 1]
    /\ UNCHANGED <<schedule, accepted, revoked, enrollmentClosed, ballots,
                   spent, phase, closed, issuedVotes, now, electors>>

(* Mutant: the count may end only when every ballot has been opened.        *)
FinalizeAllowedWhole ==
    /\ Cardinality(revealed) = issuedVotes
    /\ phase = "REVEAL" /\ closed /\ BlockTimeGte(schedule.revealCloses)

(* What finalizeVote asserts: permissionless.                               *)
FinalizeAllowed ==
    /\ phase = "REVEAL"
    /\ closed
    /\ BlockTimeGte(schedule.revealCloses)

FinalizeVote ==
    /\ FinalizeAllowed
    /\ phase' = "FINALIZED"
    /\ UNCHANGED <<schedule, accepted, revoked, enrollmentClosed, ballots,
                   spent, revealed, tally, closed, issuedVotes, now, electors>>

(* Blocks are produced.                                                     *)
Tick ==
    /\ now < MaxTime
    /\ now' = now + 1
    /\ UNCHANGED <<ledger, electors>>

-----------------------------------------------------------------------------

Next ==
    \/ \E secret \in VoterSecrets, credential \in Credentials, root \in Roots,
          choice \in Choices, salt \in Salts :
            CastVote(secret, credential, root, choice, salt)
    \/ \E secret \in RoleSecrets, root \in Roots :
            PublishCredentialRoot(secret, root)
    \/ \E secret \in RoleSecrets, root \in Roots :
            RevokeCredentialRoot(secret, root)
    \/ \E secret \in RoleSecrets : CloseEnrollment(secret)
    \/ CloseVote
    \/ \E choice \in Choices, salt \in Salts : RevealVote(choice, salt)
    \/ FinalizeVote
    \/ Tick

Spec == Init /\ [][Next]_vars

(* Blocks keep coming, and closeVote and finalizeVote need nobody's key, so *)
(* somebody who wants the result can call them.                             *)
FairSpec == Spec /\ WF_vars(Tick) /\ WF_vars(CloseVote) /\ WF_vars(FinalizeVote)

-----------------------------------------------------------------------------
(* Properties                                                               *)

(* Every field keeps its ledger type, and the ballot tree its depth.        *)
TypeOK ==
    /\ schedule \in Schedules
    /\ accepted \subseteq Roots
    /\ revoked \subseteq Roots
    /\ enrollmentClosed \in BOOLEAN
    /\ ballots \in Seq(Commitments) /\ Len(ballots) <= TreeCapacity
    /\ spent \subseteq Nullifiers
    /\ revealed \subseteq Commitments
    /\ tally \in [Choices -> Nat]
    /\ phase \in Phases
    /\ closed \in BOOLEAN
    /\ issuedVotes \in Nat
    /\ now \in 0..MaxTime
    /\ electors \in Seq([secret : VoterSecrets, root : Roots])

(* However many credentials a voter's secret is bound to, and under however *)
(* many accepted roots they can be proved, it casts one ballot (castVote's  *)
(* nullifier), and issuedVotes counts exactly the ballots of the tree.      *)
OneBallotPerVoter ==
    /\ \A i, j \in DOMAIN electors :
          electors[i].secret = electors[j].secret => i = j
    /\ Len(electors) = Len(ballots)
    /\ issuedVotes = Len(ballots)

(* revokeCredentialRoot and publishCredentialRoot together: a root is never *)
(* both accepted and revoked, whatever the two keys do in turn, and the     *)
(* electorate never becomes empty.                                          *)
ElectorateSound ==
    /\ accepted \cap revoked = {}
    /\ accepted # {}

(* A vote is only ever cast under a root that is not revoked at that        *)
(* moment: revocation also stops proofs made before it.                     *)
RevokedAdmitsNobody ==
    [][electors' # electors => electors'[Len(electors')].root \notin revoked]_vars

(* revealVote counts every opened ballot once and nothing else: the tally   *)
(* is the count of the distinct opened commitments, all of them cast, so it *)
(* never exceeds issuedVotes.                                               *)
TallyIsOfCastBallots ==
    /\ \A c \in Choices :
          tally[c] = Cardinality({r \in revealed : r.choice = c})
    /\ \A r \in revealed : BallotCommitted(r)
    /\ Cardinality(revealed) <= issuedVotes

(* Nobody votes knowing an intermediate result: once castVote is over, and  *)
(* only then, does revealVote write to the tally.                           *)
NoVoteAfterReveal == [][ballots' # ballots => revealed = {}]_vars

(* finalizeVote ends the count: nothing changes the result afterwards.      *)
ResultIsFinal ==
    [][phase = "FINALIZED" =>
         phase' = "FINALIZED" /\ tally' = tally /\ ballots' = ballots]_vars

(* The deadlines protect every voter from everybody, the organizer too: no  *)
(* ballot is refused for phase before closesAtUnix, and no opening is       *)
(* stranded before revealClosesAtUnix.                                      *)
DeadlinesHonoured ==
    /\ phase # "COMMIT" => now >= schedule.closes
    /\ phase = "FINALIZED" => now >= schedule.revealCloses

(* The electorate settles at the enrollment deadline: nobody is admitted    *)
(* (publishCredentialRoot) or removed (revokeCredentialRoot) after it.      *)
ElectorateSettles ==
    [][accepted' # accepted => now < schedule.enrollmentCloses]_vars

(* The referendum gets its result without the organizer: closeVote and      *)
(* finalizeVote depend on time alone.                                       *)
CountEnds == <>(phase = "FINALIZED")
=============================================================================
