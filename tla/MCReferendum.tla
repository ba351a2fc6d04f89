---------------------------- MODULE MCReferendum ----------------------------
(***************************************************************************)
(* Small instances of the two referendum contracts.  They share no state,  *)
(* so one rests while the other is explored: active says which one moves.  *)
(***************************************************************************)
EXTENDS ReferendumV2, ReferendumV1

CONSTANTS ann, bob

Credential(who, age, blind) ==
    [holder |-> who, country |-> "CL", ageClass |-> age, assurance |-> 1,
     epoch |-> 1, validUntil |-> 5, blind |-> blind]

(* Ann was enrolled twice with one secret; Bob once as a minor and once,    *)
(* later, as an adult.                                                      *)
SomeCredentials ==
    {Credential(ann, 2, 1), Credential(ann, 2, 2),
     Credential(bob, 1, 3), Credential(bob, 2, 4)}

(* The registry grows from "deployed" to "later"; "foreign" is the root of  *)
(* another tree.                                                            *)
SomeRoots == {"deployed", "later", "foreign"}

SomeMembers ==
    [r \in SomeRoots |->
        CASE r = "deployed" -> {Credential(ann, 2, 1), Credential(bob, 1, 3)}
          [] r = "later"    -> SomeCredentials
          [] r = "foreign"  -> {Credential(bob, 2, 4)}]

AdultsOfCL == [countryEnabled |-> TRUE, country |-> "CL", adult |-> TRUE,
               assurance |-> 1, epoch |-> 1, validity |-> 5]

TheOrganizerKey == RoleKey("organizer", "organizer-secret")
ThePublisherKey == RoleKey("root-publisher", "publisher-secret")

CONSTANTS o1, o2

\* Two ballots for the same choice; Bob may happen to use the opening Ann uses.
SomeChoices == [o \in {o1, o2} |-> "YES"]

SomeOpenings == [v \in {ann, bob} |-> IF v = ann THEN {o1} ELSE {o1, o2}]

SomeArgs == {<<o2>>, <<o1, o2>>}

TwoStarts == [s \in Seats |-> 2]

VARIABLE active

MCInit ==
    /\ active \in {"v1", "v2"} /\ Init /\ V1Init
    /\ active = "v1" => schedule = CHOOSE s \in Schedules : ScheduleAccepted(s)

MCNext ==
    /\ \/ active = "v1" /\ V1Next /\ UNCHANGED vars
       \/ active = "v2" /\ Next /\ UNCHANGED v1vars
    /\ UNCHANGED active

\* The fairness of FairSpec, where version 2 is active.
MCSpec ==
    /\ MCInit /\ [][MCNext]_<<active, vars, v1vars>>
    /\ WF_vars(active = "v2" /\ Tick)
    /\ WF_vars(active = "v2" /\ CloseVote) /\ WF_vars(active = "v2" /\ FinalizeVote)

\* CountEnds, where version 2 is active.
V2CountEnds == active = "v2" => CountEnds
=============================================================================
