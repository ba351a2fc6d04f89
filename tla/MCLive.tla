------------------------------- MODULE MCLive -------------------------------
(***************************************************************************)
(* What must come to an end: the jobs of the relay, the attempts to vote   *)
(* that send them, and the wait of the enrolled for the publisher.  They   *)
(* share no variable here, so it is enough to explore one while the others *)
(* rest: active says which.                                                *)
(***************************************************************************)
EXTENDS MCRelayerV2, VoteClient, CredentialRootPublisher

(* One referendum whose enrollment outlives the model, one that ends.       *)
TwoReferenda == <<"long", "short">>

Deadlines == [t \in Targets |-> IF t = "long" THEN MaxTime + 1 ELSE 2]

TheIssuerKey == IssuerRoleKey("issuer-secret")

(* The polls are interchangeable: the first attempt is on this one.         *)
FirstPoll == CHOOSE p \in Polls : TRUE

VARIABLE active

LiveInit == active \in {"relay", "vote", "publisher"} /\ Init /\ VInit /\ PublisherInit

LiveNext ==
    /\ \/ active = "relay" /\ Next /\ UNCHANGED <<vvars, publisherVars>>
       \/ /\ active = "vote" /\ VNext /\ op'[1].poll \in {NULL, FirstPoll}
          /\ UNCHANGED <<vars, publisherVars>>
       \/ active = "publisher" /\ PublisherNext /\ UNCHANGED <<vars, vvars>>
    /\ UNCHANGED active

Relay(A) == active = "relay" /\ A

\* Fairness, VFairness and that of PublisherFairSpec, each where its module is the active one.
LiveFairness ==
    /\ \A h \in Handlers : WF_vars(Relay(AcceptSteps(h)))
    /\ WF_vars(Relay(WalletStage))
    /\ WF_vars(Relay(Start))
    /\ \A id \in Ids : /\ WF_vars(Relay(RunTimer(id)))
                       /\ WF_vars(Relay(ReconcileRead(id)))
                       /\ WF_vars(Relay(Answered(id) \/ Unanswered(id)))
                       /\ SF_vars(Relay(Answered(id)))
                       /\ WF_vars(Relay(Applied(id)))
                       /\ WF_vars(Relay(IndexerSees(id)))
    /\ \A a \in Attempts : WF_vvars(active = "vote" /\ LocalStep(a))
    /\ WF_publisherVars(active = "publisher" /\ CycleStep)
    /\ WF_publisherVars(active = "publisher" /\ Tick)

LiveSpec == LiveInit /\ [][LiveNext]_<<active, vars, vvars, publisherVars>> /\ LiveFairness
=============================================================================
