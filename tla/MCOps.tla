------------------------------- MODULE MCOps -------------------------------
(***************************************************************************)
(* What runs beside the application: the files of the services and the     *)
(* deployment of a referendum.  They share no variable, so it is enough to *)
(* explore one while the other rests: active says which.                   *)
(***************************************************************************)
EXTENDS FileLock, Deployment

\* The credential service is bounded to one process, since its recovery of a lock is a race
\* of its own (MCOps_lock.cfg).
MCMaxDeaths == [relay |-> 2, credential |-> 0]

MCMaxDeathsLock == [relay |-> 0, credential |-> 1]

VARIABLE active

vars == <<active, lvars, ovars>>

Init ==
    /\ active \in {"files", "deployment"} /\ LInit /\ OInit
    /\ active = "deployment" => store = "relay" /\ pid = CHOOSE p \in Pids : TRUE

Next ==
    /\ \/ active = "files" /\ LNext /\ UNCHANGED ovars
       \/ active = "deployment" /\ ONext /\ UNCHANGED lvars
    /\ UNCHANGED active

\* LFairness and OFairness, each where its module is the active one.
Fairness ==
    /\ WF_lvars(active = "files" /\ Age) /\ \A t \in Tasks : WF_lvars(active = "files" /\ TaskStep(t))
    /\ WF_ovars(active = "deployment" /\ ScriptStep) /\ SF_ovars(active = "deployment" /\ Begin("complete"))
    /\ WF_ovars(active = "deployment" /\ PeriodEnds)

Spec == Init /\ [][Next]_vars /\ Fairness
=============================================================================
