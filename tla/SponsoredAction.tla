-------------------------- MODULE SponsoredAction --------------------------
(***************************************************************************)
(* What the relay promises about one action, whatever happens to requests,  *)
(* processes and answers: its transaction is sent at most once and only     *)
(* while the action is open, it is confirmed only if it was sent, and once  *)
(* it is confirmed or closed nothing more happens to it                     *)
(* (v2-service.ts:69-73, docs/ARCHITECTURE.md:101-104).                     *)
(***************************************************************************)
EXTENDS Naturals

CONSTANT Ids

VARIABLES
    phase,   \* [Ids -> Phases]
    sends    \* [Ids -> Nat], how often the transaction was sent

Phases == {"unknown", "open", "confirmed", "closed"}

Init ==
    /\ phase = [id \in Ids |-> "unknown"]
    /\ sends = [id \in Ids |-> 0]

Accept(id) ==
    /\ phase[id] = "unknown"
    /\ phase' = [phase EXCEPT ![id] = "open"]
    /\ UNCHANGED sends

Send(id) ==
    /\ phase[id] = "open" /\ sends[id] = 0
    /\ sends' = [sends EXCEPT ![id] = 1]
    /\ UNCHANGED phase

Confirm(id) ==
    /\ phase[id] = "open" /\ sends[id] = 1
    /\ phase' = [phase EXCEPT ![id] = "confirmed"]
    /\ UNCHANGED sends

Close(id) ==
    /\ phase[id] = "open"
    /\ phase' = [phase EXCEPT ![id] = "closed"]
    /\ UNCHANGED sends

Next == \E id \in Ids : Accept(id) \/ Send(id) \/ Confirm(id) \/ Close(id)

Spec == Init /\ [][Next]_<<phase, sends>>
=============================================================================
