------------------------------ MODULE MCClient ------------------------------
(***************************************************************************)
(* The two long operations of the browser, enrolling and voting.  They     *)
(* share no variable, so it is enough to explore one while the other       *)
(* rests: side says which.  The answers are interchangeable.               *)
(***************************************************************************)
EXTENDS VoteClient, Enrollment, TLC

VARIABLE side

Init == side \in {"vote", "enroll"} /\ VInit /\ EInit

Next ==
    /\ \/ side = "vote" /\ VNext /\ UNCHANGED evars
       \/ side = "enroll" /\ ENext /\ UNCHANGED vvars
    /\ UNCHANGED side

Spec == Init /\ [][Next]_<<side, vvars, evars>>

Symmetry == Permutations(Answers)
=============================================================================
