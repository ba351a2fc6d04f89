------------------------- MODULE MCCredentialIssuer -------------------------
(* Small instances of CredentialIssuer for TLC.                             *)
EXTENDS CredentialIssuer

Request(enrollment, evidence, material) ==
    [enrollment |-> enrollment, evidence |-> evidence, material |-> material]

(* An enrollment, the same with other claims, and another enrollment that   *)
(* presents the same evidence.                                              *)
SomeRequests == {Request("e1", "v1", "claims"), Request("e1", "v1", "more"),
                 Request("e2", "v1", "claims")}

SomeLeaves ==
    {LeafOf(r, n) : r \in Requests, n \in 1..MaxDraws} \cup {EmptyLeaf}

TheIssuerKey == IssuerRoleKey(IssuerSecret)
=============================================================================
