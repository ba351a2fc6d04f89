------------------------ MODULE CredentialRegistryV1 ------------------------
(***************************************************************************)
(* The append-only credential registry contract,                            *)
(* contracts/credential-registry-v1/credential-registry-v1.compact.         *)
(*                                                                          *)
(* A Merkle root stands for the sequence of leaves it is the root of, and a *)
(* leaf for the claims and the blind it commits to.                         *)
(***************************************************************************)
EXTENDS Naturals, Sequences

CONSTANTS
    Leaves,          \* credential leaves the issuer may add
    IssuerSecrets,   \* secrets that callers may hold
    IssuerKey,       \* the key sealed by the constructor
    RegistryCapacity \* leaves of the tree, 2^16 in the code

ASSUME RegistryAssumption == RegistryCapacity \in Nat \ {0}

VARIABLES
    credentials,     \* the leaves, in the order of insertion
    frozen,
    frozenRoot,      \* meaningful once frozen
    attested         \* history: roots of successful attestCurrentRoot calls

registryVars == <<credentials, frozen, frozenRoot, attested>>

IssuerRoleKey(secret) == <<"registry-issuer", secret>>

RegistryInit ==
    /\ credentials = << >>
    /\ frozen = FALSE
    /\ frozenRoot = << >>
    /\ attested = {}

RequireIssuer(secret) == IssuerRoleKey(secret) = IssuerKey

(* Mutant: the tree accepts roots it had earlier, and longer ones too.      *)
CheckRootLoose(root) == Len(root) <= Len(credentials)

(* credentials.checkRoot: a MerkleTree knows its current root only.         *)
CheckRoot(root) == root = credentials

(* credentialCount is incremented with every insertion: it is the length.   *)
AddCredential(secret, leaf) ==
    /\ RequireIssuer(secret)
    /\ ~frozen
    /\ Len(credentials) < RegistryCapacity
    /\ credentials' = Append(credentials, leaf)
    /\ UNCHANGED <<frozen, frozenRoot, attested>>

(* Anybody may call it; the ledger does not change, the transaction is the  *)
(* evidence.                                                                *)
AttestCurrentRoot(root) ==
    /\ CheckRoot(root)
    /\ attested' = attested \cup {root}
    /\ UNCHANGED <<credentials, frozen, frozenRoot>>

Freeze(secret, root) ==
    /\ RequireIssuer(secret)
    /\ ~frozen
    /\ CheckRoot(root)
    /\ frozenRoot' = root
    /\ frozen' = TRUE
    /\ UNCHANGED <<credentials, attested>>
=============================================================================
