-------------------------- MODULE RevocationRegistry --------------------------
(***************************************************************************)
(* contracts/revocation_registry.compact.                                  *)
(*                                                                         *)
(* A ledger Map is a function on all 32-byte hashes whose value is the     *)
(* "no entry" constant where the map has none.  revokedTree is the         *)
(* sequence of the leaves inserted into it.                                *)
(***************************************************************************)
EXTENDS OwnedContract, Naturals, Sequences, SequencesExt

CONSTANTS
    RootHashes,   \* credential handles, the zero hash excluded
    ZeroHash,
    IssuerHashes, \* issuerKeyHash arguments
    Reasons,
    MaxEvents     \* bound: leaves of revokedTree (2^32 in the code)

ASSUME HashesAssumption ==
    /\ ZeroHash \notin RootHashes
    /\ None \notin IssuerHashes \cup Reasons \cup {"ACTIVE", "REVOKED", "SUSPENDED"}
ASSUME MaxEventsAssumption == MaxEvents \in Nat

Hashes == RootHashes \cup {ZeroHash}
CredentialStatus == {"ACTIVE", "REVOKED", "SUSPENDED"}

VARIABLES
    credentialStatuses,
    credentialIssuers,
    credentialReasons,
    revokedCredentials,   \* Set: current revocations
    revokedTree,          \* HistoricMerkleTree: append-only audit log
    revocationCount

ledger == <<credentialStatuses, credentialIssuers, credentialReasons,
            revokedCredentials, revokedTree, revocationCount>>
vars == <<ledger, owned>>

Init ==
    /\ OwnedInit
    /\ credentialStatuses = [h \in Hashes |-> None]
    /\ credentialIssuers = [h \in Hashes |-> None]
    /\ credentialReasons = [h \in Hashes |-> None]
    /\ revokedCredentials = {}
    /\ revokedTree = <<>>
    /\ revocationCount = 0

\* What revoke and suspend do alike once their asserts hold.
List(h, issuer, reason, status) ==
    /\ Len(revokedTree) < MaxEvents
    /\ credentialStatuses' = [credentialStatuses EXCEPT ![h] = status]
    /\ credentialIssuers' = [credentialIssuers EXCEPT ![h] = issuer]
    /\ credentialReasons' = [credentialReasons EXCEPT ![h] = reason]
    /\ revokedCredentials' = revokedCredentials \cup {h}
    /\ revokedTree' = Append(revokedTree, h)
    /\ revocationCount' = revocationCount + 1
    /\ UNCHANGED owned

NonZero(h) == h # ZeroHash

revoke(caller, h, issuer, reason) ==
    /\ AssertOnlyOwner(caller) /\ AssertNotPaused
    /\ NonZero(h)
    /\ credentialStatuses[h] # "REVOKED"
    /\ List(h, issuer, reason, "REVOKED")

MutSuspendable(h) == credentialStatuses[h] # "SUSPENDED"  \* mutant: the REVOKED check is gone
Suspendable(h) == credentialStatuses[h] \notin {"REVOKED", "SUSPENDED"}

suspend(caller, h, issuer, reason) ==
    /\ AssertOnlyOwner(caller) /\ AssertNotPaused
    /\ NonZero(h)
    /\ Suspendable(h)
    /\ List(h, issuer, reason, "SUSPENDED")

MutUnlisted(h) == revokedCredentials  \* mutant: the Set keeps the hash
Unlisted(h) == revokedCredentials \ {h}
AuditKept(h) == revokedTree

reactivate(caller, h, issuer) ==
    /\ AssertOnlyOwner(caller) /\ AssertNotPaused
    /\ credentialStatuses[h] = "SUSPENDED"
    /\ credentialIssuers[h] = issuer
    /\ credentialStatuses' = [credentialStatuses EXCEPT ![h] = "ACTIVE"]
    /\ credentialReasons' = [credentialReasons EXCEPT ![h] = None]
    /\ revokedCredentials' = Unlisted(h)
    /\ revokedTree' = AuditKept(h)
    /\ UNCHANGED <<credentialIssuers, revocationCount, owned>>

isRevoked(h) == credentialStatuses[h] \in {"REVOKED", "SUSPENDED"}
getStatus(h) == IF credentialStatuses[h] = None THEN "ACTIVE" ELSE credentialStatuses[h]
\* The witness finds a path to h exactly when h is a leaf.
proveRevocationInclusion(h) == \E i \in DOMAIN revokedTree : revokedTree[i] = h

Next ==
    \/ \E caller \in Accounts, h \in Hashes, issuer \in IssuerHashes :
          \/ \E reason \in Reasons : revoke(caller, h, issuer, reason)
          \/ \E reason \in Reasons : suspend(caller, h, issuer, reason)
          \/ reactivate(caller, h, issuer)
    \/ OwnedNext /\ UNCHANGED ledger

Spec == Init /\ [][Next]_vars
-----------------------------------------------------------------------------
\* The maps, the set, the tree and the counter keep their types; the owner is
\* always a key that can call (a contract address would lock the registry).
TypeOK ==
    /\ OwnedType
    /\ credentialStatuses \in [Hashes -> CredentialStatus \cup {None}]
    /\ credentialIssuers \in [Hashes -> IssuerHashes \cup {None}]
    /\ credentialReasons \in [Hashes -> Reasons \cup {None}]
    /\ revokedCredentials \subseteq Hashes
    /\ revokedTree \in Seq(Hashes)
    /\ revocationCount \in Nat

\* The fast membership set that verifiers read answers as isRevoked does, after
\* any sequence of revocations, suspensions and reactivations; a listed
\* credential has its issuer and its reason, an unlisted one no reason.
SetIsCurrent ==
    \A h \in Hashes :
       /\ h \in revokedCredentials <=> isRevoked(h)
       /\ h \in revokedCredentials <=> credentialReasons[h] # None
       /\ credentialStatuses[h] # None <=> credentialIssuers[h] # None

\* Every credential that has ever been listed, reactivated ones included, has
\* a leaf in the audit tree, nothing else has, and the counter counts leaves.
AuditComplete ==
    /\ \A h \in Hashes : proveRevocationInclusion(h) <=> credentialStatuses[h] # None
    /\ revocationCount = Len(revokedTree)

\* The zero hash, which every unset Bytes<32> equals, is never listed, although
\* reactivate does not test for it.
ZeroUnlisted == credentialStatuses[ZeroHash] = None

\* Revocation is final: no later call of any owner takes a credential out of
\* REVOKED, and no call removes a leaf of the audit tree.
RevocationFinal ==
    [][/\ \A h \in Hashes : credentialStatuses[h] = "REVOKED" => credentialStatuses'[h] = "REVOKED"
       /\ IsPrefix(revokedTree, revokedTree')]_vars

===============================================================================
