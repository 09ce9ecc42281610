--------------------------- MODULE IdentityRegistry ---------------------------
(***************************************************************************)
(* contracts/identity_registry.compact.  deriveOwnerHash is a one-to-one   *)
(* tagged hash of the caller's secret, here the secret itself wrapped; any *)
(* caller may register, updateCommitment needs the DID owner's secret, and *)
(* adminUpdateCommitment and expireCommitment the contract owner.          *)
(***************************************************************************)
EXTENDS OwnedContract, Naturals

CONSTANTS
    Dids,
    Values,       \* commitments and issuer key hashes, the zero hash excluded
    Secrets,      \* ownerSecretKey witnesses
    Zero,         \* the zero hash
    MaxCount      \* bound: registrations

deriveOwnerHash(sk) == <<"owner", sk>>
CommitmentStatus == {"INACTIVE", "ACTIVE", "EXPIRED"}

ASSUME IdentityAssumption ==
    /\ Zero \notin Dids \cup Values
    /\ None \notin Dids \cup Values \cup CommitmentStatus \cup {Zero}
    /\ \A sk \in Secrets : deriveOwnerHash(sk) # None
    /\ MaxCount \in Nat

AllDids == Dids \cup {Zero}
AllValues == Values \cup {Zero}

VARIABLES
    commitments,
    commitmentStatuses,
    commitmentIssuers,
    didOwners,
    registeredCommitments,
    identityCount

identityLedger == <<commitments, commitmentStatuses, commitmentIssuers, didOwners,
            registeredCommitments, identityCount>>
identityVars == <<identityLedger, owned>>

IdentityInit ==
    /\ OwnedInit
    /\ commitments = [d \in AllDids |-> None]
    /\ commitmentStatuses = [d \in AllDids |-> None]
    /\ commitmentIssuers = [d \in AllDids |-> None]
    /\ didOwners = [d \in AllDids |-> None]
    /\ registeredCommitments = {}
    /\ identityCount = 0

Known(c) == registeredCommitments \cup {c}

\* The writes every commitment change makes.
Commit(d, c, issuer) ==
    /\ commitments' = [commitments EXCEPT ![d] = c]
    /\ commitmentIssuers' = [commitmentIssuers EXCEPT ![d] = issuer]
    /\ registeredCommitments' = Known(c)

MutFree(d) == TRUE  \* mutant: an active DID registers again
Free(d) == commitmentStatuses[d] # "ACTIVE"

registerIdentity(sk, d, c, issuer) ==
    /\ AssertNotPaused
    /\ d # Zero /\ c # Zero /\ issuer # Zero
    /\ Free(d)
    /\ identityCount < MaxCount
    /\ Commit(d, c, issuer)
    /\ commitmentStatuses' = [commitmentStatuses EXCEPT ![d] = "ACTIVE"]
    /\ didOwners' = [didOwners EXCEPT ![d] = deriveOwnerHash(sk)]
    /\ identityCount' = identityCount + 1
    /\ UNCHANGED owned

updateCommitment(sk, d, c, issuer) ==
    /\ AssertNotPaused
    /\ c # Zero
    /\ commitments[d] # None
    /\ commitmentStatuses[d] = "ACTIVE"
    /\ didOwners[d] = deriveOwnerHash(sk)
    /\ Commit(d, c, issuer)
    /\ UNCHANGED <<commitmentStatuses, didOwners, identityCount, owned>>

Found(d) == commitments[d] # None

\* No pause check, no zero check; it revives an expired DID under its old owner.
adminUpdateCommitment(caller, d, c, issuer) ==
    /\ AssertOnlyOwner(caller)
    /\ Found(d)
    /\ Commit(d, c, issuer)
    /\ commitmentStatuses' = [commitmentStatuses EXCEPT ![d] = "ACTIVE"]
    /\ UNCHANGED <<didOwners, identityCount, owned>>

\* No pause check.
expireCommitment(caller, d) ==
    /\ AssertOnlyOwner(caller)
    /\ commitments[d] # None
    /\ commitmentStatuses[d] = "ACTIVE"
    /\ commitmentStatuses' = [commitmentStatuses EXCEPT ![d] = "EXPIRED"]
    /\ UNCHANGED <<commitments, commitmentIssuers, didOwners, registeredCommitments,
                   identityCount, owned>>

IdentityNext ==
    \/ \E d \in AllDids, c \in AllValues, issuer \in AllValues :
          \/ \E sk \in Secrets : registerIdentity(sk, d, c, issuer)
          \/ \E sk \in Secrets : updateCommitment(sk, d, c, issuer)
          \/ \E caller \in Accounts : adminUpdateCommitment(caller, d, c, issuer)
    \/ \E caller \in Accounts, d \in AllDids : expireCommitment(caller, d)
    \/ OwnedNext /\ UNCHANGED identityLedger

IdentitySpec == IdentityInit /\ [][IdentityNext]_identityVars
-----------------------------------------------------------------------------

\* A DID changes hands only while it is not active: no call, the contract
\* owner's included, replaces the owner of an active DID.
ActiveKeepsOwner ==
    [][\A d \in AllDids : commitmentStatuses[d] = "ACTIVE" => didOwners'[d] = didOwners[d]]_identityVars

===============================================================================
