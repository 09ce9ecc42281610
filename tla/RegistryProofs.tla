---------------------------- MODULE RegistryProofs ----------------------------
(***************************************************************************)
(* The three registries, for every set of hashes, keys, names, DIDs and    *)
(* secrets, every tree capacity and any number of calls: the invariants of *)
(* the revocation registry and the finality of revocation, the keys behind *)
(* trusted issuers, the owners of identities.                              *)
(***************************************************************************)
EXTENDS RevocationRegistry, IssuerRegistry, IdentityRegistry, SequenceTheorems, TLAPS

-----------------------------------------------------------------------------
(* The revocation registry.                                                *)

\* Inductive as they stand, taken together: the leaves follow the statuses, the
\* set the statuses, and the reasons and issuers the set.
IInv == TypeOK /\ SetIsCurrent /\ AuditComplete /\ ZeroUnlisted

\* A constant of no map differs from every entry.
LEMMA NoneDiffers ==
    /\ \A i \in IssuerHashes : i # None
    /\ \A r \in Reasons : r # None
    /\ \A s \in CredentialStatus : s # None
  BY HashesAssumption DEF CredentialStatus

\* Only pause, unpause and transferOwnership move the owner and the switch, and
\* they keep their types.
LEMMA OwnedStays == OwnedType /\ (OwnedNext \/ UNCHANGED owned) => OwnedType'
<1>1. ASSUME OwnedType, UNCHANGED owned PROVE OwnedType'
  BY <1>1 DEF OwnedType, owned
<1>2. ASSUME OwnedType, NEW caller \in Accounts, Pause(caller) PROVE OwnedType'
  BY <1>2 DEF OwnedType, Pause
<1>3. ASSUME OwnedType, NEW caller \in Accounts, Unpause(caller) PROVE OwnedType'
  BY <1>3 DEF OwnedType, Unpause
<1>4. ASSUME OwnedType, NEW caller \in Accounts,
             NEW to \in Accounts \cup Contracts \cup {ZeroAccount}, TransferOwnership(caller, to)
      PROVE OwnedType'
  BY <1>4 DEF OwnedType, TransferOwnership, MayOwn
<1> QED BY <1>1, <1>2, <1>3, <1>4 DEF OwnedNext

\* An appended leaf is a leaf, and the earlier leaves stay: proveRevocationInclusion
\* answers as before except for the new hash.
LEMMA AppendedLeaf ==
    ASSUME NEW g \in Hashes, revokedTree \in Seq(Hashes), revokedTree' = Append(revokedTree, g)
    PROVE  /\ revokedTree' \in Seq(Hashes)
           /\ Len(revokedTree') = Len(revokedTree) + 1
           /\ \A h \in Hashes :
                proveRevocationInclusion(h)' <=> (proveRevocationInclusion(h) \/ h = g)
           /\ IsPrefix(revokedTree, revokedTree')
<1>1. /\ revokedTree' \in Seq(Hashes)
      /\ Len(revokedTree') = Len(revokedTree) + 1
      /\ \A i \in 1..Len(revokedTree) : revokedTree'[i] = revokedTree[i]
      /\ revokedTree'[Len(revokedTree) + 1] = g
  BY AppendProperties
<1>2. /\ DOMAIN revokedTree = 1..Len(revokedTree)
      /\ DOMAIN revokedTree' = 1..(Len(revokedTree) + 1)
      /\ Len(revokedTree) \in Nat
  BY <1>1, LenProperties
<1>3. \A h \in Hashes : proveRevocationInclusion(h)' <=> (proveRevocationInclusion(h) \/ h = g)
  BY <1>1, <1>2 DEF proveRevocationInclusion
<1>4. IsPrefix(revokedTree, revokedTree')
  BY <1>1, <1>2 DEF IsPrefix
<1> QED BY <1>1, <1>3, <1>4

\* revoke and suspend: listing a hash that is not zero keeps the invariant.
LEMMA ListKeeps ==
    ASSUME IInv, NEW h \in Hashes, h # ZeroHash, NEW issuer \in IssuerHashes, NEW reason \in Reasons,
           NEW status \in {"REVOKED", "SUSPENDED"}, List(h, issuer, reason, status)
    PROVE  IInv'
<1> USE DEF IInv
<1>1. /\ revokedTree' \in Seq(Hashes)
      /\ Len(revokedTree') = Len(revokedTree) + 1
      /\ \A g \in Hashes : proveRevocationInclusion(g)' <=> (proveRevocationInclusion(g) \/ g = h)
  BY AppendedLeaf DEF TypeOK, List
<1>2. TypeOK'
  <2>1. OwnedType' BY OwnedStays DEF TypeOK, List
  <2>2. /\ credentialStatuses' \in [Hashes -> CredentialStatus \cup {None}]
        /\ credentialIssuers' \in [Hashes -> IssuerHashes \cup {None}]
        /\ credentialReasons' \in [Hashes -> Reasons \cup {None}]
    BY DEF TypeOK, List, CredentialStatus
  <2>3. revokedCredentials' \subseteq Hashes /\ revocationCount' \in Nat
    BY DEF TypeOK, List
  <2> QED BY <1>1, <2>1, <2>2, <2>3 DEF TypeOK
<1>3. SetIsCurrent'
  <2> SUFFICES ASSUME NEW g \in Hashes
               PROVE /\ g \in revokedCredentials' <=> isRevoked(g)'
                     /\ g \in revokedCredentials' <=> credentialReasons'[g] # None
                     /\ credentialStatuses'[g] # None <=> credentialIssuers'[g] # None
    BY DEF SetIsCurrent
  <2>1. CASE g = h
    BY <2>1, NoneDiffers DEF TypeOK, List, isRevoked, CredentialStatus
  <2>2. CASE g # h
    BY <2>2 DEF TypeOK, List, isRevoked, SetIsCurrent
  <2> QED BY <2>1, <2>2
<1>4. AuditComplete'
  <2>1. \A g \in Hashes : proveRevocationInclusion(g)' <=> credentialStatuses'[g] # None
    BY <1>1, NoneDiffers DEF TypeOK, List, AuditComplete, CredentialStatus
  <2>2. revocationCount' = Len(revokedTree')
    BY <1>1 DEF List, AuditComplete
  <2> QED BY <2>1, <2>2 DEF AuditComplete
<1>5. ZeroUnlisted'
  BY DEF List, TypeOK, ZeroUnlisted, Hashes
<1> QED BY <1>2, <1>3, <1>4, <1>5

\* reactivate keeps the invariant: the tree keeps the leaf, the set loses it.
LEMMA ReactivateKeeps ==
    ASSUME IInv, NEW caller \in Accounts, NEW h \in Hashes, NEW issuer \in IssuerHashes,
           reactivate(caller, h, issuer)
    PROVE  IInv'
<1> USE DEF IInv
<1>1. TypeOK'
  <2>1. OwnedType' BY OwnedStays DEF TypeOK, reactivate, owned
  <2>2. /\ credentialStatuses' \in [Hashes -> CredentialStatus \cup {None}]
        /\ credentialReasons' \in [Hashes -> Reasons \cup {None}]
        /\ revokedCredentials' \subseteq Hashes
    BY DEF TypeOK, reactivate, CredentialStatus, Unlisted
  <2> QED BY <2>1, <2>2 DEF TypeOK, reactivate, AuditKept
<1>2. h # ZeroHash
  BY NoneDiffers DEF reactivate, ZeroUnlisted, CredentialStatus
<1>3. SetIsCurrent'
  BY NoneDiffers DEF TypeOK, reactivate, SetIsCurrent, isRevoked, Unlisted, CredentialStatus
<1>4. AuditComplete'
  <2>1. revokedTree' = revokedTree BY DEF reactivate, AuditKept
  <2>2. \A g \in Hashes : proveRevocationInclusion(g)' <=> proveRevocationInclusion(g)
    BY <2>1 DEF proveRevocationInclusion
  <2>3. \A g \in Hashes : (credentialStatuses'[g] # None) <=> (credentialStatuses[g] # None)
    BY NoneDiffers DEF TypeOK, reactivate, CredentialStatus
  <2> QED BY <2>1, <2>2, <2>3 DEF reactivate, AuditComplete
<1>5. ZeroUnlisted'
  BY <1>2 DEF reactivate, TypeOK, ZeroUnlisted, Hashes
<1> QED BY <1>1, <1>3, <1>4, <1>5

\* The initial ledger satisfies the invariant.
LEMMA InitHolds == Init => IInv
<1> SUFFICES ASSUME Init PROVE IInv OBVIOUS
<1>1. revokedTree \in Seq(Hashes) /\ Len(revokedTree) = 0 /\ DOMAIN revokedTree = {}
  BY EmptySeq DEF Init
<1>2. TypeOK BY <1>1 DEF Init, TypeOK, OwnedInit, OwnedType
<1>3. SetIsCurrent BY NoneDiffers DEF Init, SetIsCurrent, isRevoked, CredentialStatus
<1>4. AuditComplete BY <1>1 DEF Init, AuditComplete, proveRevocationInclusion
<1>5. ZeroUnlisted BY DEF Init, ZeroUnlisted, Hashes
<1> QED BY <1>2, <1>3, <1>4, <1>5 DEF IInv

\* Every step keeps the invariant.
LEMMA StepKeeps == IInv /\ [Next]_vars => IInv'
<1> SUFFICES ASSUME IInv, [Next]_vars PROVE IInv' OBVIOUS
<1>1. ASSUME NEW caller \in Accounts, NEW h \in Hashes, NEW issuer \in IssuerHashes,
             NEW reason \in Reasons, revoke(caller, h, issuer, reason)
      PROVE IInv'
  BY <1>1, ListKeeps DEF revoke, NonZero
<1>2. ASSUME NEW caller \in Accounts, NEW h \in Hashes, NEW issuer \in IssuerHashes,
             NEW reason \in Reasons, suspend(caller, h, issuer, reason)
      PROVE IInv'
  BY <1>2, ListKeeps DEF suspend, NonZero
<1>3. ASSUME NEW caller \in Accounts, NEW h \in Hashes, NEW issuer \in IssuerHashes,
             reactivate(caller, h, issuer)
      PROVE IInv'
  BY <1>3, ReactivateKeeps
<1>4. ASSUME UNCHANGED ledger, OwnedNext \/ UNCHANGED owned PROVE IInv'
  <2>1. OwnedType' BY <1>4, OwnedStays DEF IInv, TypeOK
  <2> QED BY <1>4, <2>1 DEF IInv, TypeOK, SetIsCurrent, AuditComplete, ZeroUnlisted, ledger,
                            isRevoked, proveRevocationInclusion
<1> QED BY <1>1, <1>2, <1>3, <1>4 DEF Next, vars

\* The registry's invariants hold in every reachable state: the set verifiers
\* read answers as the status map, every listed hash has its leaf, and the zero
\* hash is never listed.
THEOREM RegistryInvariant == Spec => []IInv
  BY InitHolds, StepKeeps, PTL DEF Spec

\* What the circuits' readers rely on, from the invariant: the revoked set of the
\* fast path agrees with isRevoked.
THEOREM SetAgrees == Spec => []SetIsCurrent
<1>1. IInv => SetIsCurrent BY DEF IInv
<1> QED BY <1>1, RegistryInvariant, PTL

\* The audit tree is complete: a leaf for each hash ever listed and for no other.
THEOREM AuditTreeComplete == Spec => []AuditComplete
<1>1. IInv => AuditComplete BY DEF IInv
<1> QED BY <1>1, RegistryInvariant, PTL

\* No circuit takes a credential out of REVOKED, and none removes a leaf.
THEOREM RevocationIsFinal == Spec => RevocationFinal
<1> DEFINE Final == /\ \A h \in Hashes : credentialStatuses[h] = "REVOKED"
                                           => credentialStatuses'[h] = "REVOKED"
                    /\ IsPrefix(revokedTree, revokedTree')
<1>1. ASSUME IInv, [Next]_vars PROVE Final \/ UNCHANGED vars
  <2>0. /\ credentialStatuses \in [Hashes -> CredentialStatus \cup {None}]
        /\ revokedTree \in Seq(Hashes)
    BY <1>1 DEF IInv, TypeOK
  <2>1. ASSUME revokedTree' = revokedTree PROVE IsPrefix(revokedTree, revokedTree')
    BY <2>0, <2>1, LenProperties DEF IsPrefix
  <2>2. ASSUME NEW caller \in Accounts, NEW h \in Hashes, NEW issuer \in IssuerHashes,
               NEW reason \in Reasons,
               revoke(caller, h, issuer, reason) \/ suspend(caller, h, issuer, reason)
        PROVE Final
    <3>1. IsPrefix(revokedTree, revokedTree')
      BY <2>0, <2>2, AppendedLeaf DEF revoke, suspend, List
    <3>2. \A g \in Hashes : credentialStatuses[g] = "REVOKED" => credentialStatuses'[g] = "REVOKED"
      BY <2>0, <2>2 DEF revoke, suspend, List, Suspendable
    <3> QED BY <3>1, <3>2
  <2>3. ASSUME NEW caller \in Accounts, NEW h \in Hashes, NEW issuer \in IssuerHashes,
               reactivate(caller, h, issuer)
        PROVE Final
    BY <2>0, <2>1, <2>3 DEF reactivate, AuditKept
  <2>4. ASSUME UNCHANGED ledger PROVE Final
    BY <2>0, <2>1, <2>4 DEF ledger
  <2> QED BY <1>1, <2>2, <2>3, <2>4 DEF Next, vars
<1>2. IInv /\ [Next]_vars => [Final]_vars BY <1>1
<1> QED BY <1>2, RegistryInvariant, PTL DEF Spec, RevocationFinal
-----------------------------------------------------------------------------
(* The issuer and the identity registry.                                    *)

\* The key and the name behind a hash.
Stored(h) == issuerKeys[h] # None /\ issuerKeyHash(issuerKeys[h]) = h /\ issuerNames[h] # None

\* A deactivated hash can become trusted again without its key being passed, so
\* the entries have to stay behind it as well.
StoredInv ==
    /\ issuerKeys \in [KeyHashes -> AllKeys \cup {None}]
    /\ issuerNames \in [KeyHashes -> Names \cup {None}]
    /\ issuerStatuses \in [KeyHashes -> IssuerStatus \cup {None}]
    /\ \A h \in KeyHashes : issuerStatuses[h] \in {"ACTIVE", "DEACTIVATED"} => Stored(h)

\* registerIssuer writes all three maps.
LEMMA RegisterStores ==
    ASSUME StoredInv, NEW caller \in Accounts, NEW k \in AllKeys, NEW name \in Names,
           registerIssuer(caller, k, name)
    PROVE  StoredInv'
<1> DEFINE g == issuerKeyHash(k)
<1>1. g \in KeyHashes /\ k # None /\ name # None
  BY KeysAssumption DEF KeyHashes, AllKeys
<1>2. /\ issuerStatuses' = [issuerStatuses EXCEPT ![g] = "ACTIVE"]
      /\ issuerKeys' = [issuerKeys EXCEPT ![g] = k]
      /\ issuerNames' = [issuerNames EXCEPT ![g] = name]
  BY DEF registerIssuer
<1>3. Stored(g)'
  BY <1>1, <1>2 DEF StoredInv, Stored
<1>4. \A h \in KeyHashes : h # g => issuerStatuses'[h] = issuerStatuses[h] /\ (Stored(h) => Stored(h)')
  BY <1>1, <1>2 DEF StoredInv, Stored
<1>5. /\ issuerKeys' \in [KeyHashes -> AllKeys \cup {None}]
      /\ issuerNames' \in [KeyHashes -> Names \cup {None}]
      /\ issuerStatuses' \in [KeyHashes -> IssuerStatus \cup {None}]
  BY <1>1, <1>2 DEF StoredInv, IssuerStatus
<1> QED
  BY <1>3, <1>4, <1>5 DEF StoredInv

\* deactivateIssuer and reactivateIssuer move a hash between two statuses that
\* both have their entries.
LEMMA StatusChangeKeeps ==
    ASSUME StoredInv, NEW h \in KeyHashes, issuerStatuses[h] \in {"ACTIVE", "DEACTIVATED"},
           NEW s \in {"ACTIVE", "DEACTIVATED"},
           issuerStatuses' = [issuerStatuses EXCEPT ![h] = s],
           UNCHANGED <<issuerKeys, issuerNames>>
    PROVE  StoredInv'
<1>1. issuerStatuses' \in [KeyHashes -> IssuerStatus \cup {None}]
  BY DEF StoredInv, IssuerStatus
<1>2. \A g \in KeyHashes : issuerStatuses'[g] \in {"ACTIVE", "DEACTIVATED"} => Stored(g)'
  BY DEF StoredInv, Stored
<1> QED
  BY <1>1, <1>2 DEF StoredInv

\* Every hash the issuer registry calls trusted is the hash of the key stored
\* under it, through deactivation, reactivation, pauses and changes of owner.
THEOREM TrustedKeysStored == IssuerSpec => []TrustedHasItsKey
<1>1. IssuerInit => StoredInv
  <2> SUFFICES ASSUME IssuerInit PROVE StoredInv
    OBVIOUS
  <2>1. None \notin {"ACTIVE", "DEACTIVATED"}
    BY KeysAssumption DEF IssuerStatus
  <2> QED
    BY <2>1 DEF IssuerInit, StoredInv
<1>2. StoredInv /\ [IssuerNext]_issuerVars => StoredInv'
  <2> SUFFICES ASSUME StoredInv, [IssuerNext]_issuerVars PROVE StoredInv'
    OBVIOUS
  <2>1. ASSUME NEW caller \in Accounts, NEW k \in AllKeys, NEW name \in Names,
               registerIssuer(caller, k, name)
        PROVE  StoredInv'
    BY <2>1, RegisterStores
  <2>2. ASSUME NEW caller \in Accounts, NEW h \in KeyHashes, deactivateIssuer(caller, h)
        PROVE  StoredInv'
    BY <2>2, StatusChangeKeeps DEF deactivateIssuer, Deactivated
  <2>3. ASSUME NEW caller \in Accounts, NEW h \in KeyHashes, reactivateIssuer(caller, h)
        PROVE  StoredInv'
    BY <2>3, StatusChangeKeeps DEF reactivateIssuer, Reactivable
  <2>4. CASE UNCHANGED issuerLedger
    BY <2>4 DEF issuerLedger, StoredInv, Stored
  <2> QED
    BY <2>1, <2>2, <2>3, <2>4 DEF IssuerNext, issuerVars
<1>3. StoredInv => TrustedHasItsKey
  BY DEF StoredInv, Stored, TrustedHasItsKey, isTrustedByHash
<1> QED
  BY <1>1, <1>2, <1>3, PTL DEF IssuerSpec

-----------------------------------------------------------------------------
OwnersMap == DOMAIN didOwners = AllDids

\* No sequence of calls replaces the owner of a DID in a step that starts with
\* the DID active, the contract owner's updates and expiries included.
THEOREM OwnersKept == IdentitySpec => ActiveKeepsOwner
<1> DEFINE Kept == \A d \in AllDids : commitmentStatuses[d] = "ACTIVE" => didOwners'[d] = didOwners[d]
<1>1. IdentityInit => OwnersMap
  BY DEF IdentityInit, OwnersMap
<1>2. OwnersMap /\ [IdentityNext]_identityVars => OwnersMap' /\ Kept
  <2> SUFFICES ASSUME OwnersMap, [IdentityNext]_identityVars PROVE OwnersMap' /\ Kept
    OBVIOUS
  <2>1. ASSUME NEW sk \in Secrets, NEW d \in AllDids, NEW c \in AllValues, NEW i \in AllValues,
               registerIdentity(sk, d, c, i)
        PROVE  OwnersMap' /\ Kept
    BY <2>1 DEF registerIdentity, Free, OwnersMap
  <2>2. ASSUME NEW sk \in Secrets, NEW d \in AllDids, NEW c \in AllValues, NEW i \in AllValues,
               updateCommitment(sk, d, c, i)
        PROVE  OwnersMap' /\ Kept
    BY <2>2 DEF updateCommitment, OwnersMap
  <2>3. ASSUME NEW caller \in Accounts, NEW d \in AllDids, NEW c \in AllValues, NEW i \in AllValues,
               adminUpdateCommitment(caller, d, c, i)
        PROVE  OwnersMap' /\ Kept
    BY <2>3 DEF adminUpdateCommitment, OwnersMap
  <2>4. ASSUME NEW caller \in Accounts, NEW d \in AllDids, expireCommitment(caller, d)
        PROVE  OwnersMap' /\ Kept
    BY <2>4 DEF expireCommitment, OwnersMap
  <2>5. CASE UNCHANGED identityLedger
    BY <2>5 DEF identityLedger, OwnersMap
  <2> QED
    BY <2>1, <2>2, <2>3, <2>4, <2>5 DEF IdentityNext, identityVars
<1> QED
  BY <1>1, <1>2, PTL DEF IdentitySpec, ActiveKeepsOwner
===============================================================================
