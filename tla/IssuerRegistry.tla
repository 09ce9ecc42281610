---------------------------- MODULE IssuerRegistry ----------------------------
(***************************************************************************)
(* contracts/issuer_registry.compact.  issuerKeyHash is a one-to-one tagged *)
(* hash, here the pair <<"key", publicKey>>; deactivate and reactivate take *)
(* the hash itself, so a caller may pass one of no registered key.         *)
(***************************************************************************)
EXTENDS OwnedContract, Naturals

CONSTANTS
    PublicKeys,  \* issuer keys, the zero key excluded
    ZeroKey,
    Names

IssuerStatus == {"INACTIVE", "ACTIVE", "DEACTIVATED"}

ASSUME KeysAssumption ==
    /\ ZeroKey \notin PublicKeys
    /\ None \notin PublicKeys \cup Names \cup IssuerStatus \cup {ZeroKey}

AllKeys == PublicKeys \cup {ZeroKey}
issuerKeyHash(k) == <<"key", k>>
KeyHashes == {issuerKeyHash(k) : k \in AllKeys}

VARIABLES
    issuerStatuses,
    issuerKeys,
    issuerNames,
    registeredIssuers,
    issuerCount

issuerLedger == <<issuerStatuses, issuerKeys, issuerNames, registeredIssuers, issuerCount>>
issuerVars == <<issuerLedger, owned>>

IssuerInit ==
    /\ OwnedInit
    /\ issuerStatuses = [h \in KeyHashes |-> None]
    /\ issuerKeys = [h \in KeyHashes |-> None]
    /\ issuerNames = [h \in KeyHashes |-> None]
    /\ registeredIssuers = {}
    /\ issuerCount = 0

Registrable(h) == issuerStatuses[h] \notin {"ACTIVE", "DEACTIVATED"}
FirstTime(h) == h \notin registeredIssuers

registerIssuer(caller, k, name) ==
    LET h == issuerKeyHash(k) IN
    /\ AssertOnlyOwner(caller) /\ AssertNotPaused
    /\ k # ZeroKey
    /\ Registrable(h)
    /\ issuerStatuses' = [issuerStatuses EXCEPT ![h] = "ACTIVE"]
    /\ issuerKeys' = [issuerKeys EXCEPT ![h] = k]
    /\ issuerNames' = [issuerNames EXCEPT ![h] = name]
    /\ registeredIssuers' = registeredIssuers \cup {h}
    /\ issuerCount' = IF FirstTime(h) THEN issuerCount + 1 ELSE issuerCount
    /\ UNCHANGED owned

Deactivated(h) == "DEACTIVATED"

deactivateIssuer(caller, h) ==
    /\ AssertOnlyOwner(caller) /\ AssertNotPaused
    /\ issuerStatuses[h] = "ACTIVE"
    /\ issuerStatuses' = [issuerStatuses EXCEPT ![h] = Deactivated(h)]
    /\ UNCHANGED <<issuerKeys, issuerNames, registeredIssuers, issuerCount, owned>>

MutReactivable(h) == issuerStatuses[h] # "ACTIVE"  \* mutant: any inactive hash
Reactivable(h) == issuerStatuses[h] = "DEACTIVATED"

reactivateIssuer(caller, h) ==
    /\ AssertOnlyOwner(caller) /\ AssertNotPaused
    /\ Reactivable(h)
    /\ issuerStatuses' = [issuerStatuses EXCEPT ![h] = "ACTIVE"]
    /\ UNCHANGED <<issuerKeys, issuerNames, registeredIssuers, issuerCount, owned>>

isTrustedByHash(h) == issuerStatuses[h] = "ACTIVE"
isTrusted(k) == isTrustedByHash(issuerKeyHash(k))

IssuerNext ==
    \/ \E caller \in Accounts :
          \/ \E k \in AllKeys, name \in Names : registerIssuer(caller, k, name)
          \/ \E h \in KeyHashes : deactivateIssuer(caller, h)
          \/ \E h \in KeyHashes : reactivateIssuer(caller, h)
    \/ OwnedNext /\ UNCHANGED issuerLedger

IssuerSpec == IssuerInit /\ [][IssuerNext]_issuerVars
-----------------------------------------------------------------------------

\* A trusted hash is the hash of the key stored under it: the sidecar's event
\* for a status change carries that key to the verifiers.
TrustedHasItsKey ==
    \A h \in KeyHashes : isTrustedByHash(h) =>
        issuerKeys[h] # None /\ issuerKeyHash(issuerKeys[h]) = h /\ issuerNames[h] # None

===============================================================================
