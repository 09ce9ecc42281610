-------------------------- MODULE PredicateContract ---------------------------
(***************************************************************************)
(* The seven predicate contracts (contracts/predicate_*.compact).  Each    *)
(* kind is a contract of its own; `kind' says which one is deployed here.  *)
(*                                                                         *)
(* persistentHash and the Merkle trees are collision free: an attestation  *)
(* key is the triple it hashes, a set hash the pair <<verifier, set>>, and *)
(* a claim path to an owl_root exists exactly for the claims the issuer    *)
(* committed under it.  The allowed-set trees are zero padded.             *)
(***************************************************************************)
EXTENDS OwnedContract, Integers, Sequences

CONSTANTS
    Roots,        \* owl_roots of issued credentials
    Claims,       \* Claims[r]: the claim values committed under r
    ZeroRoot,
    ZeroBytes,    \* a zero Bytes<32>: an absent country, an empty parameter
    Thresholds, AsOf, Levels,
    CountrySets, Verifiers, Epochs, Apps,
    TreeCapacity  \* leaves of attestTree: 2^32 in the contracts

ClaimNames == {"birthdate", "verification_level", "email_verified",
               "nationality", "residentCountry", "personhoodSecret"}

ASSUME RootsAssumption == ZeroRoot \notin Roots /\ DOMAIN Claims = Roots
ASSUME ClaimsAssumption ==
    \A r \in Roots :
       /\ DOMAIN Claims[r] = ClaimNames
       /\ Claims[r]["birthdate"] \in Nat
       /\ Claims[r]["verification_level"] \in Nat
       /\ Claims[r]["email_verified"] \in Nat
ASSUME ArgumentsAssumption ==
    Thresholds \subseteq Nat /\ AsOf \subseteq Nat /\ Levels \subseteq Nat

Kinds == {"age", "age_range", "kyc", "email", "nationality", "residency", "personhood"}
MaxAge == 150

VARIABLES
    kind,
    attestations,   \* Set of keys
    attestTree,     \* HistoricMerkleTree, as its leaves
    attestCount,
    nullifiers      \* personhood only

attestLedger == <<kind, attestations, attestTree, attestCount, nullifiers>>
attestVars == <<attestLedger, owned>>

AttestInit ==
    /\ OwnedInit
    /\ kind \in Kinds
    /\ attestations = {} /\ attestTree = <<>> /\ attestCount = 0
    /\ nullifiers = {}

record(key) ==
    IF key \in attestations
      THEN UNCHANGED <<attestations, attestTree, attestCount>>
      ELSE /\ Len(attestTree) < TreeCapacity
           /\ attestations' = attestations \cup {key}
           /\ attestTree' = Append(attestTree, key)
           /\ attestCount' = attestCount + 1

keyOf(root, param) == <<kind, root, param>>

\* The witness is a leaf under the issuer-signed owl_root.
MutCommitted(root, claim, witness) == TRUE  \* mutant: the witness is not bound
Committed(root, claim, witness) == Claims[root][claim] = witness

Entry(k, root) == kind = k /\ AssertNotPaused /\ root # ZeroRoot

\* Dates are YYYYMMDD numbers; the Uint<32> subtraction fails below zero.
OldEnough(dob, asOf, years) == asOf >= years * 10000 /\ dob <= asOf - years * 10000
YoungEnough(dob, asOf, years) == asOf >= years * 10000 /\ dob >= asOf - years * 10000

attestAgeGte(root, threshold, asOf, dob) ==
    /\ Entry("age", root)
    /\ threshold <= MaxAge
    /\ Committed(root, "birthdate", dob)
    /\ OldEnough(dob, asOf, threshold)
    /\ record(keyOf(root, <<threshold, asOf>>))
    /\ UNCHANGED <<kind, nullifiers, owned>>

InRange(dob, asOf, min, max) == OldEnough(dob, asOf, min) /\ YoungEnough(dob, asOf, max)

attestAgeRange(root, min, max, asOf, dob) ==
    /\ Entry("age_range", root)
    /\ min <= max /\ max <= MaxAge
    /\ Committed(root, "birthdate", dob)
    /\ InRange(dob, asOf, min, max)
    /\ record(keyOf(root, <<min, max, asOf>>))
    /\ UNCHANGED <<kind, nullifiers, owned>>

attestKycGte(root, threshold, level) ==
    /\ Entry("kyc", root)
    /\ Committed(root, "verification_level", level)
    /\ level >= threshold
    /\ record(keyOf(root, threshold))
    /\ UNCHANGED <<kind, nullifiers, owned>>

attestEmailVerified(root, flag) ==
    /\ Entry("email", root)
    /\ Committed(root, "email_verified", flag)
    /\ flag >= 1
    /\ record(keyOf(root, ZeroBytes))
    /\ UNCHANGED <<kind, nullifiers, owned>>

MutPresent(country) == TRUE  \* mutant: a credential without the claim passes
Present(country) == country # ZeroBytes
Leaves(set) == set \cup {ZeroBytes}

\* attestNationalityIn and attestResidencyIn differ in the claim and the tag.
AttestCountryIn(k, claim, root, verifier, set, country) ==
    /\ Entry(k, root)
    /\ Present(country)
    /\ country \in Leaves(set)
    /\ Committed(root, claim, country)
    /\ record(keyOf(root, <<verifier, set>>))
    /\ UNCHANGED <<kind, nullifiers, owned>>
attestNationalityIn(root, verifier, set, country) ==
    AttestCountryIn("nationality", "nationality", root, verifier, set, country)
attestResidencyIn(root, verifier, set, country) ==
    AttestCountryIn("residency", "residentCountry", root, verifier, set, country)

Mutnullifier(root, secret, epoch, app) == <<root, epoch, app>>  \* mutant: keyed by the credential
nullifier(root, secret, epoch, app) == <<secret, epoch, app>>

attestUniquePersonhood(root, epoch, app, secret) ==
    LET n == nullifier(root, secret, epoch, app) IN
    /\ Entry("personhood", root)
    /\ Committed(root, "personhoodSecret", secret)
    /\ n \notin nullifiers
    /\ nullifiers' = nullifiers \cup {n}
    /\ record(keyOf(root, <<epoch, app>>))
    /\ UNCHANGED <<kind, owned>>

Witness(claim) == {Claims[r][claim] : r \in Roots}

Attest ==
    \E root \in Roots \cup {ZeroRoot} :
       \/ \E dob \in Witness("birthdate"), asOf \in AsOf, min \in Thresholds :
             \/ attestAgeGte(root, min, asOf, dob)
             \/ \E max \in Thresholds : attestAgeRange(root, min, max, asOf, dob)
       \/ \E level \in Witness("verification_level"), t \in Levels : attestKycGte(root, t, level)
       \/ \E flag \in Witness("email_verified") : attestEmailVerified(root, flag)
       \/ \E verifier \in Verifiers, set \in CountrySets :
             \/ \E c \in Witness("nationality") : attestNationalityIn(root, verifier, set, c)
             \/ \E c \in Witness("residentCountry") : attestResidencyIn(root, verifier, set, c)
       \/ \E secret \in Witness("personhoodSecret"), epoch \in Epochs, app \in Apps :
             attestUniquePersonhood(root, epoch, app, secret)

AttestNext == Attest \/ (OwnedNext /\ UNCHANGED attestLedger)
AttestSpec == AttestInit /\ [][AttestNext]_attestVars
-----------------------------------------------------------------------------
\* Reference: completed years at asOf of someone born on dob.
Age(dob, asOf) ==
    (asOf \div 10000) - (dob \div 10000) - (IF asOf % 10000 < dob % 10000 THEN 1 ELSE 0)

\* Reference: what a key of each kind claims about the credential it names.
Holds(key) ==
    LET claim == Claims[key[2]] p == key[3] IN
    CASE key[1] = "age" -> Age(claim["birthdate"], p[2]) >= p[1]
      [] key[1] = "age_range" ->
            Age(claim["birthdate"], p[3]) >= p[1] /\ Age(claim["birthdate"], p[3]) <= p[2]
      [] key[1] = "kyc" -> claim["verification_level"] >= p
      [] key[1] = "email" -> claim["email_verified"] >= 1
      [] key[1] = "nationality" -> claim["nationality"] \in p[2]
      [] key[1] = "residency" -> claim["residentCountry"] \in p[2]
      [] key[1] = "personhood" -> TRUE

\* The ledger keeps its types, and the owner can call.
AttestTypeOK ==
    /\ OwnedType
    /\ kind \in Kinds
    /\ \A key \in attestations : key[1] = kind /\ key[2] \in Roots
    /\ attestTree \in Seq(attestations)
    /\ attestCount \in Nat
    /\ kind # "personhood" => nullifiers = {}

\* Every key on the ledger is a true statement about the credential it names,
\* by the calendar definition of age and by set membership.
AttestedIsTrue == \A key \in attestations : Holds(key)

\* One person, however many credentials carry the secret, is attested at most
\* once per epoch and application, and once per nullifier.
OnePerPerson ==
    \A a, b \in attestations :
       /\ a[1] = "personhood" /\ a[3] = b[3]
       /\ Claims[a[2]]["personhoodSecret"] = Claims[b[2]]["personhoodSecret"]
       => a = b

\* The Set, the tree and the counter describe the same attestations, each once,
\* although holders re-prove and resubmit the same key.
TreeAgrees ==
    /\ attestations = {attestTree[i] : i \in DOMAIN attestTree}
    /\ \A i, j \in DOMAIN attestTree : attestTree[i] = attestTree[j] => i = j
    /\ attestCount = Len(attestTree)

===============================================================================
