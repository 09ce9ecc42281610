------------------------ MODULE PredicateContractProofs ------------------------
(***************************************************************************)
(* The predicate contracts, for every set of credentials, claims and       *)
(* arguments: the calendar arithmetic, the truth of attested keys, and     *)
(* uniqueness of personhood.                                               *)
(***************************************************************************)
EXTENDS PredicateContract, SequencesExt, SequenceTheorems, TLAPS

\* A YYYYMMDD number d is its year q and its day r.
LEMMA DateSplit ==
    ASSUME NEW d \in Nat, NEW q \in Nat, NEW r \in Nat, q = d \div 10000, r = d % 10000
    PROVE  d = 10000 * q + r /\ r <= 9999
<1>1. d = 10000 * q + r BY Z3
<1>2. r <= 9999 BY Z3
<1> QED BY <1>1, <1>2

Dated(dob, asOf, dy, dd, ay, ad) ==
    /\ dob = 10000 * dy + dd /\ dd <= 9999
    /\ asOf = 10000 * ay + ad /\ ad <= 9999
    /\ Age(dob, asOf) = ay - dy - (IF ad < dd THEN 1 ELSE 0)

\* The same, for the two dates that Age compares.
LEMMA AgeByYears ==
    ASSUME NEW dob \in Nat, NEW asOf \in Nat
    PROVE  \E dy \in Nat, dd \in Nat, ay \in Nat, ad \in Nat : Dated(dob, asOf, dy, dd, ay, ad)
<1>1. \A d \in Nat : d \div 10000 \in Nat /\ d % 10000 \in Nat OBVIOUS
<1>2. PICK dy \in Nat, dd \in Nat : dy = dob \div 10000 /\ dd = dob % 10000 BY <1>1
<1>3. PICK ay \in Nat, ad \in Nat : ay = asOf \div 10000 /\ ad = asOf % 10000 BY <1>1
<1>4. dob = 10000 * dy + dd /\ dd <= 9999 BY <1>2, DateSplit
<1>5. asOf = 10000 * ay + ad /\ ad <= 9999 BY <1>3, DateSplit
<1>6. Age(dob, asOf) = ay - dy - (IF ad < dd THEN 1 ELSE 0) BY <1>2, <1>3 DEF Age
<1>7. Dated(dob, asOf, dy, dd, ay, ad) BY <1>4, <1>5, <1>6 DEF Dated
<1> QED BY <1>7

\* The lower bound of predicate_age.compact is exact for all dates and thresholds,
\* leap days and underflow included.
THEOREM AgeThresholdExact ==
    \A dob, asOf, t \in Nat : OldEnough(dob, asOf, t) <=> Age(dob, asOf) >= t
<1> SUFFICES ASSUME NEW dob \in Nat, NEW asOf \in Nat, NEW t \in Nat
             PROVE OldEnough(dob, asOf, t) <=> Age(dob, asOf) >= t
  OBVIOUS
<1>1. PICK dy \in Nat, dd \in Nat, ay \in Nat, ad \in Nat : Dated(dob, asOf, dy, dd, ay, ad)
  BY AgeByYears
<1>2. CASE ad < dd BY <1>1, <1>2 DEF OldEnough, Dated
<1>3. CASE ~(ad < dd) BY <1>1, <1>3 DEF OldEnough, Dated
<1> QED BY <1>2, <1>3

\* The upper bound of predicate_age_range.compact is sound: who passes it has at
\* most that age.  (It is not exact: whoever has completed exactly that many years
\* and is past the birthday does not pass.)
LEMMA AgeUpperSound ==
    \A dob, asOf, t \in Nat : YoungEnough(dob, asOf, t) => Age(dob, asOf) <= t
<1> SUFFICES ASSUME NEW dob \in Nat, NEW asOf \in Nat, NEW t \in Nat, YoungEnough(dob, asOf, t)
             PROVE Age(dob, asOf) <= t
  OBVIOUS
<1>1. PICK dy \in Nat, dd \in Nat, ay \in Nat, ad \in Nat : Dated(dob, asOf, dy, dd, ay, ad)
  BY AgeByYears
<1>2. 10000 * dy + dd >= 10000 * ay + ad - 10000 * t BY <1>1 DEF YoungEnough, Dated
<1>3. CASE ad < dd BY <1>1, <1>2, <1>3 DEF Dated
<1>4. CASE ~(ad < dd) BY <1>1, <1>2, <1>4 DEF Dated
<1> QED BY <1>3, <1>4

\* Each recorded personhood key has its nullifier in the set.
NullifierKept ==
    \A a \in attestations : a[1] = "personhood" =>
       \E e \in Epochs, app \in Apps :
          a[3] = <<e, app>> /\ <<Claims[a[2]]["personhoodSecret"], e, app>> \in nullifiers

\* OnePerPerson is inductive only with NullifierKept, the rest as it stands.
IInv == AttestTypeOK /\ AttestedIsTrue /\ TreeAgrees /\ NullifierKept /\ OnePerPerson

\* Only pause, unpause and transferOwnership move the owner and the switch, and
\* they keep their types.
LEMMA OwnedStays == OwnedType /\ (OwnedNext \/ UNCHANGED owned) => OwnedType'
<1>1. ASSUME OwnedType, UNCHANGED owned PROVE OwnedType'
  BY <1>1 DEF OwnedType, owned
<1>2. ASSUME OwnedType, NEW caller \in Accounts, Pause(caller) PROVE OwnedType'
  BY <1>2 DEF OwnedType, Pause
<1>3. ASSUME OwnedType, NEW caller \in Accounts, Unpause(caller) PROVE OwnedType'
  BY <1>3 DEF OwnedType, Unpause
<1>4. ASSUME OwnedType, NEW caller \in Accounts,
             NEW to \in Accounts \cup Contracts \cup {ZeroAccount}, TransferOwnership(caller, to)
      PROVE OwnedType'
  BY <1>4 DEF OwnedType, TransferOwnership, MayOwn
<1> QED BY <1>1, <1>2, <1>3, <1>4 DEF OwnedNext

\* record adds the key to the set, and to the tree and the count once.
LEMMA RecordAdds ==
    ASSUME TreeAgrees, attestTree \in Seq(attestations), NEW key, record(key)
    PROVE  /\ attestations' = attestations \cup {key}
           /\ TreeAgrees' /\ attestTree' \in Seq(attestations') /\ attestCount' \in Nat
           /\ IsPrefix(attestTree, attestTree')
<1>0. Len(attestTree) \in Nat /\ DOMAIN attestTree = 1..Len(attestTree)
  BY LenProperties
<1>1. CASE key \in attestations
  <2>1. UNCHANGED <<attestations, attestTree, attestCount>> BY <1>1 DEF record
  <2>2. IsPrefix(attestTree, attestTree') BY <1>0, <2>1 DEF IsPrefix
  <2>3. TreeAgrees' BY <2>1 DEF TreeAgrees
  <2> QED BY <1>0, <1>1, <2>1, <2>2, <2>3 DEF TreeAgrees
<1>2. CASE key \notin attestations
  <2>1. /\ attestations' = attestations \cup {key}
        /\ attestTree' = Append(attestTree, key)
        /\ attestCount' = attestCount + 1
    BY <1>2 DEF record
  <2>2. attestTree \in Seq(attestations \cup {key})
    OBVIOUS
  <2>3. /\ attestTree' \in Seq(attestations \cup {key})
        /\ Len(attestTree') = Len(attestTree) + 1
        /\ \A i \in 1..Len(attestTree) : attestTree'[i] = attestTree[i]
        /\ attestTree'[Len(attestTree) + 1] = key
    BY <2>1, <2>2, AppendProperties
  <2>4. DOMAIN attestTree' = 1..(Len(attestTree) + 1)
    BY <2>3, LenProperties
  <2>5. attestations' = {attestTree'[i] : i \in DOMAIN attestTree'}
    BY <1>0, <2>1, <2>3, <2>4 DEF TreeAgrees
  <2>6. \A i, j \in DOMAIN attestTree' : attestTree'[i] = attestTree'[j] => i = j
    <3>1. \A i \in 1..Len(attestTree) : attestTree[i] # key
      BY <1>0, <1>2 DEF TreeAgrees
    <3>2. \A i, j \in 1..Len(attestTree) : attestTree[i] = attestTree[j] => i = j
      BY <1>0 DEF TreeAgrees
    <3> QED BY <1>0, <2>3, <2>4, <3>1, <3>2
  <2>7. attestCount' = Len(attestTree') /\ attestCount' \in Nat
    BY <1>0, <2>1, <2>3 DEF TreeAgrees
  <2>8. IsPrefix(attestTree, attestTree')
    BY <1>0, <2>3, <2>4 DEF IsPrefix
  <2> QED BY <2>1, <2>3, <2>5, <2>6, <2>7, <2>8 DEF TreeAgrees
<1> QED BY <1>1, <1>2

\* A new true key of a contract without nullifiers keeps the invariant.
LEMMA AttestKeeps ==
    ASSUME IInv, NEW root \in Roots, NEW p, record(keyOf(root, p)), Holds(keyOf(root, p)),
           kind # "personhood", UNCHANGED <<kind, nullifiers, owned>>
    PROVE  IInv'
<1> DEFINE key == keyOf(root, p)
<1>1. key[1] = kind /\ key[2] = root BY DEF keyOf
<1>2. /\ attestations' = attestations \cup {key}
      /\ TreeAgrees' /\ attestTree' \in Seq(attestations') /\ attestCount' \in Nat
  BY RecordAdds DEF IInv, AttestTypeOK
<1>3. OwnedType' BY OwnedStays DEF IInv, AttestTypeOK
<1> HIDE DEF key
<1>4. \A a \in attestations' : a[1] = kind /\ a[2] \in Roots
  BY <1>1, <1>2 DEF IInv, AttestTypeOK
<1>5. AttestTypeOK' BY <1>2, <1>3, <1>4 DEF IInv, AttestTypeOK
<1>6. AttestedIsTrue' BY <1>2 DEF IInv, AttestedIsTrue, key
<1>7. NullifierKept' /\ OnePerPerson' BY <1>4 DEF NullifierKept, OnePerPerson
<1> QED BY <1>2, <1>5, <1>6, <1>7 DEF IInv

\* attestUniquePersonhood: the fresh nullifier rules out an earlier key of the
\* same secret, epoch and application under any credential.
LEMMA PersonhoodKeeps ==
    ASSUME IInv, NEW root \in Roots, NEW epoch \in Epochs, NEW app \in Apps, NEW secret,
           attestUniquePersonhood(root, epoch, app, secret)
    PROVE  IInv'
<1> DEFINE key == keyOf(root, <<epoch, app>>)
           n == <<secret, epoch, app>>
<1>1. key[1] = "personhood" /\ key[2] = root /\ key[3] = <<epoch, app>>
  BY DEF keyOf, attestUniquePersonhood, Entry
<1>2. /\ kind = "personhood" /\ kind' = kind /\ UNCHANGED owned
      /\ Claims[root]["personhoodSecret"] = secret
      /\ n \notin nullifiers /\ nullifiers' = nullifiers \cup {n}
      /\ record(key)
  BY DEF attestUniquePersonhood, Entry, Committed, nullifier
<1>3. /\ attestations' = attestations \cup {key}
      /\ TreeAgrees' /\ attestTree' \in Seq(attestations') /\ attestCount' \in Nat
  BY <1>2, RecordAdds DEF IInv, AttestTypeOK
<1>4. Holds(key) BY <1>1 DEF Holds
<1> HIDE DEF key
<1>5. AttestTypeOK'
  <2>1. OwnedType' BY <1>2, OwnedStays DEF IInv, AttestTypeOK
  <2>2. \A a \in attestations' : a[1] = kind /\ a[2] \in Roots
    BY <1>1, <1>2, <1>3 DEF IInv, AttestTypeOK
  <2> QED BY <1>2, <1>3, <2>1, <2>2 DEF IInv, AttestTypeOK
<1>6. AttestedIsTrue' BY <1>3, <1>4 DEF IInv, AttestedIsTrue
<1>7. NullifierKept'
  <2>1. ASSUME NEW a \in attestations', a[1] = "personhood"
        PROVE \E e \in Epochs, x \in Apps :
                 a[3] = <<e, x>> /\ <<Claims[a[2]]["personhoodSecret"], e, x>> \in nullifiers'
    <3>1. CASE a = key BY <1>1, <1>2, <3>1
    <3>2. CASE a \in attestations BY <1>2, <2>1, <3>2 DEF IInv, NullifierKept
    <3> QED BY <1>3, <3>1, <3>2
  <2> QED BY <2>1 DEF NullifierKept
<1>8. ASSUME NEW b \in attestations, b[1] = "personhood", b[3] = <<epoch, app>>,
             Claims[b[2]]["personhoodSecret"] = secret
      PROVE FALSE
  <2>1. PICK e \in Epochs, x \in Apps :
           b[3] = <<e, x>> /\ <<Claims[b[2]]["personhoodSecret"], e, x>> \in nullifiers
    BY <1>8 DEF IInv, NullifierKept
  <2>2. e = epoch /\ x = app BY <1>8, <2>1
  <2> QED BY <1>2, <1>8, <2>1, <2>2
<1>9. OnePerPerson'
  <2>1. ASSUME NEW a \in attestations', NEW b \in attestations', a[1] = "personhood", a[3] = b[3],
               Claims[a[2]]["personhoodSecret"] = Claims[b[2]]["personhoodSecret"]
        PROVE a = b
    <3>0. b[1] = "personhood" BY <1>2, <1>5 DEF AttestTypeOK
    <3>1. CASE a = key /\ b \in attestations BY <1>1, <1>2, <1>8, <2>1, <3>0, <3>1
    <3>2. CASE b = key /\ a \in attestations BY <1>1, <1>2, <1>8, <2>1, <3>2
    <3>3. CASE a \in attestations /\ b \in attestations
      BY <2>1, <3>3 DEF IInv, OnePerPerson
    <3> QED BY <1>3, <3>1, <3>2, <3>3
  <2> QED BY <2>1 DEF OnePerPerson
<1> QED BY <1>3, <1>5, <1>6, <1>7, <1>9 DEF IInv

\* Every step keeps the invariant: each circuit's asserts imply what its key says.
LEMMA StepKeeps == IInv /\ [AttestNext]_attestVars => IInv'
<1> SUFFICES ASSUME IInv, [AttestNext]_attestVars PROVE IInv' OBVIOUS
<1>0. \A r \in Roots : /\ Claims[r]["birthdate"] \in Nat
                       /\ Claims[r]["verification_level"] \in Nat
                       /\ Claims[r]["email_verified"] \in Nat
  BY ClaimsAssumption
<1>1. ASSUME NEW root \in Roots \cup {ZeroRoot}, NEW dob, NEW asOf \in AsOf, NEW t \in Thresholds,
             attestAgeGte(root, t, asOf, dob)
      PROVE IInv'
  <2>1. root \in Roots /\ kind = "age" /\ dob = Claims[root]["birthdate"]
    BY <1>1 DEF attestAgeGte, Entry, Committed
  <2>2. Age(dob, asOf) >= t
    BY <1>0, <1>1, <2>1, AgeThresholdExact, ArgumentsAssumption DEF attestAgeGte
  <2>3. Holds(keyOf(root, <<t, asOf>>)) BY <2>1, <2>2 DEF Holds, keyOf
  <2> QED BY <1>1, <2>1, <2>3, AttestKeeps DEF attestAgeGte
<1>2. ASSUME NEW root \in Roots \cup {ZeroRoot}, NEW dob, NEW asOf \in AsOf,
             NEW min \in Thresholds, NEW max \in Thresholds, attestAgeRange(root, min, max, asOf, dob)
      PROVE IInv'
  <2>1. root \in Roots /\ kind = "age_range" /\ dob = Claims[root]["birthdate"]
    BY <1>2 DEF attestAgeRange, Entry, Committed
  <2>2. Age(dob, asOf) >= min /\ Age(dob, asOf) <= max
    BY <1>0, <1>2, <2>1, AgeThresholdExact, AgeUpperSound, ArgumentsAssumption
       DEF attestAgeRange, InRange
  <2>3. Holds(keyOf(root, <<min, max, asOf>>)) BY <2>1, <2>2 DEF Holds, keyOf
  <2> QED BY <1>2, <2>1, <2>3, AttestKeeps DEF attestAgeRange
<1>3. ASSUME NEW root \in Roots \cup {ZeroRoot}, NEW level, NEW t \in Levels,
             attestKycGte(root, t, level)
      PROVE IInv'
  <2>1. root \in Roots /\ kind = "kyc" /\ Claims[root]["verification_level"] >= t
    BY <1>3 DEF attestKycGte, Entry, Committed
  <2>2. Holds(keyOf(root, t)) BY <2>1 DEF Holds, keyOf
  <2> QED BY <1>3, <2>1, <2>2, AttestKeeps DEF attestKycGte
<1>4. ASSUME NEW root \in Roots \cup {ZeroRoot}, NEW flag, attestEmailVerified(root, flag)
      PROVE IInv'
  <2>1. root \in Roots /\ kind = "email" /\ Claims[root]["email_verified"] >= 1
    BY <1>4 DEF attestEmailVerified, Entry, Committed
  <2>2. Holds(keyOf(root, ZeroBytes)) BY <2>1 DEF Holds, keyOf
  <2> QED BY <1>4, <2>1, <2>2, AttestKeeps DEF attestEmailVerified
<1>5. ASSUME NEW root \in Roots \cup {ZeroRoot}, NEW verifier, NEW set, NEW c,
             attestNationalityIn(root, verifier, set, c)
      PROVE IInv'
  <2>1. root \in Roots /\ kind = "nationality" /\ Claims[root]["nationality"] \in set
    BY <1>5 DEF attestNationalityIn, AttestCountryIn, Entry, Committed, Present, Leaves
  <2>2. Holds(keyOf(root, <<verifier, set>>)) BY <2>1 DEF Holds, keyOf
  <2> QED BY <1>5, <2>1, <2>2, AttestKeeps DEF attestNationalityIn, AttestCountryIn
<1>6. ASSUME NEW root \in Roots \cup {ZeroRoot}, NEW verifier, NEW set, NEW c,
             attestResidencyIn(root, verifier, set, c)
      PROVE IInv'
  <2>1. root \in Roots /\ kind = "residency" /\ Claims[root]["residentCountry"] \in set
    BY <1>6 DEF attestResidencyIn, AttestCountryIn, Entry, Committed, Present, Leaves
  <2>2. Holds(keyOf(root, <<verifier, set>>)) BY <2>1 DEF Holds, keyOf
  <2> QED BY <1>6, <2>1, <2>2, AttestKeeps DEF attestResidencyIn, AttestCountryIn
<1>7. ASSUME NEW root \in Roots \cup {ZeroRoot}, NEW epoch \in Epochs, NEW app \in Apps, NEW secret,
             attestUniquePersonhood(root, epoch, app, secret)
      PROVE IInv'
  <2>1. root \in Roots BY <1>7 DEF attestUniquePersonhood, Entry
  <2> QED BY <1>7, <2>1, PersonhoodKeeps
<1>8. ASSUME UNCHANGED attestLedger, OwnedNext \/ UNCHANGED owned PROVE IInv'
  <2>1. OwnedType' BY <1>8, OwnedStays DEF IInv, AttestTypeOK
  <2>2. /\ kind' = kind /\ attestations' = attestations /\ attestTree' = attestTree
        /\ attestCount' = attestCount /\ nullifiers' = nullifiers
    BY <1>8 DEF attestLedger
  <2>3. AttestTypeOK' BY <2>1, <2>2 DEF IInv, AttestTypeOK
  <2> QED BY <2>2, <2>3 DEF IInv, AttestedIsTrue, TreeAgrees, NullifierKept, OnePerPerson
<1>9. CASE Attest
  BY <1>1, <1>2, <1>3, <1>4, <1>5, <1>6, <1>7, <1>9 DEF Attest
<1> QED BY <1>8, <1>9 DEF AttestNext, attestVars

\* The empty ledger satisfies the invariant.
LEMMA InitHolds == AttestInit => IInv
<1> SUFFICES ASSUME AttestInit PROVE IInv OBVIOUS
<1>1. attestTree \in Seq(attestations) /\ Len(attestTree) = 0 /\ DOMAIN attestTree = {}
  BY EmptySeq DEF AttestInit
<1>2. AttestTypeOK BY <1>1 DEF AttestInit, AttestTypeOK, OwnedInit, OwnedType
<1>3. TreeAgrees BY <1>1 DEF AttestInit, TreeAgrees
<1> QED BY <1>2, <1>3 DEF AttestInit, IInv, AttestedIsTrue, NullifierKept, OnePerPerson

\* Truth, uniqueness and agreement, for every set of credentials.
THEOREM PredicateInvariant == AttestSpec => []IInv
  BY InitHolds, StepKeeps, PTL DEF AttestSpec

\* Every attested key is a true statement about the credential it names.
THEOREM AttestationsAreTrue == AttestSpec => []AttestedIsTrue
<1>1. IInv => AttestedIsTrue BY DEF IInv
<1> QED BY <1>1, PredicateInvariant, PTL

\* A relayed proof that is submitted twice is recorded once: the tree and the count
\* hold each attested key exactly once.
THEOREM RecordsCounted == AttestSpec => []TreeAgrees
<1>1. IInv => TreeAgrees BY DEF IInv
<1> QED BY <1>1, PredicateInvariant, PTL

\* One person is attested once per epoch and application.
THEOREM PersonhoodUnique == AttestSpec => []OnePerPerson
<1>1. IInv => OnePerPerson BY DEF IInv
<1> QED BY <1>1, PredicateInvariant, PTL
===============================================================================
