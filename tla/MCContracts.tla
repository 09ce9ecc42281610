------------------------------ MODULE MCContracts -----------------------------
(***************************************************************************)
(* TLC instance of the contracts.  Each is deployed on its own, with its   *)
(* own owner and no call between them, so a behaviour has one of them,     *)
(* which `deployed' names, and the others keep their empty ledger.         *)
(*                                                                         *)
(* The predicate contracts see three credentials: two of one person (a     *)
(* batch), born on a leap day, and one of somebody born at a month's end,  *)
(* without country claims.                                                 *)
(***************************************************************************)
EXTENDS RevocationRegistry, IssuerRegistry, IdentityRegistry, PredicateContract, TLC

CONSTANTS r1, r2, r3, s1, s2

MCClaims ==
    LET Claim(dob, level, flag, nat, res, secret) ==
          [c \in ClaimNames |->
             CASE c = "birthdate" -> dob [] c = "verification_level" -> level
               [] c = "email_verified" -> flag [] c = "nationality" -> nat
               [] c = "residentCountry" -> res [] c = "personhoodSecret" -> secret]
    IN [r \in {r1, r2, r3} |->
          CASE r = r1 -> Claim(20040229, 2, 1, "NL", "DE", s1)
            [] r = r2 -> Claim(20040229, 2, 1, "NL", "DE", s1)
            [] r = r3 -> Claim(20060731, 1, 0, ZeroBytes, ZeroBytes, s2)]
MCAsOf == {20220201, 20220301, 20240801}
MCCountrySets == {{"NL", "BE"}, {"DE"}}
MCVerifiers == {"v"}

VARIABLE deployed

registries == <<ledger, issuerLedger, identityLedger>>

MCInit ==
    /\ Init /\ IssuerInit /\ IdentityInit /\ AttestInit
    /\ deployed \in {"revocation", "issuer", "identity", "predicate"}
    /\ deployed # "predicate" => kind = "age"

MCNext ==
    /\ UNCHANGED deployed
    /\ \/ deployed = "revocation" /\ Next /\ UNCHANGED <<issuerLedger, identityLedger, attestLedger>>
       \/ deployed = "issuer" /\ IssuerNext /\ UNCHANGED <<ledger, identityLedger, attestLedger>>
       \/ deployed = "identity" /\ IdentityNext /\ UNCHANGED <<ledger, issuerLedger, attestLedger>>
       \/ deployed = "predicate" /\ AttestNext /\ UNCHANGED registries

MCSpec == MCInit /\ [][MCNext]_<<registries, attestLedger, owned, deployed>>

\* Members of these sets enter a behaviour as arguments only.
Symmetry ==
    UNION {Permutations(S) : S \in {RootHashes, IssuerHashes, Dids, Values, Secrets}}
===============================================================================
