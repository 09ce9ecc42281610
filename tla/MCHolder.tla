------------------------------- MODULE MCHolder -------------------------------
(***************************************************************************)
(* TLC instance of the holder's side of a presentation: the attestation    *)
(* run, the unlock session it goes on under, and the SDK exchange around   *)
(* it.  A behaviour runs one of them, which `part' names.                  *)
(*                                                                         *)
(* Attestation: two presentations at once of credentials of one batch,     *)
(* hence of one person, or of the same credential in two tabs; the holder  *)
(* turns 18 between the two months.  Exchange: an older card with a tier   *)
(* and a newer one with a country, neither of which can prove everything   *)
(* it is stamped with.                                                     *)
(***************************************************************************)
EXTENDS HolderAttest, WalletSession, SdkExchange

CONSTANTS h1, h2, r1, r2, s1

MCClaims ==
    [r \in {r1, r2} |->
       [c \in {"birthdate", "verification_level", "email_verified", "nationality",
               "residentCountry", "personhoodSecret"} |->
          CASE c = "birthdate" -> 20080115 [] c = "verification_level" -> 2
            [] c = "email_verified" -> 1 [] c = "nationality" -> "NL"
            [] c = "residentCountry" -> "DE" [] c = "personhoodSecret" -> s1]]
MCAsk ==
    [threshold |-> 18, minAge |-> 17, maxAge |-> 30, level |-> 2, countries |-> {"NL", "DE"},
     verifier |-> "v", epoch |-> "e", app |-> "a"]
MCMonths == <<20260101, 20260201>>

Age == Predicate("age", 18)
Tier(n) == Predicate("kyc", n)
Country == Predicate("nationality", {"NL", "BE"})
Ref(p, v) == [predicate |-> p, value |-> v]
MCStamped == <<{Ref("age", 0), Ref("kyc", 2)}, {Ref("age", 0), Ref("nationality", "NL")}>>
MCProvable == <<{Age, Tier(2)}, {Country}>>

MCVct == [c \in Cards |-> "identity"]
Owl(id, p) == Query(id, SdJwt, {}, {}, p)
Ask1(p) == <<Owl("q", p)>>
All3 == <<Owl("a", Age), Query("k", SdJwt, {"identity"}, {}, Tier(2)), Owl("n", Country)>>
Dcql(credentials, sets) == [credentials |-> credentials, sets |-> sets]
Set(options, required) == [options |-> options, required |-> required]
MCAsked ==
    { Dcql(Ask1(Age), NoExt), Dcql(Ask1(Tier(1)), NoExt), Dcql(All3, NoExt),
      Dcql(<<Query("q", SdJwt, {"diploma"}, {}, Tier(2))>>, NoExt),
      Dcql(<<Query("m", "mso_mdoc", {}, {}, Age), Owl("k", Tier(2))>>,
           <<Set(<< <<"m">>, <<"k">> >>, TRUE)>>),
      Dcql(Ask1(Tier(1)), <<Set(<< <<"q">> >>, FALSE)>>),
      Dcql(All3, <<Set(<< <<"a", "n">>, <<"k">> >>, TRUE), Set(<< <<"n">> >>, FALSE)>>) }
MCPredicated == {{Age}, {Age, Country}}

VARIABLE part

\* Two presentations at once where they can disturb one another in more than
\* one way, one presentation elsewhere.
AttestInstance ==
    /\ credential[h1] = r1 /\ run[h1].step = "check"
    /\ chain.kind \in {"age", "personhood"} => run[h2].step = "check"
    /\ chain.kind \notin {"age", "personhood"} => run[h2].step = "done" /\ credential[h2] = r1
    /\ chain.kind = "age" => credential[h2] = r1

\* A part that does not run has nothing enabled: its fairness asks for nothing.
AttestIdle ==
    /\ chain.kind = "age"
    /\ \A h \in Holders : run[h].step = "done" /\ credential[h] = r1
ExchangeIdle ==
    /\ request = Dcql(Ask1(Age), NoExt) /\ override = NoExt /\ held = {} /\ keys = {}
    /\ mirrored = {} /\ clock = [wallet |-> 1, service |-> 1]
    /\ flow = [promise |-> "rejected", timer |-> FALSE, sock |-> "closed"]
    /\ answer = [promise |-> "rejected", timer |-> FALSE, sock |-> "closed"]
    /\ wire = [holder |-> NoMsg, verifier |-> NoMsg]

MCInit ==
    /\ part \in {"attest", "session", "exchange"}
    /\ AttestRunInit /\ IF part = "attest" THEN AttestInstance ELSE AttestIdle
    /\ WalletSessionInit
    /\ IF part = "exchange" THEN ExchangeInit ELSE ExchangeIdle

MCNext ==
    /\ UNCHANGED part
    /\ \/ part = "attest" /\ AttestRunNext /\ UNCHANGED <<walletSessionVars, exchangeVars>>
       \/ part = "session" /\ WalletSessionNext /\ UNCHANGED <<attestRunVars, exchangeVars>>
       \/ part = "exchange" /\ ExchangeNext /\ UNCHANGED <<attestRunVars, walletSessionVars>>

MCSpec ==
    /\ MCInit /\ [][MCNext]_<<attestRunVars, walletSessionVars, exchangeVars, part>>
    /\ \A h \in Holders : WF_attestRunVars(HolderStep(h))
===============================================================================
