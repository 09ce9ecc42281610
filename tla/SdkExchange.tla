---------------------------- MODULE SdkExchange ----------------------------
(***************************************************************************)
(* One presentation through the SDK: OwlVerifier.requestPresentation and   *)
(* requestPredicates (verifier/presentation-flow.ts) ask, OwlWallet        *)
(* matches, attests, signs and answers (respondToPresentation, wallet.ts), *)
(* the verification service judges the vp_token (verify_dcql, dcql.rs).    *)
(* The relay's own steps are PresentationRelay's, the attestation run's    *)
(* are HolderAttest's; here each is one step that may fail.                *)
(***************************************************************************)
EXTENDS Integers, Sequences, FiniteSetsExt

CONSTANTS
    Cards,      \* credentials by order of issue, the newest the largest
    Stamped,    \* the owl_attestation refs of a card: [predicate, value]
    Vct,        \* the vct of a card
    Provable,   \* the predicates whose circuit accepts a card's claims
    DcqlAsked,  \* raw DCQL requests of requestPresentation
    Predicated, \* predicate lists of requestPredicates
    NoExt,      \* no owl_predicate, no credential_sets, no override
    MaxMonths   \* bound: months a clock reaches

ASSUME ExchangeAssumption ==
    /\ MaxMonths \in Nat \ {0}
    /\ \A r \in DcqlAsked : r.sets # NoExt => \A s \in Range(r.sets) : s.options \in Seq(Seq(STRING))

VARIABLES
    request,    \* the DCQL request of the session
    override,   \* the card the holder picked on the consent screen
    held,       \* the cards in the wallet's storage
    keys,       \* attestation keys on Midnight
    mirrored,   \* those of them the service's mirror has
    clock,      \* the month on the wallet's and on the service's clock
    flow,       \* runPresentationFlow: its promise, timer, socket, what it verifies and
                \* how the service's own checks and reads went
    answer,     \* respondToPresentation: the same, where its handler is, its picks, those
                \* not signed yet, and the one (if any) it has attested and is to sign
    wire        \* the message the relay carries to each side

exchangeVars == <<request, override, held, keys, mirrored, clock, flow, answer, wire>>

NoMsg == "none"
Predicate(kind, arg) == [kind |-> kind, arg |-> arg]
SdJwt == "dc+sd-jwt"
\* No vct_values: any vct will do.  The ids of a request are distinct.
Query(id, format, vcts, claims, owl) ==
    [id |-> id, format |-> format, vcts |-> vcts, claims |-> claims, owl |-> owl]
ById(id) == CHOOSE i \in DOMAIN request.credentials : request.credentials[i].id = id
QueryOf(id) == request.credentials[ById(id)]
Ids == {request.credentials[i].id : i \in DOMAIN request.credentials}

PathOf ==
    [age |-> "age_over", age_range |-> "age_range", kyc |-> "verification_level",
     residency |-> "resident_in", nationality |-> "nationality_in",
     email_verified |-> "email_verified", unique_personhood |-> "unique_person"]
toDcqlClaim(p) == [path |-> PathOf[p.kind], values |-> p.arg]
buildDcqlRequest(predicates) ==
    [credentials |-> <<Query("cred0", SdJwt, {}, {toDcqlClaim(p) : p \in predicates}, NoExt)>>,
     sets |-> NoExt]

ExchangeInit ==
    /\ request \in DcqlAsked \cup {buildDcqlRequest(ps) : ps \in Predicated}
    /\ override \in Cards \cup {NoExt}
    /\ held = Cards /\ keys = {} /\ mirrored = {}
    /\ clock = [wallet |-> 1, service |-> 1]
    /\ flow = [promise |-> "pending", timer |-> TRUE, sock |-> "open", asked |-> FALSE,
               token |-> <<>>, checks |-> <<>>]
    /\ answer = [promise |-> "pending", timer |-> TRUE, sock |-> "open", pc |-> "waiting",
                 picks |-> <<>>, todo |-> {}, current |-> {}]
    /\ wire = [holder |-> NoMsg, verifier |-> NoMsg]

----------------------------------------------------------------------------
(* What the wallet can answer. *)

\* Legacy path-as-route claims; an unknown path routes nowhere.
routeClaim(claim) ==
    IF \E k \in DOMAIN PathOf : PathOf[k] = claim.path
      THEN Predicate(CHOOSE k \in DOMAIN PathOf : PathOf[k] = claim.path, claim.values)
      ELSE NoExt

\* Tiers are stamped exactly, countries by the holder's own, the rest by name only.
owlPredicateCovered(refs, p) ==
    \E r \in refs : /\ r.predicate = p.kind
                    /\ p.kind = "kyc" => r.value = p.arg
                    /\ p.kind \in {"nationality", "residency"} => r.value \in p.arg
attestationCovers(refs, routed) == routed # NoExt /\ owlPredicateCovered(refs, routed)

\* The vct_values of the query are left to the service.
credentialSatisfies(c, q) ==
    /\ q.format = SdJwt
    /\ IF q.owl # NoExt THEN owlPredicateCovered(Stamped[c], q.owl)
       ELSE \A claim \in q.claims : attestationCovers(Stamped[c], routeClaim(claim))

Candidates(id) == {c \in held : credentialSatisfies(c, QueryOf(id))}
Matched == {id \in Ids : Candidates(id) # {}}

RowIn(row, ids) == Range(row) \subseteq ids
checkCredentialSets(ids) ==
    IF request.sets = NoExt THEN Ids \subseteq ids
    ELSE \A s \in Range(request.sets) : s.required => \E row \in Range(s.options) : RowIn(row, ids)

\* The first answerable row of every set, optional sets included.
FirstRow(options) ==
    LET rows == {i \in DOMAIN options : RowIn(options[i], Matched)} IN
    IF rows = {} THEN {} ELSE Range(options[Min(rows)])
IdsNeeded ==
    IF request.sets = NoExt THEN Ids
    ELSE UNION {FirstRow(s.options) : s \in Range(request.sets)}
chooseAcrossSets ==
    [id \in IdsNeeded |-> IF override \in Candidates(id) THEN override ELSE Max(Candidates(id))]

\* Queries without an owl_predicate contribute nothing.
requiredAttestationsFor(q) == IF q.owl = NoExt THEN {} ELSE {q.owl}

\* The keys of the age contracts carry the month, which is 0 in the others.
MonthOf(p, month) == IF p.kind \in {"age", "age_range"} THEN month ELSE 0
AttestKey(c, p, month) == <<c, p, MonthOf(p, month)>>

----------------------------------------------------------------------------
(* How the two promises settle. *)

Settles(side, outcome) == [side EXCEPT !.promise = IF @ = "pending" THEN outcome ELSE @]
CleanedUp(side) == [side EXCEPT !.timer = FALSE, !.sock = "closed"]
Ends(side, outcome) == CleanedUp(Settles(side, outcome))

chainAndStore == <<held, keys, mirrored>>
Asks(f, a, w) == flow' = f /\ answer' = a /\ wire' = w /\ UNCHANGED <<request, override, clock>>
Flow(f) == Asks(f, answer, wire) /\ UNCHANGED chainAndStore
Answer(a) == Asks(flow, a, wire) /\ UNCHANGED chainAndStore

\* ws.send on a socket that is no longer open drops the message.
ToVerifier(m) == IF answer.sock = "open" THEN [wire EXCEPT !.verifier = m] ELSE wire
Reply(m, a) == Asks(flow, [a EXCEPT !.pc = "done"], ToVerifier(m)) /\ UNCHANGED chainAndStore

\* A timer runs out: the socket is closed, the promise rejected.
FlowTimeout == flow.timer /\ Flow(Ends(flow, "rejected"))
AnswerTimeout == answer.timer /\ Answer(Ends(answer, "rejected"))
FlowErrors == flow.sock = "open" /\ Flow(Ends(flow, "rejected"))
AnswerErrors == answer.sock = "open" /\ Answer(Ends(answer, "rejected"))

\* The connection closes without an error event.  Only the verifier's side listens.
FlowCloses == flow.sock = "open" /\ Flow(CleanedUp(flow))
AnswerCloses == answer.sock = "open" /\ Answer([answer EXCEPT !.sock = "closed"])

\* session_ready: both sides are connected; the verifier sends its request.
SessionReady ==
    /\ flow.sock = "open" /\ answer.sock = "open" /\ ~flow.asked
    /\ Asks([flow EXCEPT !.asked = TRUE], answer, [wire EXCEPT !.holder = "request"])
    /\ UNCHANGED chainAndStore

----------------------------------------------------------------------------
(* respondToPresentation and OwlWallet.present. *)

Requested ==
    /\ answer.sock = "open" /\ wire.holder = "request"
    /\ Asks(flow, [answer EXCEPT !.pc = "consent"], [wire EXCEPT !.holder = NoMsg])
    /\ UNCHANGED chainAndStore

Deny == answer.pc = "consent" /\ Reply("consent_denied", Ends(answer, "resolved"))
Fails == Reply("proof_failed", Ends(answer, "rejected"))

\* Consent given: the wallet lists its cards anew, matches and chooses.
Match ==
    /\ answer.pc = "consent"
    /\ CASE ~checkCredentialSets(Matched) -> Fails
         [] checkCredentialSets(Matched) /\ IdsNeeded = {} -> Reply("response", Ends(answer, "resolved"))
         [] OTHER -> Answer([answer EXCEPT !.pc = "present", !.picks = chooseAcrossSets, !.todo = IdsNeeded])

Mutunattested(required, landed) == {}  \* mutant: the gate before signing is dropped
unattestedRequiredPredicates(required, landed) == required \ landed

\* ensureCredentialPredicatesAttested for one pick, and the gate behind it: the service may
\* find the predicate attested in its month, the others are proved in the wallet's.
Ensure(id) ==
    LET c == answer.picks[id]
        required == requiredAttestationsFor(QueryOf(id)) IN
    /\ answer.pc = "present" /\ answer.current = {}
    /\ \E found \in SUBSET {p \in required : AttestKey(c, p, clock.service) \in keys},
         proved \in SUBSET (required \cap Provable[c]) :
         /\ keys' = keys \cup {AttestKey(c, p, clock.wallet) : p \in proved \ found}
         /\ IF unattestedRequiredPredicates(required, found \cup proved) = {}
              THEN Asks(flow, [answer EXCEPT !.current = {id}], wire)
              ELSE Asks(flow, [Ends(answer, "rejected") EXCEPT !.pc = "done"], ToVerifier("proof_failed"))
    /\ UNCHANGED <<held, mirrored>>

\* The holder key is read, opened by the passkey, and signs; the last pick sends the response.
Sign(id) ==
    /\ answer.pc = "present" /\ answer.current = {id}
    /\ \/ /\ answer.picks[id] \in held
          /\ LET left == answer.todo \ {id} IN
             IF left # {}
               THEN Answer([answer EXCEPT !.todo = left, !.current = {}])
               ELSE Reply("response", [Ends(answer, "resolved") EXCEPT !.todo = {}])
       \/ Fails  \* no wrapped key left, or the prompt is refused

\* A card is removed from another tab of the wallet.
CardRemoved ==
    /\ \E c \in held : held' = held \ {c}
    /\ UNCHANGED <<request, override, keys, mirrored, clock, flow, answer, wire>>

\* A month ends on one side's clock; the sidecar's attestation event reaches the service.
ClockTurns ==
    /\ \E side \in DOMAIN clock : clock[side] < MaxMonths /\ clock' = [clock EXCEPT ![side] = @ + 1]
    /\ UNCHANGED <<request, override, held, keys, mirrored, flow, answer, wire>>
Mirrors ==
    /\ \E k \in keys \ mirrored : mirrored' = mirrored \cup {k}
    /\ UNCHANGED <<request, override, held, keys, clock, flow, answer, wire>>

----------------------------------------------------------------------------
(* The verifier. *)

Outcome(m) == IF m = "response" THEN "verifying" ELSE "failed"
FlowReceives ==
    /\ flow.sock = "open" /\ wire.verifier # NoMsg
    /\ Asks([Ends(flow, Outcome(wire.verifier)) EXCEPT
               !.token = IF wire.verifier = "response" THEN answer.picks ELSE @],
            answer, [wire EXCEPT !.verifier = NoMsg])
    /\ UNCHANGED chainAndStore

\* Another format or vct is refused, so are plaintext claims and a query without the extension.
VctAsked(q, c) == q.vcts = {} \/ Vct[c] \in q.vcts
derive_attest_key(q, c) ==
    IF q.format # SdJwt \/ ~VctAsked(q, c) \/ q.claims # {} \/ q.owl = NoExt
      THEN NoExt ELSE AttestKey(c, q.owl, clock.service)

\* What the service's other steps come to for one presentation.  "refused": by its own checks
\* (nonce, signatures, expiry, issuer, revocation); "unread": the read-through fails, or is
\* answered from a ledger of the sidecar that is behind.
Checks == {"ok", "refused", "unread"}
attestation_on_chain(key, check) == check = "ok" /\ key \in keys
Attested(id, c, check) ==
    LET key == derive_attest_key(QueryOf(id), c) IN key \in mirrored \/ attestation_on_chain(key, check)
Backfilled(token, checks) ==
    {derive_attest_key(QueryOf(id), token[id]) : id \in {i \in DOMAIN token : checks[i] = "ok"}} \cap keys

check_credential_sets(ids) ==
    IF request.sets = NoExt THEN Ids \subseteq ids
    ELSE \A s \in Range(request.sets) :
           s.required => \E i \in DOMAIN s.options : Range(s.options[i]) \subseteq ids
verify_dcql(token, checks) ==
    LET valid == {id \in DOMAIN token : checks[id] # "refused" /\ Attested(id, token[id], checks[id])} IN
    check_credential_sets(valid) /\ DOMAIN token = valid

Verified ==
    /\ flow.promise = "verifying"
    /\ \/ \E checks \in [DOMAIN flow.token -> Checks] :
            /\ Asks([flow EXCEPT !.checks = checks,
                                 !.promise = IF verify_dcql(flow.token, checks) THEN "valid" ELSE "invalid"],
                    answer, wire)
            /\ mirrored' = mirrored \cup Backfilled(flow.token, checks)
            /\ UNCHANGED <<held, keys>>
       \/ Flow([flow EXCEPT !.promise = "rejected"])

ExchangeStep ==
    \/ SessionReady \/ Requested \/ Deny \/ Match
    \/ \E id \in answer.todo : Ensure(id) \/ Sign(id)
    \/ FlowReceives \/ Verified
ExchangeNext ==
    \/ ExchangeStep \/ CardRemoved \/ ClockTurns \/ Mirrors
    \/ FlowTimeout \/ AnswerTimeout \/ FlowErrors \/ AnswerErrors \/ FlowCloses \/ AnswerCloses

ExchangeSpec == ExchangeInit /\ [][ExchangeNext]_exchangeVars

----------------------------------------------------------------------------
Extended(r) == \A i \in DOMAIN r.credentials : r.credentials[i].claims = {} /\ r.credentials[i].owl # NoExt

WrongVct(id) == ~VctAsked(QueryOf(id), flow.token[id])
KeyIn(id, month) == AttestKey(flow.token[id], QueryOf(id).owl, month)
OtherMonth(id) ==
    /\ KeyIn(id, clock.service) \notin keys
    /\ \E month \in 1..MaxMonths : KeyIn(id, month) \in keys
NotSeen(id, check) == check = "unread" /\ KeyIn(id, clock.service) \in keys \ mirrored

(* What the wallet signs and sends for a request of owl_predicate queries, the service finds invalid for
   four reasons only: its own checks refuse a presentation; the card's vct, which the wallet does not
   compare, is not an asked one; the age key is on the chain, but of another month; the key is on the chain,
   but neither mirrored nor read.  Never because the gate let an unattested predicate through, because the
   two sides derive other keys, or because the choice across credential_sets leaves a set open, whatever
   cards the wallet holds, loses or cannot prove meanwhile. *)
RefusalHasCause ==
    [][Extended(request) /\ flow.promise = "verifying" /\ flow'.promise = "invalid"
         => \E id \in DOMAIN flow.token :
              LET check == flow'.checks[id] IN
              check = "refused" \/ WrongVct(id) \/ OtherMonth(id) \/ NotSeen(id, check)]_exchangeVars

(* requestPredicates gets a verdict on the predicates it lists: what the wallet sends for them is not
   refused for the shape of the request itself, with every other check passed and every read answered. *)
PredicatesEnforced ==
    ~Extended(request) /\ request.sets = NoExt /\ flow.promise = "invalid"
      => \E id \in DOMAIN flow.token : flow.checks[id] # "ok"
=============================================================================
