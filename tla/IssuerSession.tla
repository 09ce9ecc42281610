----------------------------- MODULE IssuerSession -----------------------------
(***************************************************************************)
(* One verification session of the issuer service and the issuance of its  *)
(* credentials.                                                            *)
(*   database.rs       sessions and claims: two maps, one lock section per *)
(*                     method                                              *)
(*   main.rs           create, submit, auto-verify, complete, webhook,     *)
(*                     OIDC callback, issue                                *)
(*   mock_provider.rs, provider/didit.rs, provider/oidc_provider.rs        *)
(*                                                                         *)
(* Every handler is a chain of lock sections and awaits; a step of the     *)
(* model is one of them.  A request that is refused at its first read      *)
(* changes nothing and is left out.  No SAML or QR provider is registered, *)
(* so no session has those flows.                                          *)
(***************************************************************************)
EXTENDS Integers, Sequences

CONSTANTS
    Requests,   \* requests to the service after the session was created
    Forms,      \* identities a holder may enter in a provider's form
    MaxBatch,   \* bound: credentials asked for in one issue request (64)
    MaxCuts     \* bound: requests whose client disconnects

ASSUME MaxBatchAssumption == MaxBatch \in Nat \ {0}
ASSUME MaxCutsAssumption == MaxCuts \in Nat
ASSUME FormsAssumption == {"none", "sample", "person"} \cap Forms = {}

VARIABLES
    flow,       \* the session's provider: its flow type
    start,      \* where create_session is
    live,       \* the session is in the map
    expired,    \* its expires_at has passed
    status,     \* SessionStatus
    pending,    \* flow_state: "unbound", "bound" (external id known), "completed"
    issued,     \* credential_issued
    claims,     \* the claims map's entry for the session
    oidcState,  \* the entry of the OIDC state store
    decision,   \* Didit's decision
    pc,         \* where each request is
    held,       \* the claims a request carries
    batch,      \* the credentials an issue request asks for
    minted,     \* the credentials each issue request has minted
    cuts

session == <<live, expired, status, pending, issued>>
idp == <<oidcState, decision>>
requests == <<pc, held, batch, minted, cuts>>
vars == <<flow, start, session, claims, idp, requests>>

FormFlows == {"digid", "bankid"}
Flows == FormFlows \cup {"didit", "oidc"}
Identities == Forms \cup {"sample", "person"}
IssuePcs == {"claimed", "minting", "restoring"}
Pcs == IssuePcs \cup {"idle", "done", "expiring", "verifying", "asking", "hooked",
                      "finding", "peeked", "exchanging", "storing", "marking"}

Init ==
    /\ flow \in Flows
    /\ start = "none"
    /\ live = FALSE /\ expired = FALSE
    /\ status = "pending" /\ pending = "unbound" /\ issued = FALSE
    /\ claims = "none"
    /\ oidcState = "none" /\ decision = "undecided"
    /\ pc = [r \in Requests |-> "idle"]
    /\ held = [r \in Requests |-> "none"]
    /\ batch = [r \in Requests |-> 0]
    /\ minted = [r \in Requests |-> <<>>]
    /\ cuts = 0

Goto(r, where) == pc' = [pc EXCEPT ![r] = where]

(***************************************************************************)
(* create_session: insert, ask the provider, remember the external id      *)
(***************************************************************************)
Create ==
    /\ start = "none"
    /\ start' = "starting" /\ live' = TRUE
    /\ UNCHANGED <<flow, expired, status, pending, issued, claims, idp, requests>>

\* start_verification fails: the caller gets an error, the session stays.
StartFails ==
    /\ start = "starting" /\ flow \in {"didit", "oidc"}
    /\ start' = "failed"
    /\ UNCHANGED <<flow, session, claims, idp, requests>>

StartVerification ==
    /\ start = "starting"
    /\ start' = IF flow = "didit" THEN "binding" ELSE "ready"
    /\ oidcState' = IF flow = "oidc" THEN "held" ELSE oidcState
    /\ UNCHANGED <<flow, session, claims, decision, requests>>

\* update_flow_state is an error once the session has been cleaned up.
Bind ==
    /\ start = "binding"
    /\ start' = IF live THEN "ready" ELSE "failed"
    /\ pending' = IF live THEN "bound" ELSE pending
    /\ UNCHANGED <<flow, live, expired, status, issued, claims, idp, requests>>

(***************************************************************************)
(* Verification.  Each way ends in StoreClaims and MarkVerified.           *)
(***************************************************************************)
MutAfterProof == "marking"  \* mutant: the session is marked before its claims are stored
AfterProof == "storing"

Prove(r, who) ==
    /\ held' = [held EXCEPT ![r] = who]
    /\ Goto(r, AfterProof)

ShowsVerifying == {"digid"}

\* submit_identity's read of the session, on which the rest of it acts.
Submit(r, form) ==
    /\ pc[r] = "idle" /\ start = "ready" /\ live /\ flow \in FormFlows
    /\ IF expired
         THEN /\ Goto(r, IF flow = "digid" THEN "expiring" ELSE "done")
              /\ UNCHANGED held
         ELSE /\ status = "pending"
              /\ held' = [held EXCEPT ![r] = form]
              /\ Goto(r, IF flow \in ShowsVerifying THEN "verifying" ELSE AfterProof)
    /\ UNCHANGED <<flow, start, session, claims, idp, batch, minted, cuts>>

\* update_session_status, with the status decided by the earlier read.
UpdateStatus(r) ==
    /\ pc[r] \in {"expiring", "verifying"}
    /\ status' = IF ~live THEN status ELSE IF pc[r] = "verifying" THEN "verifying" ELSE "expired"
    /\ Goto(r, IF pc[r] = "verifying" /\ live THEN AfterProof ELSE "done")
    /\ UNCHANGED <<flow, start, live, expired, pending, issued, claims, idp,
                   held, batch, minted, cuts>>

AutoVerify(r) ==
    /\ pc[r] = "idle" /\ start = "ready" /\ live /\ ~expired /\ flow \in FormFlows
    /\ Prove(r, "sample")
    /\ UNCHANGED <<flow, start, session, claims, idp, batch, minted, cuts>>

\* complete_verification polls Didit unless the session is verified already.
Complete(r) ==
    /\ pc[r] = "idle" /\ start = "ready" /\ live /\ ~expired /\ flow = "didit"
    /\ status # "verified" /\ pending = "bound"
    /\ Goto(r, "asking")
    /\ UNCHANGED <<flow, start, session, claims, idp, held, batch, minted, cuts>>

\* Didit calls back, once or more, for a session it knows.
Webhook(r) ==
    /\ pc[r] = "idle" /\ start \in {"binding", "ready", "failed"} /\ flow = "didit"
    /\ decision # "undecided"
    /\ Goto(r, "hooked")
    /\ UNCHANGED <<flow, start, session, claims, idp, held, batch, minted, cuts>>

Approved == decision = "approved"

\* evaluate_decision of what the decision endpoint answers.
Answer(r) ==
    /\ pc[r] \in {"asking", "hooked"}
    /\ IF ~Approved THEN Goto(r, "done") /\ UNCHANGED held
       ELSE IF pc[r] = "asking" THEN Prove(r, "person")
       ELSE Goto(r, "finding") /\ held' = [held EXCEPT ![r] = "person"]
    /\ UNCHANGED <<flow, start, session, claims, idp, batch, minted, cuts>>

\* find_session_by_external_id: only a session that still waits is found.
FindSession(r) ==
    /\ pc[r] = "finding"
    /\ Goto(r, IF live /\ pending = "bound" THEN AfterProof ELSE "done")
    /\ UNCHANGED <<flow, start, session, claims, idp, held, batch, minted, cuts>>

\* oidc_callback peeks at the state to learn the session ...
OidcCallback(r) ==
    /\ pc[r] = "idle" /\ start = "ready" /\ oidcState = "held"
    /\ Goto(r, "peeked")
    /\ UNCHANGED <<flow, start, session, claims, idp, held, batch, minted, cuts>>

AfterTake == "taken"

\* ... and handle_oidc_callback takes it out of the store.
TakeState(r) ==
    /\ pc[r] = "peeked"
    /\ IF oidcState = "held"
         THEN oidcState' = AfterTake /\ Goto(r, "exchanging")
         ELSE Goto(r, "done") /\ UNCHANGED oidcState
    /\ UNCHANGED <<flow, start, session, claims, decision,
                   held, batch, minted, cuts>>

ExchangeCode(r) ==
    /\ pc[r] = "exchanging"
    /\ \/ Prove(r, "person")
       \/ Goto(r, "done") /\ UNCHANGED held
    /\ UNCHANGED <<flow, start, session, claims, oidcState, decision, batch, minted, cuts>>

\* store_claims does not look at the sessions.
StoreClaims(r) ==
    /\ pc[r] = "storing"
    /\ claims' = held[r]
    /\ Goto(r, "marking")
    /\ UNCHANGED <<flow, start, session, idp, held, batch, minted, cuts>>

MarkVerified(r) ==
    /\ pc[r] = "marking"
    /\ status' = IF live THEN "verified" ELSE status
    /\ pending' = IF live THEN "completed" ELSE pending
    /\ Goto(r, "done")
    /\ UNCHANGED <<flow, start, live, expired, issued, claims, idp, held, batch, minted, cuts>>

(***************************************************************************)
(* issue_credential                                                        *)
(***************************************************************************)
MutSlotFree == TRUE  \* mutant: the flag is set but not tested
SlotFree == ~issued

\* try_claim_issuance: test and set under one write lock.
ClaimIssuance(r, n) ==
    /\ pc[r] = "idle" /\ start = "ready" /\ live
    /\ status = "verified" /\ SlotFree
    /\ issued' = TRUE
    /\ batch' = [batch EXCEPT ![r] = n]
    /\ Goto(r, "claimed")
    /\ UNCHANGED <<flow, start, live, expired, status, pending, claims, idp, held, minted, cuts>>

ReadClaims(r) ==
    /\ pc[r] = "claimed"
    /\ held' = [held EXCEPT ![r] = claims]
    /\ Goto(r, IF claims = "none" THEN "restoring" ELSE "minting")
    /\ UNCHANGED <<flow, start, session, claims, idp, batch, minted, cuts>>

BatchDone(r) == Len(minted[r]) + 1 = batch[r]

\* One round of the batch loop: status index, signature, row.
Mint(r) ==
    /\ pc[r] = "minting"
    /\ minted' = [minted EXCEPT ![r] = Append(@, held[r])]
    /\ Goto(r, IF BatchDone(r) THEN "done" ELSE "minting")
    /\ UNCHANGED <<flow, start, session, claims, idp, held, batch, cuts>>

MutAfterFailure(r) == "done"  \* mutant: the slot is never given back
\* A batch that has minted something keeps the slot and answers with less.
AfterFailure(r) == IF minted[r] = <<>> THEN "restoring" ELSE "done"

MintFails(r) ==
    /\ pc[r] = "minting"
    /\ Goto(r, AfterFailure(r))
    /\ UNCHANGED <<flow, start, session, claims, idp, held, batch, minted, cuts>>

RestoreSlot(r) ==
    /\ pc[r] = "restoring"
    /\ issued' = IF live THEN FALSE ELSE issued
    /\ Goto(r, "done")
    /\ UNCHANGED <<flow, start, live, expired, status, pending, claims, idp,
                   held, batch, minted, cuts>>

(***************************************************************************)
(* Time, the cleanup loop, the providers, clients that go away             *)
(***************************************************************************)
Expire ==
    /\ live /\ ~expired
    /\ expired' = TRUE
    /\ UNCHANGED <<flow, start, live, status, pending, issued, claims, idp, requests>>

\* cleanup_expired holds both write locks.
CleanupExpired ==
    /\ live /\ expired
    /\ live' = FALSE /\ claims' = "none"
    /\ UNCHANGED <<flow, start, expired, status, pending, issued, idp, requests>>

OidcStateExpires ==
    /\ oidcState = "held"
    /\ oidcState' = "evicted"
    /\ UNCHANGED <<flow, start, session, claims, decision, requests>>

DiditDecides ==
    /\ flow = "didit" /\ start \in {"binding", "ready", "failed"} /\ decision = "undecided"
    /\ decision' \in {"approved", "declined"}
    /\ UNCHANGED <<flow, start, session, claims, oidcState, requests>>

\* The server drops a handler at the await where its client left it.
Disconnect(r) ==
    /\ pc[r] \notin {"idle", "done"} /\ cuts < MaxCuts
    /\ cuts' = cuts + 1
    /\ Goto(r, "done")
    /\ UNCHANGED <<flow, start, session, claims, idp, held, batch, minted>>

Next ==
    \/ Create \/ StartFails \/ StartVerification \/ Bind
    \/ Expire \/ CleanupExpired \/ OidcStateExpires \/ DiditDecides
    \/ \E r \in Requests :
         \/ \E form \in Forms : Submit(r, form)
         \/ \E n \in 1..MaxBatch : ClaimIssuance(r, n)
         \/ UpdateStatus(r) \/ AutoVerify(r) \/ Complete(r) \/ Webhook(r) \/ Answer(r)
         \/ FindSession(r) \/ OidcCallback(r) \/ TakeState(r) \/ ExchangeCode(r)
         \/ StoreClaims(r) \/ MarkVerified(r)
         \/ ReadClaims(r) \/ Mint(r) \/ MintFails(r) \/ RestoreSlot(r)
         \/ Disconnect(r)

Spec == Init /\ [][Next]_vars

(***************************************************************************)
(* Properties                                                              *)
(***************************************************************************)
\* All the credentials of a session come from one issue request, whatever
\* requests race, fail part-way, are dropped or outlive the session: the slot
\* of try_claim_issuance is given back only by a request that minted nothing.
OneBatch ==
    \A r, q \in Requests : minted[r] # <<>> /\ minted[q] # <<>> => r = q

\* A session in the map that is verified has its claims in the other map:
\* the two maps have separate locks, handlers stop between them, and the
\* cleanup loop runs between any two steps.
VerifiedHasClaims ==
    live /\ status = "verified" => claims # "none"

\* The slot is taken only while a request is issuing or after one has minted:
\* every failure path gives it back.  (A dropped handler takes no path.)
SlotFreed ==
    live /\ issued /\ cuts = 0 =>
        \E r \in Requests : pc[r] \in IssuePcs \/ minted[r] # <<>>

================================================================================
