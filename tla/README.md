# A TLA+ model of OwlID

OwlID issues SD-JWT verifiable credentials, lets a holder present them or prove
single facts about them on the Midnight chain, and lets verifiers check both.
This directory holds TLA+ modules for the parts of the repository whose
correctness depends on order, concurrency or failure, the TLC configurations
that check them on small instances, and TLAPS proofs of the results that matter
most. Source paths below are relative to `src/`; `sidecar/` stands for
`packages/midnight-sidecar/src/`, `verification/` for
`crates/verification-service/src/`, `issuer/` for `crates/issuer-service/src/`,
`sdk/` for `packages/sdk/src/` and `app/` for `packages/app/src/`.

To check a run: `tlc -config X.cfg MCX`, with the files `PROJECT.json` names. To check the proofs of a module:
`tlapm XProofs.tla`. `PROJECT.json` maps every definition to the source lines it
models and lists the runs, the mutants that show each property can fail, the
findings, the hazards and the theorems.

## 1. The system

| Component | State it keeps | Operations | Talks to |
|---|---|---|---|
| Wallet supervisor and submit pipeline (`sidecar/submit-pipeline.ts`, `wallet-supervisor.ts`) | one serializer queue, the SDK's pending (reserved) transactions, dust coins | submit in two phases, revert, periodic reap, shortfall reap, live-evict | the node, the indexer, the wallet SDK |
| Relay batcher (`sidecar/relay-batcher.ts`) | a buffer, a timer, flushes in flight, one promise per job | submit, window, flush, bisect | the submit pipeline |
| Relay jobs (`sidecar/midnight.ts`, `routes/predicates.ts`) | a map of jobs with a TTL, one SSE stream per listening holder | relay, run, read, stream | the batcher, the indexer |
| Contracts (`packages/midnight-sidecar/contracts/`) | three registries and seven predicate ledgers, each with an owner and a pause switch | the exported circuits | called through the pipeline |
| Ledger view and `/events` (`sidecar/midnight.ts`, `routes/events.ts`) | the last ledger seen, a subscription, a poller, SSE connections | join, deliver, poll, diff, snapshot, tail | the indexer; consumers |
| Revocation mirror (`verification/sidecar_events.rs`, `db/repositories/revocations.rs`, `api.rs`) | table `revocations`, an in-memory cache | consume an event; revoke, suspend, reactivate, check, verify | the sidecar, Postgres |
| Presentation relay (`verification/presentation.rs`) | sessions: nonce, TTL, two role slots, two buffered messages; a channel per socket | connect, relay, disconnect, consume the nonce, clean up | the two apps |
| Wallet hook and verifier app (`app/hooks/use-presentation.ts`, `packages/verifier-app/src/App.tsx`) | a screen state, a socket, the token being proved | scan, request, consent, prove, send, verify, reconnect, cancel | the relay, `/verify` |
| Issuer sessions (`issuer/main.rs`, `database.rs`, `provider/`) | sessions and claims in two maps, the OIDC state store | create, submit, complete, webhook, OIDC callback, issue, clean up | identity providers |
| Sidecar client (`sidecar/client.ts`, `index.ts`, `midnight.ts`) | the current client object, abandoned ones, the back-off delay | build, check the chain, connect, time out, back off, serve | the indexer |
| Dust registration (`sidecar/wallet-supervisor.ts`, `wallet.ts`) | the time of the last registration, a section in the serializer | tick, register | the chain |
| Attestation run (`sdk/midnight/orchestrator.ts`, `prove.ts`, `contracts/<kind>/index.js`) | locals of one call: attempt, transcript, status | look up, prove, relay, follow, prove again | the relay, the contracts |
| SDK exchange (`sdk/verifier/presentation-flow.ts`, `wallet.ts`, `present.ts`, `predicates.ts`) | two promises with a timer and a socket each | request, match, choose, attest, sign, answer | the presentation relay, `/verify` |
| Holder app's store (`sdk/storage.ts`, `webauthn.ts`, `recovery-wallet.ts`, `app/lib/`, `app/hooks/use-idp-api.ts`) | `localStorage`, shared by the tabs; backups at the issuer | restore or issue, remove, revoke, reset, export, import | the issuer service, the authenticator |
| Unlock session (`app/lib/wallet-session.ts`, `app/hooks/use-wallet-session.ts`) | time left, two timers, open passkey prompts | unlock, refresh, hide, lock | the browser |

`PROJECT.json` lists the rest of the repository as well (mirrors of other topics,
DID anchors, status list, admin console, and so on) with what is planned for each
or why it is left out.

Four flows cross these components.

* *Issuance.* A holder opens a session, proves an identity to a provider, and
  asks once for a batch of credentials. The app first tries to restore a backup
  under one of its passkeys, and seals the seed of a new credential before it asks.
* *Presentation.* The wallet opens a session and shows a QR code. The verifier
  joins, sends a request, the holder consents, the wallet proves, the relay
  carries the answer, and the verifier posts it to `/verify`, which consumes the
  session's nonce.
* *Predicate attestation.* The wallet proves a circuit call on the device and
  posts the transaction to the relay. The batcher merges it with others, the
  pipeline pays the fee and broadcasts, the contract records a key, and the
  holder follows the job over SSE.
* *Revocation.* The service calls the registry contract through the sidecar and
  then writes its own row and cache. The contract's state also comes back over
  the indexer, the sidecar's view and `/events`, and is mirrored.

What is hard in them, and what makes each component correct:

| Component | Hard because | Correct when |
|---|---|---|
| Submit pipeline | balance, reserve, broadcast and revert of several submits interleave; broadcasts lose answers; two reapers guess whether a transaction is dead | no coin is reserved twice; a selection is not changed underneath a balance; no retry after a reserve; only dead transactions are reaped; every submit settles and every reservation ends |
| Batcher | window, full batch and flushes overlap; a batch may land without an answer and is then retried job by job | no job is lost or doubled; a resolved job is on chain; one bad job does not reject the others; every promise settles |
| Relay jobs | a stream reads, awaits a write, then subscribes; the map is lost at a restart | statuses come in order and truthfully; a stream that subscribes in time is woken |
| Contracts | long sequences of legal calls; several maps that must agree; date arithmetic | maps, sets and trees agree; revocation is final; a key states a true fact, once per person |
| Feed and mirror | late polls, dead subscriptions, a gap between snapshot and tail, two-step writes, restarts | a reader without a gap agrees with the sidecar; reconnects repair the rest; nothing is invented; what was acknowledged stays listed |
| Presentation | two sockets, two handlers, two apps, reconnects at any point, bounded channels | a role has one socket; the last message is handed over; the nonce is used once; the verdict is the holder's; handlers return |
| Issuer sessions | handlers stop between locks of different maps; retries, races, cleanup, dropped clients | one batch per session; claims behind every verified status; the slot comes back after a failure |
| Sidecar client | a connect that timed out goes on behind the next one; contracts vanish in a testnet reset | what is served is whole; the sidecar comes back |
| Dust registration | the guard is read outside the section that acts on it | NIGHT that arrives is registered |
| Attestation run | proofs are made on old ledgers and replayed later, twice or after everybody gave up | a replay does what an atomic call would; a success is on chain; a cancel holds; every run ends |
| SDK exchange | matching, attesting, signing and judging are done by different code on different sides, with two clocks and a mirror that lags | what the wallet signs the service refuses only for a cause the wallet leaves to it |
| Holder app's store | several tabs on one store, writes that fail half way, passkeys that go | the one-shot issuance slot is spent on a sealed seed only; a reset wipes no card it listed and did not revoke; a recovery file is whole |
| Unlock session | two timers, nested prompts, prompts that hide the tab | no timer locks under a prompt or a running verification, or before its own time |

## 2. Modules

| Module | Models | Built on |
|---|---|---|
| `SubmitPipeline` | submit pipeline, supervisor, dust coins | |
| `RelayPromise` | abstract contract of a relayed job: called, then resolved with others or rejected alone | |
| `RelayBatcher` | the batcher | refines `RelayPromise` |
| `RelayJobs` | job registry and SSE stream | extends `RelayPromise` in place of the batcher |
| `RelayService` | jobs and batcher in one process | composes `RelayBatcher` and `RelayJobs` |
| `SidecarClient` | client objects, supervision, connect and join | |
| `DustRegistration` | the registration loop | |
| `OwnedContract` | Ownable and Pausable | |
| `RevocationRegistry`, `IssuerRegistry`, `IdentityRegistry`, `PredicateContract` | the contracts | extend `OwnedContract` |
| `HolderAttest` | the attestation run and the compiled circuits | refines `PredicateContract` |
| `SdkExchange` | request, match, answer and verdict of one SDK presentation | |
| `WalletSession` | the unlock session | |
| `HolderWallet` | the holder app's store under several tabs | |
| `LedgerFeed` | sidecar view, poller, subscription, `/events` | |
| `FeedReader` | the feed with a plain consumer | extends `LedgerFeed` |
| `RevocationMirror` | the feed with the table, the cache and the API requests | extends `LedgerFeed` |
| `PresentationRelay` | session store and WebSocket handlers | |
| `PresentationFlow` | both apps and `/verify` over the relay | extends `PresentationRelay` |
| `IssuerSession` | one session of the issuer service | |
| `*Proofs` | theorems: `SubmitPipelineProofs`, `PredicateContractProofs` about the module of that name, `SidecarProofs` about batcher, jobs and client, `RegistryProofs` about the three registries, `ChainViewProofs` about feed, reader and mirror, `PresentationProofs` about relay and apps, `IssuanceProofs` about the issuer's session and the holder's store, `HolderProofs` about attestation, unlock session and SDK exchange | extend those and TLAPS |
| `MC*` | instances for TLC | extend what they instantiate |

An `MC` module may instantiate several modules that share no state. Its variable
`part` then says which of them a behaviour runs; the others stay in a state in
which nothing is enabled, so that no property can hold by their fairness.

How state and actions correspond to the code:

**SubmitPipeline.** `queue` is the promise chain of `serialize`, its head the
section that is running. `pc[t]` is where `submitTx` is: phase 1 inside a section
(`EnsureReady`, `BalanceTx`, `Reserve`), phase 2 outside (`BroadcastOk`,
`BroadcastFails`), then `RevertReserved` in a section of its own. `pending` is the
SDK's pending set, `net` what the network did with a transaction. A dust coin is
a pair of lane and generation, since spending one leaves its change as the next.
`Tick` ages reservations against the three graces, which keep the order of the
code's constants (90 s shortfall grace, 30 min chain TTL, longer periodic grace).
`revertTransaction` is keyed by the transaction, as the wallet's own comment says
(`sidecar/wallet.ts:89`).

**RelayBatcher, RelayJobs, RelayService.** A flush is named by the set of jobs it
merges. What `flush` does is external: it accepts, refuses, or accepts and loses
the answer. `RelayJobs` sees the batcher through `RelayPromise` only, and
`RelayService` puts the two together: one request both creates the job and calls
`submit`, and a restart takes batcher, job table and streams down at once.
`runRelayJob` runs up to its first await inside the request, so no phase "queued"
is visible.

**SidecarClient.** Every attempt of `initClient` builds an object of its own.
`withTimeout` cancels nothing, so an object that lost the race keeps joining
contracts (`joinContract`) after the module variable has been cleared; `client`
is that variable, `object[o]` what a connect has done so far. `ChainReset` and
`IndexerFinds` move the contracts under it.

**DustRegistration.** `Tick` reads the guard and queues a section,
`registerNightForDust` runs in it, and only its end writes the time the guard
reads. Other sections may come in between.

**Contracts.** One action per circuit that changes the ledger; a failed assert
leaves the ledger alone and needs no action. A Map is a function with `None` where
there is no entry. Hashes are one-to-one, and a Merkle path exists exactly for a
leaf of the tree. `PredicateContract` has one attest action per contract, and
`kind` says which of the seven is deployed. Pure circuits that read are operators.

**HolderAttest.** A step of `run[h]` is the code of
`ensureCredentialPredicatesAttested` between two awaits. A compiled circuit does
not change the ledger: `Transcript` records what `_record_0` reads and would
write, on the ledger the indexer served, and `Written` applies it when the chain
replays it, if `ReadsAgree`. `floating` holds transactions nobody waits for any
more (a lost answer, a cancel, a restart of the sidecar), which may still land.

**SdkExchange.** `flow` and `answer` are the two promises with their timers and
sockets; `Match` is `chooseAcrossSets` over the cards held at that moment,
`Ensure` one attestation with the gate behind it, `Sign` the holder key, and
`verify_dcql` the verdict. `clock` has the month of either side, which turn
independently: an age key is proved in the wallet's month and looked up in the
service's. The service sees a key in its mirror (`Mirrors` is the event that brings
it) or by reading through to the sidecar. `flow.checks` says, per presentation,
whether the service's own checks refused it and whether that read was answered with
the key when it is on the chain. The wallet compares the format of a query but not
its `vct_values`. The relay and the attestation run are single steps that may fail
here; they have modules of their own.

**HolderWallet.** One step per await of a tab's operation on the shared keys of
`localStorage`: index, blob and sealed key are separate writes, any of which may
fail when the store is full. A passkey is a value a key is sealed under; hints and
the picker decide which one opens.

**WalletSession.** Time is counted in ticks. A timer that is due may fire late.
`depth` is the counter of open ceremonies, `prompts` the prompts really open,
`hiddenFor` and `unlockedFor` the times the properties compare the timers with.

**LedgerFeed.** The chain is a sequence of ledger versions, `view` the version
held in `currentLedger`, `poll` the version a query in flight will answer with
(it may be old by then), `sub` the position of the subscription. `Connect`,
`SendSnapshot` and `Subscribe` are the three steps of the SSE handler, and `gap`
remembers that the ledger moved between the last two.

**RevocationMirror.** A writer, a request or the consumer, goes through chain
call, row and cache, one step each; a hang-up, a database error or a crash may
come in between. An id has the two spellings the code uses, hex and base64url.
Rows never expire: no caller sets the column.

**PresentationRelay, PresentationFlow.** One record per socket: where its handler
is, its channel, what the client and the handler have sent each other. Each lock
of the store and each `send` on a channel is one step. The apps' records follow
the hook's and the screen's states, reconnects included.

**IssuerSession.** A request is where its handler stands between two lock
sections or awaits. `flow` ranges over the providers that are registered: the two
forms (DigiD, BankID), Didit and OIDC.

## 3. Runs

| Run | Instance | Checks |
|---|---|---|
| `pipeline` | 2 transactions, 1 lane, 1 retry, graces 1, 2 and 3, 1 failed revert | disjoint reservations; the periodic reaper takes only dead transactions; every submit settles; every reservation is released |
| `sidecar` | *relay*: 3 jobs, 1 that never lands, 1 malformed, batches of 2, 1 restart, 1 cut stream; *client*: 2 registries and 1 predicate contract, 2 faults; *dust*: 2 coins, 2 failures | each job in one place; statuses told truthfully; refinement of `RelayPromise`; a stream that subscribes in time is woken; what is served is whole; the sidecar comes back; NIGHT is registered |
| `contracts` | 2 accounts, 2 to 3 of each datum, 4 events | the revocation set agrees with the map; revocation is final; trusted issuers have their key; a DID keeps its owner while active; attestations are true, once per person |
| `chain_view` | *reader*: 2 credentials, 4 ledger versions, 1 restart; *mirror*: 1 credential in 2 spellings, 3 versions, 2 clients, 1 crash | no loss without a gap; no phantom revocation; an acknowledged listing stays listed |
| `chain_view_liveness` | 1 credential, 3 versions, 1 client, 1 request | the poller alone catches up; replay brings the consumer's rows and cache into agreement with the chain |
| `presentation` | channels of 3, 1 broken connection | slots, hand-over, one use of the nonce, verdict, delivery, handlers that return |
| `issuance` | *issuer*: 4 requests, 2 identities, batches of 2, 1 dropped client; *wallet*: 2 tabs, 2 cards, 2 passkeys, 4 operations | one batch; claims behind verified; the slot comes back; a slot for a sealed seed; wiped means revoked; a whole recovery file |
| `holder` | *attest*: 2 presentations, 7 circuits, 2 months, 2 attempts, 1 restart, 1 pause; *exchange*: 2 cards of two vcts, 9 requests, 2 months on each clock; *session*: 3 ticks, grace 2, 2 nested prompts | success is on chain; replay is atomic (refinement of `PredicateContract`); nothing is relayed after a cancel; every presentation ends; a refusal has one of four causes; timers spare prompts and running verifications |
| `pipeline_shortfall_reap`, `mirror_spelling`, `presentation_proof`, `sdk_request` | as the run of the same module | expected violations, see section 6 |

*Why the bounds are enough to be interesting.* Two transactions and one lane
force every submit to contend for the same coin, which is where a shortfall, a
retry and both reapers meet; more lanes only make contention rarer, and the
theorems cover any number. Three jobs with batches of two give a full batch, a
window batch, a bisect, and a job that fails before it reaches the batcher. Two
faults let a connect be abandoned, and the next one as well, while the first goes
on. Four ledger versions allow a poll that is two versions late. One credential in
two spellings and two clients give every overlap of two writers with the consumer.
One broken connection at any point, of either app, reaches every replay path. Four
requests let two completions race with two issue requests. Two tabs overlap any
two operations of the wallet, and four operations let a key be sealed, its passkey
lost, and the card exported or reset. Two presentations give every order of
proving, landing and giving up; the holder of the instance comes of age between
the two months, so that a circuit that refused may accept. In `contracts` one
contract is deployed per behaviour: they share no state.

*Bounds inside an `MC` module.* `MirrorBounds` gives the mirror one credential and,
with `Polled = FALSE`, no poller: late polls are the subject of the reader in the
same run, and `chain_view_liveness` has them under the mirror too. That run has
one client, one request and no crash, since liveness multiplies the states.
`AttestInstance` has two presentations at once for the contracts where they can
disturb one another in more than one way.

*Symmetry* is used only in runs without liveness (`contracts`, `chain_view`,
`issuance`), over values the modules compare for equality only.

*Deadlock* checking is off where the modelled work is finite and ends: every job
settled, the presentation over, all requests and operations served.

## 4. Fairness

Fairness is stated only for what the runtime schedules by itself.

* `pipeline`: a started section, a broadcast, the reaper's interval and the clock
  go on. Nothing is assumed of the chain: it may never include a transaction.
* `sidecar`, relay: the window timer fires, a flush ends (every submit settles, as
  `pipeline` shows), awaited continuations run, an open stream is written.
* `sidecar`, client: the supervisor's loop and its timer go on, and a join of a
  contract that is on chain ends. A timeout may still come first, each time the
  bound on faults allows. `ComesBack` is conditional on contracts that stay.
* `sidecar`, dust: the interval fires, a section that runs ends, a section that
  waits is not passed over for ever (strong fairness: the serializer runs sections
  in order, the model only counts them), and the chain settles what it was sent.
* `chain_view_liveness`: the supervisor joins, the interval polls, some polls
  are answered (strong fairness: single ones may fail for ever), the consumer
  reconnects after its delay, an open stream is written and read. A resubscription
  is *not* assumed: a stream that dies without an error or an end is never rebuilt.
  Some database writes of the consumer succeed (strong fairness) and a started
  request goes on.
* `presentation`: handlers are polled, sockets deliver, a broken connection is noticed,
  calls of `/verify` end, and the user comes back to an app whose socket closed (the
  reconnect runs when the app is in the foreground). No decision of a user is assumed.
* `holder`: the run of an attestation goes on when what it awaits has settled, and
  the budget timer fires. Neither the chain, the sidecar nor the indexer is assumed
  to do anything, and no stream is assumed to fail.

`HandlersReturn` needs room in the channels: with a capacity of 2 two handlers can
send into each other's full channel and wait for ever. The code has 32 and the
apps send a handful of messages; the run uses 3, the least that suffices here.

## 5. What is proved

TLAPS proves the following for every value of the constants, under the named
assumptions beside the constants (`TxsAssumption`: finitely many transactions;
`GraceAssumption`: shortfall grace < chain TTL < periodic grace; `FeedAssumption`:
finitely many credentials, of which a snapshot has finitely many frames; sentinel
values differ from real ones; bounds are natural numbers; `AttestAssumption`: the
queries' numbers, the months and the birth dates are natural numbers, and no
nullifier is the value that stands for its absence; `ExchangeAssumption`: the
options of a credential set are lists of lists of ids). Every safety property that a
passing run checks is proved.

* `SubmitPipelineProofs`: `TypeCorrect`, `ReservationsDisjoint`, `RetryIsSafe`,
  `PeriodicReapSafe`. Disjointness is not inductive. The invariant `IInv` adds
  that a submit inside a section is at the head of the queue (`InsideAtHead`), that
  what a balance selected is still free when it is about to be reserved
  (`BalancedFree`, which needs the former: nobody else is inside), and that a
  submit in phase 1 is neither reserved nor known to the network
  (`NotYetReserved`). The last gives retry safety, and with the order of the graces
  the safety of the periodic reaper. There is one lemma per group of actions
  (phase 1, phase 2, supervisor, chain).
* `SidecarProofs`.
  The batcher: `JobsConserved`, `ResolvedJobsLanded`, and `ImplementsPromise`: initial
  states and steps of the batcher are those of `RelayPromise`. The invariant adds the
  types and "a timer is armed exactly while the buffer is not empty".
  Jobs and batcher in one process: `StreamsEndTruthfully`, `JobsConservedInService`, and
  `ServiceKeepsPromise`, the same refinement with the job table as the caller and
  restarts that forget what waits.
  What a stream said last is true only because what it copied was true when it copied
  it and a settled promise stays settled. `StreamInv` therefore says of the table's
  entry, and separately of the copy a stream is still writing, that a phase that is
  final agrees with the promise (`Honest`), and that a job the batcher knows is a
  job that was relayed.
  The client: `ServesWhole`, for any list of contracts. What is served is a connected
  object, which says nothing about how it got there. `WholeInv` says of the object the
  module variable refers to, and of no abandoned one, that every contract behind its
  connect is subscribed or a predicate contract, and that it is connected only when
  the list is done.
* `RegistryProofs`: `SetAgrees`, `AuditTreeComplete`, `RevocationIsFinal` for the
  revocation registry. The three structures are proved together with "the zero
  hash is never listed", which `reactivate` needs because it does not test it.
  `TrustedKeysStored` and `OwnersKept` for the issuer and the identity registry and
  any accounts. The first is proved with the stronger "every issuer with a status has
  its key", which is what a status change relies on.
* `PredicateContractProofs`: `AgeThresholdExact` (the YYYYMMDD comparison decides
  "at least t completed years" for all dates and thresholds), `AttestationsAreTrue`,
  `PersonhoodUnique`, `RecordsCounted`. Uniqueness rests on `NullifierKept`: every
  personhood key on the ledger has its nullifier in the set.
* `ChainViewProofs`.
  The reader: `ReaderAgrees` and `ReaderIsTold`. That a consumer which has read
  everything agrees with the ledger says nothing while frames are on their way, so
  `ReaderInv` speaks of the future: applied in order, the frames on the wire and the
  snapshot still to be sent bring every entry to the status of the sidecar's ledger
  (`WillHold`). The lemmas say what a list of frames tells last of a key
  (`TellsLast`) when a frame is taken from its front or a diff is put behind it.
  The mirror: `ListedOnChain` and `AckedIsListed`. `MirrorInv` says of every frame in
  flight and of every job past its chain call that the chain has listed its key
  (`FramesTrue`, `ChainFirst`), so that whatever is written to the row or the cache,
  in whatever order, is true of some version. An acknowledged id is in its row as well
  as in the cache, since a restart reloads the one from the other, and no job that is
  under way reactivates it; the consumer cannot take it out because its ids are of
  the other spelling.
* `PresentationProofs`: `SlotsAreOwned`, `NoMessageLostOnRejoin`, `NonceTakenOnce`,
  `VerdictIsTheHolders`, for any channel capacity, any number of sockets and broken
  connections. `FlowInv` is the conjunction of what the relay keeps (`RelayInv`: the
  handlers and the slots agree; a message that is buffered is in the channel, in the
  replay or in the hands of the peer's handler until the socket of its role has it)
  and what the apps keep (`AppsOK`, `AllTold`: every message in a channel, a buffer, a
  replay or on a connection is one its app has said by then, so that a proof or a
  denial on its way was the holder's). The nonce is taken once because the session is
  gone when it is taken.
* `IssuanceProofs`.
  The issuer: `SlotExclusive`, `SlotComesBack`, `ClaimsBehindVerified`, for any number
  of requests. The slot's invariant says that at most one request holds it, that a
  taken slot belongs to a holder, a request that has minted, or a dropped handler, and
  that nothing was minted without it. The claims' invariant says that a request about
  to mark the session has stored its claims, or the session has left the map for good.
  The holder's store: `SlotAfterSeal`, `RevokedBeforeWiped`, `FilesAreWhole`, which are
  about steps. `WalletInv` carries what a tab has already done from one await to the
  next: a tab that asks for its credential has sealed the seed; of the cards a reset
  listed, those no longer to do are revoked; an export that opens its cards has all of
  them before it.
* `HolderProofs`.
  The attestation run: `ReplayRefines`, `SuccessIsOnChain`, `CancelHolds`, for any
  number of presentations, credentials, months, attempts and restarts. A
  transaction outlives the presentation that made it, so what is known of it must
  not refer to one: `AttestInv` says that every transcript, watched or not, carries
  the key and nullifier of a circuit whose asserts held for some credential and
  some month (`Made`, a set that never changes). `ReplayAttests` then shows, per
  kind of contract, that a transcript of that set whose reads agree with the ledger
  of the moment does what an atomic circuit call does. The rest of `AttestInv` ties
  a job's success to the key on the chain, and a job to a presentation that streams.
  The unlock session: `PromptsAreSpared`. The counter of ceremonies equals the prompts
  that are open, one of them the unlock's, and a running hide timer and the time the tab
  has been hidden add up to the grace period (`SessionInv`); so do a running expiry timer
  and the time since the unlock to the session's (`ExpiryInv`).
  The SDK exchange: `RefusalIsExplained`. `ChoiceCovers` shows that what the wallet's
  `checkCredentialSets` finds answerable, `chooseAcrossSets` covers as the service's
  `check_credential_sets` counts it, for sets of any shape; `KeyRecomputed` that the
  service derives the key the wallet attested, if the vct is an asked one and the month
  is the same. `ExchangeInv` says that every pick already signed has its key, of some
  month, on the chain, and that the response on the wire, and the
  token the verifier holds, is made of such picks alone. It needs that one request is
  answered once: otherwise the picks could change behind a response.

Only model-checked: every liveness property and the liveness half of the promise
refinement, since fairness is outside the prover's reach (`EverySubmitSettles`,
`ReservationReleased`, `WokenIfInTime`, `ComesBack`, `TopUpRegistered`, `ViewCatchesUp`,
`MirrorHeals`, `TerminalReachesVerifier`, `HandlersReturn`, `PresentationEnds`). The
dust registration has properties of that kind only.

## 6. Where code and comments disagree

Four disagreements are kept as runs that TLC must find violated.

* `pipeline_shortfall_reap`. A dust shortfall reaps every reservation older than
  90 s because "the shortfall itself proves the pending dust is already released
  on-chain". It does not: the coin may be in a transaction that is still being
  broadcast.
* `mirror_spelling`. Events are mirrored so that `/verify` needs no round trip, but
  the consumer stores hex ids and `/verify` looks up base64url ids.
* `presentation_proof`. A proof that is ready while the wallet's socket is away is
  said to be delivered by the `onopen` re-send. The hook has cleaned up by then.
* `sdk_request`. `requestPredicates` is documented to enforce the predicates it is
  given. The request it builds puts them into `claims`; the wallet matches and signs
  it, and the service refuses a query with claims, or without `owl_predicate`.

Others were met while modelling. The modules follow the code in each case, and the
properties are stated so that they say what does hold.

* `sidecar/routes/predicates.ts:346-351`: a job that settles between the snapshot
  and the subscription wakes nobody, against the comment at `:311-314`. Hence
  `WokenIfInTime`.
* `sidecar/routes/predicates.ts:342`: after a restart a stream waits for a chain id
  that never comes, against `:336-340`.
* `sidecar/relay-batcher.ts:12-14` calls a batch all-or-nothing. After the bisect
  (`:85-93`) some members land and some fail, and a member may land twice when only
  the answer was lost.
* `sidecar/routes/revocation.ts:44-45` says the inclusion proof succeeds exactly for
  hashes that were revoked at some point. A suspension adds a leaf as well
  (`revocation_registry.compact:94`).
* `docs/COMPACT_CONTRACTS.md:14-15` says state-mutating circuits assert that the
  contract is not paused. `adminUpdateCommitment` and `expireCommitment` do not test it
  (`identity_registry.compact:108-126`, `:152-161`).
* `predicate_age_range.compact:61-64`: the upper bound refuses holders who have
  passed the birthday of the maximum age, against `:59` and
  `docs/COMPACT_CONTRACTS.md:171`. What it accepts is sound (`AgeUpperSound`).
* `sidecar/midnight.ts:1156-1167`: a late poll takes the view back to an older
  ledger. `ViewCatchesUp` says that it recovers.
* `sidecar/routes/events.ts:39-49`: events between snapshot and subscription are
  lost until the next reconnect. `NoGapNoLoss` and `ReplayHealsMirror` say how far.
* `sidecar/events.ts:7-8`: "Backpressure is handled by dropping events for slow
  consumers (best-effort delivery)". Nothing is dropped: `emit` calls every listener
  (`:78-86`) and the stream does not await what it sends (`routes/events.ts:49-51`), so a
  slow consumer gets every event late and its backlog grows in memory without a bound.
  `ReaderMissesNothing` is about the code; it would fail for the comment.
* `verification/api.rs:469`: a row written by a check may be older than one the
  consumer has just written.
* `verification/sidecar_events.rs:180` stores the issuer's hash in the column from
  which `api.rs:1178-1179` takes the issuer's key.
* `app/hooks/use-presentation.ts:505`: a rejoin that is refused because the
  old socket still holds the role ends the presentation, although "only a genuinely
  dead session is a hard failure" (`:504`).
* `packages/verifier-app/src/App.tsx:479`: a response that arrives twice is posted
  twice; the second post finds the nonce gone and its answer replaces the first.
* `issuer/main.rs:1561`: a client that disconnects between the claim of the slot and
  the first credential leaves the slot taken. `SlotFreed` excludes dropped handlers.
* `issuer/`: claims stored after the session was cleaned up stay in their map; with
  DigiD a status decided by an earlier read may overwrite "verified", and a dropped
  submit leaves the session in "verifying".
* `sidecar/index.ts:78-82`: a testnet reset after the connect goes unnoticed;
  `/health` stays at 200 and the views stop. `ComesBack` speaks of contracts that
  stay.
* `sidecar/client.ts:94`: a failed attempt is dropped "so the next attempt starts
  clean". A connect that timed out goes on subscribing behind the next one, so a
  contract may have two feeds.
* `sidecar/wallet-supervisor.ts:490-495`: the guard is to suppress duplicate
  registrations. It is read when a section is queued, so two queued sections, or a
  registration that takes longer than the guard to become final, send the same NIGHT
  twice. The chain registers it once.
* `verification/api.rs:1734`, `:1923`: an unreachable sidecar is answered with 400
  where 502 is documented, and the client's stream takes 4xx as final
  (`packages/verifier-client/src/index.ts:229-231`).
* `packages/verifier-client/src/index.ts:275-279`: an `error` frame is to stop the
  stream, but the test is for the default message; a frame with a text reconnects.
* `sdk/midnight/orchestrator.ts:815` fixes the month of an age proof once, the service
  uses the month of its own clock (`crates/proof-system/src/attestation.rs:87-88`,
  `verification/dcql.rs:197`, `:210`): across a month's end a success is reported for a key that is
  not asked for any more. `ReportedOnChain` speaks of the key that was reported, and
  the other month is one of the causes of `RefusalHasCause`.
* `sdk/wallet.ts:193-200`: the gate before signing is to fail loudly instead of "sending a
  presentation the verifier will reject while the holder was told 'Shared'". It looks at
  attestations only. A query whose `vct_values` do not have the card's vct is matched,
  signed and sent (`:486-491`, "accept conservatively here") and refused
  (`verification/dcql.rs:150-154`). The issuer issues a single vct.
* `verification/dcql.rs:112-116`: the mirror "can't produce a false 'not attested'" since a
  miss is read through to the ledger. The read goes to the sidecar's copy of the ledger
  (`sidecar/midnight.ts:587`), which may be behind, and an error counts as not attested
  (`verification/api.rs:1397-1400`). `RefusalHasCause` has it as a cause.
* `sdk/verifier/presentation-flow.ts:31-37`, `:85`: when the connection closes without
  an error the timer is cleared and the promise never settles.
* `app/hooks/use-idp-api.ts:281-284`: the wallet is not to lock in the middle of a
  verification, and polling is to keep it unlocked. Polling stops when the session is
  verified and pauses while the tab is hidden; the session may then lapse, and the lock
  overlay takes the page and the verification with it.
* `app/hooks/use-wallet-session.ts:85-87`: an expiry timer that fires while locking is
  suspended is to be armed again. It refreshes the session, but the effect that arms it
  runs only when the session appears or goes.
* `app/hooks/use-wallet-session.ts:77-91`: for the same reason activity, which refreshes the
  session (`:47-65`), does not move the timer: it ends a session that is in use one session
  time after the unlock, however fresh. `TimersSparePrompts` counts from the unlock.
* `sdk/storage.ts:310`: "wipe every wallet key" removes the keys of the index it read;
  a card another tab stores at that moment keeps its blob and key.
* `app/lib/presentation-errors.ts:64`: after "re-verify with the issuer to get a fresh
  one" the app restores the expired credential from its backup, if there is one.

## 7. Assumptions and limits

* Cryptography, hashes and Merkle trees are perfect; the credential of a
  presentation passes the checks that do not depend on the session, except in
  `SdkExchange`, where they may refuse it. The ids of a DCQL request are distinct.
* The HTTP server drops the handler of a connection that closed at an await.
* The verifier's predicate registry has been fetched when `session_ready` comes.
  Closing a finished presentation changes only the screen.
* A restart of the issuer service loses the session and its requests, which is a
  cleanup plus disconnects. Identity anchors are fire-and-forget and change nothing
  in the session. The standalone login, and the SAML and QR flows (no provider is
  registered) are left out.
* A request that is refused at its first read changes nothing and is no action.
* The parts of a composed instance share no state. The wallet's issue request and the
  issuer's handler meet in one HTTP call whose outcomes both sides model.

Not modelled, and why:

* *Generated code*: the API clients (about 27,000 lines) are produced from the OpenAPI
  documents and hold no state.
* *Compiled contracts*: of `sdk/midnight/contracts/<kind>/index.js` (about 10,000 lines)
  the circuits, their argument checks and their reads and writes are modelled. The rest
  is type descriptors, wrappers and ledger accessors that repeat from file to file.
* *Views*: the components and routes of the holder app, the verifier app, the admin
  console and the docs site render state that the modules have. What they do to it
  (reset, remove, lock, confirm) is modelled.
* *Tests, scripts, configuration, deployment*.
* *Conversions and formats*: SD-JWT, predicate encodings, status list bits. The models
  use what they stand for.
* *CRUD tables* behind authentication: API keys, admin accounts, GDPR deletion.

The modelled files are therefore a small share of the repository's lines (`PROJECT.json`
has the ranges), and most of what runs concurrently, fails half way or is retried.

## 8. Plan

Done: submit pipeline, relay path, client lifecycle, dust registration, contracts,
feed, revocation mirror, presentation, issuer session, attestation run, SDK exchange,
holder store, unlock session.

1. Verification service: issuer and attestation mirrors over `LedgerFeed`; the table
   of server challenges and `openid4vp_response`; rate limits.
2. Issuer service: the DID anchor's register, compare and update retry loop; the
   projection of revocations to the token status list.
3. Pure algorithms against reference definitions: Didit's decision, NIGHT output
   splitting, status list encoding.
4. Theorems: the invariants of the issuer and attestation mirrors, once modelled.
