---------------------------- MODULE SubmitPipeline ----------------------------
(***************************************************************************)
(* The sidecar's pipelined submit: phase 1 (balance + reserve) runs inside *)
(* the wallet supervisor's single-writer serializer, phase 2 (broadcast)   *)
(* outside it, and a failed broadcast re-enters the serializer to revert.  *)
(* The periodic reaper, the shortfall reap and the live-evict subscription *)
(* release reservations of the same wallet.                                *)
(*   submit-pipeline.ts, wallet-supervisor.ts, wallet.ts, dust-errors.ts   *)
(*                                                                         *)
(* A dust coin is a pair <<lane, generation>>: spending a lane's coin on   *)
(* chain consumes that generation and leaves the change as the next one.   *)
(* The chain, the indexer and the wallet SDK are external: they are        *)
(* modelled from the way the supervisor uses them.                         *)
(***************************************************************************)
EXTENDS Integers, Sequences, FiniteSets

CONSTANTS
    Txs,         \* calls of submit; each carries one transaction
    Lanes,       \* NIGHT UTXOs of the wallet, each backing one dust output
    MaxRetries,  \* dustRetryAttempts
    ShortGrace,  \* DUST_SHORTFALL_REAP_GRACE_MS
    ChainTTL,    \* the ttl balanceTx gives a transaction
    LongGrace,   \* PENDING_REAPER_GRACE_MS
    MaxFaults    \* bound: how many reverts fail in one behaviour

ASSUME TxsAssumption == IsFiniteSet(Txs)
ASSUME RetriesAssumption == MaxRetries \in Nat
ASSUME FaultsAssumption == MaxFaults \in Nat
ASSUME GraceAssumption ==
    /\ ShortGrace \in Nat \ {0} /\ ChainTTL \in Nat /\ LongGrace \in Nat
    /\ ShortGrace < ChainTTL /\ ChainTTL < LongGrace

VARIABLES
    queue,    \* the promise chain: critical sections in call order, the head runs
    pc,       \* where each submit call is
    attempt,  \* the retry counter of a running phase 1
    coins,    \* the dust coins its balanced transaction spends
    pending,  \* pendingTransactionsService: the reserved transactions
    age,      \* time since reserve, saturating at LongGrace
    net,      \* the transaction on the network
    gen,      \* the chain's unspent generation of each lane
    seen,     \* the generation the wallet has synced to
    faults    \* reverts that have failed so far

wallet == <<queue, pc, attempt, coins, pending, faults>>
chain == <<net, gen>>
vars == <<queue, pc, attempt, coins, pending, age, net, gen, seen, faults>>

Coin == Lanes \X Nat

Phase1 == {"queued", "ready", "balanced", "short", "settle"}
PcStates == {"idle"} \cup Phase1 \cup {"broadcast", "reverting", "ok", "failed"}
NetStates == {"none", "mempool", "success", "partial", "failure", "dropped"}

(***************************************************************************)
(* Critical sections.  serialize(fn) appends to the chain; only the head   *)
(* runs, and a section that ends, by return or by throw, pops itself.      *)
(***************************************************************************)
Phase1Job(t) == [kind |-> "phase1", txs |-> {t}]
RevertJob(t) == [kind |-> "revert", txs |-> {t}]
ReapJob == [kind |-> "reap", txs |-> {}]
EvictJob(S) == [kind |-> "evict", txs |-> S]

Jobs == [kind : {"phase1", "revert", "reap", "evict"}, txs : SUBSET Txs]

serialize(job) == queue' = Append(queue, job)
Running(job) == queue # <<>> /\ Head(queue) = job
Leave == queue' = Tail(queue)
Queued(kind) == \E i \in 1..Len(queue) : queue[i].kind = kind

(***************************************************************************)
(* availableCoins = utxos - pendingDust, over the generations the wallet   *)
(* has seen.                                                               *)
(***************************************************************************)
MutReserved == {}  \* mutant: pendingDust is not subtracted
Reserved == UNION {coins[t] : t \in pending}
Available == {<<l, seen[l]>> : l \in Lanes} \ Reserved

(***************************************************************************)
(* revertTransaction over the entries S, each of which may fail; a failed  *)
(* revert is logged (reaper, live-evict) or swallowed (pipeline) and the   *)
(* entry stays.                                                            *)
(***************************************************************************)
RevertAll(S) ==
    \E failed \in SUBSET (S \cap pending) :
        /\ faults + Cardinality(failed) <= MaxFaults
        /\ faults' = faults + Cardinality(failed)
        /\ pending' = pending \ (S \ failed)

Finalized(t) == net[t] \in {"failure", "partial"}

MutReapStalePending(grace) ==  \* mutant: only what the chain has finalized
    RevertAll({t \in pending : age[t] >= grace /\ Finalized(t)})
reapStalePending(grace) == RevertAll({t \in pending : age[t] >= grace})

Init ==
    /\ queue = <<ReapJob>>   \* reapSerialized() runs once at startup
    /\ pc = [t \in Txs |-> "idle"]
    /\ attempt = [t \in Txs |-> 0]
    /\ coins = [t \in Txs |-> {}]
    /\ pending = {}
    /\ age = [t \in Txs |-> 0]
    /\ net = [t \in Txs |-> "none"]
    /\ gen = [l \in Lanes |-> 0]
    /\ seen = [l \in Lanes |-> 0]
    /\ faults = 0

(***************************************************************************)
(* Phase 1                                                                 *)
(***************************************************************************)
Submit(t) ==
    /\ pc[t] = "idle"
    /\ pc' = [pc EXCEPT ![t] = "queued"]
    /\ serialize(Phase1Job(t))
    /\ UNCHANGED <<attempt, coins, pending, age, chain, seen, faults>>

EnsureReady(t) ==
    /\ pc[t] = "queued" /\ Running(Phase1Job(t))
    /\ pc' = [pc EXCEPT ![t] = "ready"]
    /\ UNCHANGED <<queue, attempt, coins, pending, age, chain, seen, faults>>

BalanceTx(t) ==
    /\ pc[t] = "ready" /\ Running(Phase1Job(t))
    /\ \E S \in SUBSET Available \ {{}} : coins' = [coins EXCEPT ![t] = S]
    /\ pc' = [pc EXCEPT ![t] = "balanced"]
    /\ UNCHANGED <<queue, attempt, pending, age, chain, seen, faults>>

Reserve(t) ==
    /\ pc[t] = "balanced" /\ Running(Phase1Job(t))
    /\ pending' = pending \cup {t}
    /\ age' = [age EXCEPT ![t] = 0]
    /\ pc' = [pc EXCEPT ![t] = "broadcast"]
    /\ attempt' = [attempt EXCEPT ![t] = 0]
    /\ Leave
    /\ UNCHANGED <<coins, chain, seen, faults>>

\* ensureReady timed out, or balanceTx or reserve threw something that is not
\* a dust shortfall, or the last retry fell short too: terminal, nothing reserved.
Phase1Fails(t) ==
    /\ pc[t] \in {"queued", "ready", "balanced"} /\ Running(Phase1Job(t))
    /\ pc' = [pc EXCEPT ![t] = "failed"]
    /\ coins' = [coins EXCEPT ![t] = {}]
    /\ attempt' = [attempt EXCEPT ![t] = 0]
    /\ Leave
    /\ UNCHANGED <<pending, age, chain, seen, faults>>

MayRetry(t) == attempt[t] < MaxRetries

MutBalanceShort(t) ==  \* mutant: the retries are not counted
    /\ pc[t] = "ready" /\ Running(Phase1Job(t))
    /\ pc' = [pc EXCEPT ![t] = "short"]
    /\ UNCHANGED <<queue, attempt, coins, pending, age, chain, seen, faults>>
\* The dust balance is accrued over time, so a shortfall may be reported
\* whether or not a coin is available.
BalanceShort(t) ==
    /\ pc[t] = "ready" /\ Running(Phase1Job(t))
    /\ MayRetry(t)
    /\ attempt' = [attempt EXCEPT ![t] = @ + 1]
    /\ pc' = [pc EXCEPT ![t] = "short"]
    /\ UNCHANGED <<queue, coins, pending, age, chain, seen, faults>>

\* The reap is called directly: its section already holds the serializer.
ShortfallReap(t) ==
    /\ pc[t] = "short" /\ Running(Phase1Job(t))
    /\ reapStalePending(ShortGrace)
    /\ pc' = [pc EXCEPT ![t] = "settle"]
    /\ UNCHANGED <<queue, attempt, coins, age, chain, seen>>

SettleWait(t) ==
    /\ pc[t] = "settle" /\ Running(Phase1Job(t))
    /\ pc' = [pc EXCEPT ![t] = "ready"]
    /\ UNCHANGED <<queue, attempt, coins, pending, age, chain, seen, faults>>

(***************************************************************************)
(* Phase 2                                                                 *)
(***************************************************************************)
BroadcastOk(t) ==
    /\ pc[t] = "broadcast" /\ net[t] # "none"
    /\ pc' = [pc EXCEPT ![t] = "ok"]
    /\ UNCHANGED <<queue, attempt, coins, pending, age, chain, seen, faults>>

\* The node rejected the transaction (net = "none"), or its answer was lost.
BroadcastFails(t) ==
    /\ pc[t] = "broadcast"
    /\ pc' = [pc EXCEPT ![t] = "reverting"]
    /\ serialize(RevertJob(t))
    /\ UNCHANGED <<attempt, coins, pending, age, chain, seen, faults>>

RevertReserved(t) ==
    /\ pc[t] = "reverting" /\ Running(RevertJob(t))
    /\ RevertAll({t})
    /\ pc' = [pc EXCEPT ![t] = "failed"]
    /\ Leave
    /\ UNCHANGED <<attempt, coins, age, chain, seen>>

(***************************************************************************)
(* The supervisor's own writers                                            *)
(***************************************************************************)
\* The 60 s timer.  Bound: one sweep is queued at a time.
ReaperTick ==
    /\ ~Queued("reap")
    /\ serialize(ReapJob)
    /\ UNCHANGED <<pc, attempt, coins, pending, age, chain, seen, faults>>

MutPeriodicGrace == ShortGrace  \* mutant: the shortfall grace
PeriodicGrace == LongGrace

PeriodicReap ==
    /\ Running(ReapJob)
    /\ reapStalePending(PeriodicGrace)
    /\ Leave
    /\ UNCHANGED <<pc, attempt, coins, age, chain, seen>>

\* A pending snapshot with failed entries.  Bound: one eviction is queued at a
\* time (the subscription may queue the same entries twice).
PendingFinalized ==
    LET failed == {t \in pending : Finalized(t)} IN
    /\ failed # {} /\ ~Queued("evict")
    /\ serialize(EvictJob(failed))
    /\ UNCHANGED <<pc, attempt, coins, pending, age, chain, seen, faults>>

LiveEvict ==
    /\ queue # <<>> /\ Head(queue).kind = "evict"
    /\ RevertAll(Head(queue).txs)
    /\ Leave
    /\ UNCHANGED <<pc, attempt, coins, age, chain, seen>>

(***************************************************************************)
(* External: the node, the chain and the wallet SDK's sync                 *)
(***************************************************************************)
Current(t) == \A c \in coins[t] : gen[c[1]] = c[2]

NodeAccepts(t) ==
    /\ pc[t] = "broadcast" /\ net[t] = "none"
    /\ Current(t) /\ age[t] < ChainTTL
    /\ net' = [net EXCEPT ![t] = "mempool"]
    /\ UNCHANGED <<wallet, age, gen, seen>>

\* Inclusion; a partial success has paid its fee, so it spends its coins too.
ChainIncludes(t) ==
    /\ net[t] = "mempool" /\ Current(t)
    /\ \E outcome \in {"success", "partial"} : net' = [net EXCEPT ![t] = outcome]
    /\ gen' = [l \in Lanes |-> IF \E c \in coins[t] : c[1] = l THEN gen[l] + 1 ELSE gen[l]]
    /\ UNCHANGED <<wallet, age, seen>>

ChainRefuses(t) ==
    /\ net[t] = "mempool"
    /\ \E outcome \in {"failure", "dropped"} : net' = [net EXCEPT ![t] = outcome]
    /\ UNCHANGED <<wallet, age, gen, seen>>

\* The SDK clears the entry of a successful transaction by itself.
SdkClears(t) ==
    /\ t \in pending /\ net[t] = "success"
    /\ pending' = pending \ {t}
    /\ UNCHANGED <<queue, pc, attempt, coins, age, chain, seen, faults>>

WalletSync(l) ==
    /\ seen[l] # gen[l]
    /\ seen' = [seen EXCEPT ![l] = gen[l]]
    /\ UNCHANGED <<wallet, age, chain>>

\* Only the age of a reserved or live transaction is ever read.
Clocked(t) == t \in pending \/ net[t] = "mempool" \/ pc[t] = "broadcast"
Older(t) == IF age[t] < LongGrace THEN age[t] + 1 ELSE LongGrace

\* Time passes; what is still in the mempool at its ttl is dead.
Tick ==
    /\ \E t \in Txs : Clocked(t) /\ age[t] < LongGrace
    /\ age' = [t \in Txs |-> IF Clocked(t) THEN Older(t) ELSE 0]
    /\ net' = [t \in Txs |->
                 IF net[t] = "mempool" /\ Older(t) >= ChainTTL THEN "dropped" ELSE net[t]]
    /\ UNCHANGED <<wallet, gen, seen>>

Phase1Step(t) ==
    \/ EnsureReady(t) \/ BalanceTx(t) \/ Reserve(t) \/ Phase1Fails(t)
    \/ BalanceShort(t) \/ ShortfallReap(t) \/ SettleWait(t)
Phase2Step(t) == BroadcastOk(t) \/ BroadcastFails(t) \/ RevertReserved(t)
Section == PeriodicReap \/ LiveEvict
ChainStep(t) == NodeAccepts(t) \/ ChainIncludes(t) \/ ChainRefuses(t) \/ SdkClears(t)

Next ==
    \/ \E t \in Txs : Submit(t) \/ Phase1Step(t) \/ Phase2Step(t) \/ ChainStep(t)
    \/ ReaperTick \/ PendingFinalized \/ Section \/ Tick
    \/ \E l \in Lanes : WalletSync(l)

Spec == Init /\ [][Next]_vars

(***************************************************************************)
(* A section at the head runs (the chain link never rejects), a broadcast  *)
(* answers or times out in the client, the reaper timer fires, time passes.*)
(***************************************************************************)
FairSpec ==
    /\ Spec
    /\ \A t \in Txs : WF_vars(Phase1Step(t)) /\ WF_vars(Phase2Step(t))
    /\ WF_vars(Section) /\ WF_vars(ReaperTick) /\ WF_vars(Tick)

(***************************************************************************)
(* Properties                                                              *)
(***************************************************************************)
TypeOK ==
    /\ queue \in Seq(Jobs)
    /\ pc \in [Txs -> PcStates]
    /\ attempt \in [Txs -> 0..MaxRetries]
    /\ coins \in [Txs -> SUBSET Coin]
    /\ pending \in SUBSET Txs
    /\ age \in [Txs -> 0..LongGrace]
    /\ net \in [Txs -> NetStates]
    /\ gen \in [Lanes -> Nat]
    /\ seen \in [Lanes -> Nat]
    /\ faults \in 0..MaxFaults

\* "These two MUST be atomic per submit, else two concurrent balances pick the
\* same UTXO": two reserved transactions never hold the same dust coin.
DisjointReservations ==
    \A t, u \in pending : t # u => coins[t] \cap coins[u] = {}

\* "Retrying it can never double-submit": whatever is still in phase 1, on its
\* first attempt or on a retry, is neither reserved nor known to the network.
RetryBeforeReserve ==
    \A t \in Txs : pc[t] \in Phase1 => t \notin pending /\ net[t] = "none"

\* A transaction the network may still include.
Live(t) ==
    \/ net[t] = "mempool"
    \/ pc[t] = "broadcast" /\ net[t] = "none" /\ age[t] < ChainTTL

\* The periodic reaper waits out the chain's ttl: an entry it releases is no
\* longer live, so its dust really is spendable again (or spent).
PeriodicReapOnlyDead ==
    [][PeriodicReap => \A t \in pending \ pending' : ~Live(t)]_vars

\* "The shortfall itself proves the pending dust is already released on-chain":
\* what the shortfall reap releases is no longer live.
ShortfallReapOnlyDead ==
    [][\A t \in Txs : ShortfallReap(t) => \A u \in pending \ pending' : ~Live(u)]_vars

\* "Throws on terminal failure; never silently drops": every submit call that
\* enters the serializer resolves or rejects.
EverySubmitSettles ==
    \A t \in Txs : pc[t] = "queued" ~> pc[t] \in {"ok", "failed"}

\* No dropped, failed or forgotten transaction holds its dust hostage for ever:
\* every reservation is released.
ReservationReleased ==
    \A t \in Txs : t \in pending ~> t \notin pending
===============================================================================
