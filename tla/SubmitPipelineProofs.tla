------------------------- MODULE SubmitPipelineProofs -------------------------
(***************************************************************************)
(* Proofs about SubmitPipeline, for any transactions, lanes, retry count   *)
(* and graces: type correctness, disjoint reservations and no reservation  *)
(* before phase 1 has ended.  DisjointReservations is not inductive: it    *)
(* needs that a transaction past "queued" owns the head of the queue, that *)
(* the coins of a balanced one are free, and that a transaction in phase 1 *)
(* is not reserved.                                                        *)
(***************************************************************************)
EXTENDS SubmitPipeline, FiniteSetTheorems, SequenceTheorems, TLAPS

Inside == {"ready", "balanced", "short", "settle"}

\* Whoever is inside its section runs at the head of the serializer's queue.
InsideAtHead == \A t \in Txs : pc[t] \in Inside => Running(Phase1Job(t))

\* The coins a balance has selected are not reserved by anyone.
BalancedFree ==
    \A t \in Txs : pc[t] = "balanced" => \A u \in pending : coins[t] \cap coins[u] = {}

\* A transaction that has not ended phase 1 is neither reserved nor on the network.
NotYetReserved ==
    \A t \in Txs : pc[t] \in Phase1 \cup {"idle"} => t \notin pending /\ net[t] = "none"

IInv ==
    TypeOK /\ InsideAtHead /\ BalancedFree /\ NotYetReserved /\ DisjointReservations

\* The four kinds of section are told apart by their kind, two phase-1 sections
\* by their transaction.
LEMMA JobFacts ==
    /\ \A t \in Txs : Phase1Job(t) \in Jobs /\ RevertJob(t) \in Jobs
    /\ ReapJob \in Jobs
    /\ \A S \in SUBSET Txs : EvictJob(S) \in Jobs
    /\ \A t \in Txs : /\ Phase1Job(t).kind = "phase1"
                      /\ RevertJob(t).kind = "revert"
    /\ ReapJob.kind = "reap"
    /\ \A S \in SUBSET Txs : EvictJob(S).kind = "evict"
    /\ \A t, u \in Txs : Phase1Job(t) = Phase1Job(u) => t = u
  <1>1. \A t, u \in Txs : Phase1Job(t) = Phase1Job(u) => t = u
    <2> SUFFICES ASSUME NEW t \in Txs, NEW u \in Txs, Phase1Job(t) = Phase1Job(u)
                 PROVE  t = u
      OBVIOUS
    <2>1. {t} = {u}
      BY DEF Phase1Job
    <2> QED BY <2>1
  <1> QED BY <1>1 DEF Phase1Job, RevertJob, ReapJob, EvictJob, Jobs

\* Reverting only removes reservations, and counts its failures within the bound.
LEMMA RevertAllFacts ==
    ASSUME TypeOK, NEW S \in SUBSET Txs, RevertAll(S)
    PROVE  pending' \in SUBSET pending /\ faults' \in 0..MaxFaults
  <1>1. PICK failed \in SUBSET (S \cap pending) :
          /\ faults + Cardinality(failed) <= MaxFaults
          /\ faults' = faults + Cardinality(failed)
          /\ pending' = pending \ (S \ failed)
    BY DEF RevertAll
  <1>2. IsFiniteSet(failed)
    BY TxsAssumption, FS_Subset
  <1>3. Cardinality(failed) \in Nat
    BY <1>2, FS_CardinalityType
  <1> QED BY <1>1, <1>3, FaultsAssumption DEF TypeOK

\* Dropping reservations disturbs no part of the invariant that is about them.
LEMMA FewerReservations ==
    ASSUME IInv, pending' \in SUBSET pending, coins' = coins,
           \A t \in Txs : pc'[t] = "balanced" => pc[t] = "balanced",
           \A t \in Txs : pc'[t] \in Phase1 \cup {"idle"} => pc[t] \in Phase1 \cup {"idle"},
           \A t \in Txs : pc'[t] \in Phase1 \cup {"idle"} => net'[t] = net[t]
    PROVE  BalancedFree' /\ NotYetReserved' /\ DisjointReservations'
  BY DEF IInv, BalancedFree, NotYetReserved, DisjointReservations, Phase1

\* A queued section does not take the head from the one that runs.
LEMMA SerializeFacts ==
    ASSUME TypeOK, NEW job \in Jobs, serialize(job)
    PROVE  /\ queue' \in Seq(Jobs)
           /\ \A j \in Jobs : Running(j) => Running(j)'
  <1>1. queue \in Seq(Jobs) /\ queue' = Append(queue, job)
    BY DEF TypeOK, serialize
  <1>2. queue' \in Seq(Jobs) /\ queue' # <<>>
    BY <1>1, AppendProperties
  <1>3. queue # <<>> => Head(queue') = Head(queue)
    BY <1>1, HeadTailAppend
  <1> QED BY <1>2, <1>3 DEF Running

\* The running section pops itself.
LEMMA LeaveFacts ==
    ASSUME TypeOK, queue # <<>>, Leave
    PROVE  queue' \in Seq(Jobs)
  BY HeadTailProperties DEF TypeOK, Leave

\* The invariant holds when the supervisor starts.
LEMMA InitIInv == Init => IInv
  <1> SUFFICES ASSUME Init PROVE IInv
    OBVIOUS
  <1>1. TypeOK
    <2>1. queue \in Seq(Jobs)
      BY JobFacts DEF Init
    <2> QED BY <2>1, RetriesAssumption, FaultsAssumption, GraceAssumption
            DEF Init, TypeOK, PcStates, NetStates
  <1>2. InsideAtHead /\ BalancedFree
    BY DEF Init, InsideAtHead, BalancedFree, Inside
  <1>3. NotYetReserved /\ DisjointReservations
    BY DEF Init, NotYetReserved, DisjointReservations
  <1> QED BY <1>1, <1>2, <1>3 DEF IInv

\* One step of phase 1 preserves the invariant.
LEMMA Phase1Preserves ==
    ASSUME IInv, NEW t \in Txs, Submit(t) \/ Phase1Step(t)
    PROVE  IInv'
  <1> USE DEF PcStates, Phase1
  <1>t. TypeOK /\ InsideAtHead /\ BalancedFree /\ NotYetReserved /\ DisjointReservations
    BY DEF IInv
  <1>j. \A u \in Txs : Phase1Job(u) \in Jobs /\ (Phase1Job(u) = Phase1Job(t) => u = t)
    BY JobFacts
  <1>1. CASE Submit(t)
    <2>1. queue' \in Seq(Jobs) /\ \A j \in Jobs : Running(j) => Running(j)'
      BY <1>1, <1>t, <1>j, SerializeFacts DEF Submit
    <2>2. TypeOK'
      BY <1>1, <1>t, <2>1 DEF Submit, TypeOK, chain
    <2>3. InsideAtHead'
      BY <1>1, <1>t, <1>j, <2>1 DEF Submit, InsideAtHead, Inside, TypeOK
    <2>4. BalancedFree' /\ NotYetReserved' /\ DisjointReservations'
      BY <1>1, <1>t DEF Submit, BalancedFree, NotYetReserved, DisjointReservations, TypeOK, chain
    <2> QED BY <2>2, <2>3, <2>4 DEF IInv
  <1>2. CASE EnsureReady(t) \/ BalanceShort(t) \/ SettleWait(t)
    <2>a. attempt' \in [Txs -> 0..MaxRetries]
      <3>1. CASE BalanceShort(t)
        <4>1. attempt[t] + 1 \in 0..MaxRetries
          BY <3>1, <1>t, RetriesAssumption DEF BalanceShort, MayRetry, TypeOK
        <4> QED BY <3>1, <4>1, <1>t DEF BalanceShort, TypeOK
      <3> QED BY <1>2, <3>1, <1>t DEF EnsureReady, SettleWait, TypeOK
    <2>1. /\ UNCHANGED <<queue, coins, pending, age, net, gen, seen, faults>>
          /\ pc' \in [Txs -> PcStates]
          /\ pc[t] \in Phase1 /\ pc'[t] \in Phase1 \ {"balanced"}
          /\ \A u \in Txs : u # t => pc'[u] = pc[u]
          /\ Running(Phase1Job(t))
      BY <1>2, <1>t DEF EnsureReady, BalanceShort, SettleWait, TypeOK, chain
    <2>2. TypeOK'
      BY <2>1, <2>a, <1>t DEF TypeOK
    <2>3. InsideAtHead'
      BY <2>1, <1>t DEF InsideAtHead, Inside, Running
    <2>4. BalancedFree' /\ NotYetReserved' /\ DisjointReservations'
      BY <2>1, <1>t DEF BalancedFree, NotYetReserved, DisjointReservations
    <2> QED BY <2>2, <2>3, <2>4 DEF IInv
  <1>3. CASE BalanceTx(t)
    <2>1. PICK S \in SUBSET Available : coins' = [coins EXCEPT ![t] = S]
      BY <1>3 DEF BalanceTx
    <2>2. S \in SUBSET Coin /\ \A u \in pending : S \cap coins[u] = {}
      BY <2>1, <1>t DEF Available, Reserved, Coin, TypeOK
    <2>3. t \notin pending
      BY <1>3, <1>t DEF BalanceTx, NotYetReserved
    <2>4. TypeOK'
      BY <1>3, <1>t, <2>1, <2>2 DEF BalanceTx, TypeOK, chain
    <2>5. InsideAtHead'
      BY <1>3, <1>t DEF BalanceTx, InsideAtHead, Inside, Running, TypeOK
    <2>6. \A u \in Txs : pc'[u] = "balanced" => u = t
      BY <1>3, <1>t, <1>j, <2>5 DEF BalanceTx, InsideAtHead, Inside, Running, TypeOK
    <2>7. BalancedFree'
      BY <1>3, <1>t, <2>1, <2>2, <2>3, <2>6 DEF BalanceTx, BalancedFree, TypeOK
    <2>8. NotYetReserved' /\ DisjointReservations'
      BY <1>3, <1>t, <2>1, <2>3
         DEF BalanceTx, NotYetReserved, DisjointReservations, TypeOK, chain
    <2> QED BY <2>4, <2>5, <2>7, <2>8 DEF IInv
  <1>4. CASE Reserve(t)
    <2>1. queue # <<>> /\ queue' \in Seq(Jobs)
      BY <1>4, <1>t, LeaveFacts DEF Reserve, Running
    <2>2. \A u \in Txs : u # t => pc[u] \notin Inside
      BY <1>4, <1>t, <1>j DEF Reserve, InsideAtHead, Running
    <2>3. TypeOK'
      BY <1>4, <1>t, <2>1, RetriesAssumption, GraceAssumption DEF Reserve, TypeOK, chain
    <2>4. InsideAtHead' /\ BalancedFree'
      BY <1>4, <1>t, <2>2 DEF Reserve, InsideAtHead, BalancedFree, Inside, TypeOK
    <2>5. NotYetReserved'
      BY <1>4, <1>t DEF Reserve, NotYetReserved, TypeOK, chain
    <2>6. DisjointReservations'
      BY <1>4, <1>t DEF Reserve, BalancedFree, DisjointReservations
    <2> QED BY <2>3, <2>4, <2>5, <2>6 DEF IInv
  <1>5. CASE Phase1Fails(t)
    <2>1. queue # <<>> /\ queue' \in Seq(Jobs)
      BY <1>5, <1>t, LeaveFacts DEF Phase1Fails, Running
    <2>2. \A u \in Txs : u # t => pc[u] \notin Inside
      BY <1>5, <1>t, <1>j DEF Phase1Fails, InsideAtHead, Running
    <2>3. TypeOK'
      BY <1>5, <1>t, <2>1, RetriesAssumption DEF Phase1Fails, TypeOK, chain
    <2>4. InsideAtHead' /\ BalancedFree'
      BY <1>5, <1>t, <2>2 DEF Phase1Fails, InsideAtHead, BalancedFree, Inside, TypeOK
    <2>5. NotYetReserved' /\ DisjointReservations'
      BY <1>5, <1>t DEF Phase1Fails, NotYetReserved, DisjointReservations, TypeOK, chain
    <2> QED BY <2>3, <2>4, <2>5 DEF IInv
  <1>6. CASE ShortfallReap(t)
    <2>1. pending' \in SUBSET pending /\ faults' \in 0..MaxFaults
      <3>1. {u \in pending : age[u] >= ShortGrace} \in SUBSET Txs
        BY <1>t DEF TypeOK
      <3> QED BY <1>6, <1>t, <3>1, RevertAllFacts DEF ShortfallReap, reapStalePending
    <2>2. TypeOK'
      BY <1>6, <1>t, <2>1 DEF ShortfallReap, TypeOK, chain
    <2>3. InsideAtHead'
      BY <1>6, <1>t DEF ShortfallReap, InsideAtHead, Inside, Running, TypeOK
    <2>4. BalancedFree' /\ NotYetReserved' /\ DisjointReservations'
      BY <1>6, <1>t, <2>1, FewerReservations DEF ShortfallReap, TypeOK, chain
    <2> QED BY <2>2, <2>3, <2>4 DEF IInv
  <1> QED BY <1>1, <1>2, <1>3, <1>4, <1>5, <1>6 DEF Phase1Step

\* Phase 2, which runs outside the serializer but for its revert.
LEMMA Phase2Preserves ==
    ASSUME IInv, NEW t \in Txs, Phase2Step(t)
    PROVE  IInv'
  <1> USE DEF PcStates, Phase1
  <1>t. TypeOK /\ InsideAtHead /\ BalancedFree /\ NotYetReserved /\ DisjointReservations
    BY DEF IInv
  <1>1. CASE BroadcastOk(t)
    <2>1. TypeOK'
      BY <1>1, <1>t DEF BroadcastOk, TypeOK, chain
    <2>2. InsideAtHead'
      BY <1>1, <1>t DEF BroadcastOk, InsideAtHead, Inside, Running, TypeOK
    <2>3. BalancedFree' /\ NotYetReserved' /\ DisjointReservations'
      BY <1>1, <1>t, FewerReservations DEF BroadcastOk, TypeOK, chain
    <2> QED BY <2>1, <2>2, <2>3 DEF IInv
  <1>2. CASE BroadcastFails(t)
    <2>1. queue' \in Seq(Jobs) /\ \A j \in Jobs : Running(j) => Running(j)'
      BY <1>2, <1>t, JobFacts, SerializeFacts DEF BroadcastFails
    <2>2. TypeOK'
      BY <1>2, <1>t, <2>1 DEF BroadcastFails, TypeOK, chain
    <2>3. InsideAtHead'
      BY <1>2, <1>t, <2>1, JobFacts DEF BroadcastFails, InsideAtHead, Inside, TypeOK
    <2>4. BalancedFree' /\ NotYetReserved' /\ DisjointReservations'
      BY <1>2, <1>t, FewerReservations DEF BroadcastFails, TypeOK, chain
    <2> QED BY <2>2, <2>3, <2>4 DEF IInv
  <1>3. CASE RevertReserved(t)
    <2>1. queue # <<>> /\ Head(queue).kind = "revert"
      BY <1>3, JobFacts DEF RevertReserved, Running
    <2>2. queue' \in Seq(Jobs)
      BY <1>3, <1>t, <2>1, LeaveFacts DEF RevertReserved
    <2>3. \A u \in Txs : pc[u] \notin Inside
      BY <1>t, <2>1, JobFacts DEF InsideAtHead, Running
    <2>4. pending' \in SUBSET pending /\ faults' \in 0..MaxFaults
      BY <1>3, <1>t, RevertAllFacts DEF RevertReserved
    <2>5. TypeOK'
      BY <1>3, <1>t, <2>2, <2>4 DEF RevertReserved, TypeOK, chain
    <2>6. InsideAtHead'
      BY <1>3, <1>t, <2>3 DEF RevertReserved, InsideAtHead, Inside, TypeOK
    <2>7. BalancedFree' /\ NotYetReserved' /\ DisjointReservations'
      BY <1>3, <1>t, <2>4, FewerReservations DEF RevertReserved, TypeOK, chain
    <2> QED BY <2>5, <2>6, <2>7 DEF IInv
  <1> QED BY <1>1, <1>2, <1>3 DEF Phase2Step

\* The reaper and the live-evict subscription.
LEMMA SupervisorPreserves ==
    ASSUME IInv, ReaperTick \/ PendingFinalized \/ Section
    PROVE  IInv'
  <1> USE DEF PcStates, Phase1
  <1>t. TypeOK /\ InsideAtHead /\ BalancedFree /\ NotYetReserved /\ DisjointReservations
    BY DEF IInv
  <1>1. CASE ReaperTick \/ PendingFinalized
    <2>1. PICK job \in Jobs : serialize(job)
      <3>1. {t \in pending : Finalized(t)} \in SUBSET Txs
        BY <1>t DEF TypeOK
      <3> QED BY <1>1, <3>1, JobFacts DEF ReaperTick, PendingFinalized
    <2>2. queue' \in Seq(Jobs) /\ \A j \in Jobs : Running(j) => Running(j)'
      BY <1>t, <2>1, SerializeFacts
    <2>3. UNCHANGED <<pc, attempt, coins, pending, age, net, gen, seen, faults>>
      BY <1>1 DEF ReaperTick, PendingFinalized, chain
    <2>4. TypeOK'
      BY <1>t, <2>2, <2>3 DEF TypeOK
    <2>5. InsideAtHead'
      BY <1>t, <2>2, <2>3, JobFacts DEF InsideAtHead
    <2>6. BalancedFree' /\ NotYetReserved' /\ DisjointReservations'
      BY <1>t, <2>3, FewerReservations
    <2> QED BY <2>4, <2>5, <2>6 DEF IInv
  <1>2. CASE Section
    <2>1. queue # <<>> /\ Head(queue).kind # "phase1" /\ Leave
      BY <1>2, JobFacts DEF Section, PeriodicReap, LiveEvict, Running
    <2>2. queue' \in Seq(Jobs)
      BY <1>t, <2>1, LeaveFacts
    <2>3. \A u \in Txs : pc[u] \notin Inside
      BY <1>t, <2>1, JobFacts DEF InsideAtHead, Running
    <2>4. PICK S \in SUBSET Txs : RevertAll(S)
      <3>1. {t \in pending : age[t] >= LongGrace} \in SUBSET Txs
        BY <1>t DEF TypeOK
      <3>2. Head(queue) \in Jobs
        BY <1>t, <2>1, HeadTailProperties DEF TypeOK
      <3>3. Head(queue).txs \in SUBSET Txs
        BY <3>2 DEF Jobs
      <3> QED BY <1>2, <3>1, <3>3
              DEF Section, PeriodicReap, PeriodicGrace, LiveEvict, reapStalePending
    <2>5. pending' \in SUBSET pending /\ faults' \in 0..MaxFaults
      BY <1>t, <2>4, RevertAllFacts
    <2>6. UNCHANGED <<pc, attempt, coins, age, net, gen, seen>>
      BY <1>2 DEF Section, PeriodicReap, LiveEvict, chain
    <2>7. TypeOK'
      BY <1>t, <2>2, <2>5, <2>6 DEF TypeOK
    <2>8. InsideAtHead'
      BY <2>3, <2>6 DEF InsideAtHead
    <2>9. BalancedFree' /\ NotYetReserved' /\ DisjointReservations'
      BY <1>t, <2>5, <2>6, FewerReservations
    <2> QED BY <2>7, <2>8, <2>9 DEF IInv
  <1> QED BY <1>1, <1>2

\* The network, the chain, the SDK and the clock.
LEMMA ChainPreserves ==
    ASSUME IInv,
           \/ \E t \in Txs : ChainStep(t)
           \/ \E l \in Lanes : WalletSync(l)
           \/ Tick
    PROVE  IInv'
  <1>t. TypeOK /\ InsideAtHead /\ BalancedFree /\ NotYetReserved /\ DisjointReservations
    BY DEF IInv
  <1>1. /\ UNCHANGED <<queue, pc, attempt, coins, faults>>
        /\ pending' \in SUBSET pending
    BY <1>t DEF ChainStep, NodeAccepts, ChainIncludes, ChainRefuses, SdkClears, WalletSync,
                Tick, wallet, chain
  <1>2. \A u \in Txs : pc[u] \in Phase1 \cup {"idle"} => net'[u] = net[u]
    BY <1>t DEF ChainStep, NodeAccepts, ChainIncludes, ChainRefuses, SdkClears, WalletSync,
                Tick, chain, NotYetReserved, TypeOK, Phase1
  <1>3. /\ net' \in [Txs -> NetStates] /\ gen' \in [Lanes -> Nat] /\ seen' \in [Lanes -> Nat]
        /\ age' \in [Txs -> 0..LongGrace]
    <2>1. CASE \E t \in Txs : ChainStep(t)
      <3> PICK t \in Txs : ChainStep(t)
        BY <2>1
      <3>1. CASE NodeAccepts(t) \/ ChainRefuses(t) \/ SdkClears(t)
        BY <3>1, <1>t DEF NodeAccepts, ChainRefuses, SdkClears, chain, TypeOK, NetStates
      <3>2. CASE ChainIncludes(t)
        BY <3>2, <1>t DEF ChainIncludes, TypeOK, NetStates
      <3> QED BY <3>1, <3>2 DEF ChainStep
    <2>2. CASE \E l \in Lanes : WalletSync(l)
      BY <2>2, <1>t DEF WalletSync, chain, TypeOK
    <2>3. CASE Tick
      <3>1. \A t \in Txs : Older(t) \in 0..LongGrace
        BY <1>t, GraceAssumption DEF Older, TypeOK
      <3>2. age' \in [Txs -> 0..LongGrace]
        BY <2>3, <3>1, GraceAssumption DEF Tick
      <3> QED BY <2>3, <3>2, <1>t DEF Tick, TypeOK, NetStates
    <2> QED BY <2>1, <2>2, <2>3
  <1>5. TypeOK'
    BY <1>t, <1>1, <1>3 DEF TypeOK
  <1>6. InsideAtHead'
    BY <1>t, <1>1 DEF InsideAtHead, Running
  <1>7. BalancedFree' /\ NotYetReserved' /\ DisjointReservations'
    BY <1>1, <1>2, FewerReservations
  <1> QED BY <1>5, <1>6, <1>7 DEF IInv

\* Every step preserves the invariant.
LEMMA NextIInv == IInv /\ [Next]_vars => IInv'
  <1> SUFFICES ASSUME IInv, [Next]_vars PROVE IInv'
    OBVIOUS
  <1>1. CASE UNCHANGED vars
    BY <1>1 DEF IInv, TypeOK, InsideAtHead, Running, BalancedFree, NotYetReserved,
                DisjointReservations, vars
  <1>2. CASE Next
    BY <1>2, Phase1Preserves, Phase2Preserves, SupervisorPreserves, ChainPreserves DEF Next
  <1> QED BY <1>1, <1>2

\* Every reachable state of the pipeline satisfies the inductive invariant.
THEOREM Inductive == Spec => []IInv
  BY InitIInv, NextIInv, PTL DEF Spec

\* Type correctness of the supervisor's and the network's state.
THEOREM TypeCorrect == Spec => []TypeOK
  <1>1. IInv => TypeOK
    BY DEF IInv
  <1> QED BY <1>1, Inductive, PTL

\* No two reserved transactions ever hold the same dust coin, however many
\* submits, retries, reaps and reverts interleave.
THEOREM ReservationsDisjoint == Spec => []DisjointReservations
  <1>1. IInv => DisjointReservations
    BY DEF IInv
  <1> QED BY <1>1, Inductive, PTL

\* A phase-1 retry never finds its own transaction reserved or on the network.
THEOREM RetryIsSafe == Spec => []RetryBeforeReserve
  <1>1. IInv => RetryBeforeReserve
    BY DEF IInv, NotYetReserved, RetryBeforeReserve
  <1> QED BY <1>1, Inductive, PTL

\* The mempool holds no transaction past its ttl.
MempoolYoung == \A t \in Txs : net[t] = "mempool" => age[t] < ChainTTL

\* Only the clock and a reserve change an age, only the node fills the mempool.
LEMMA YoungStep ==
    ASSUME IInv, MempoolYoung, [Next]_vars
    PROVE  MempoolYoung'
  <1>t. TypeOK /\ NotYetReserved
    BY DEF IInv
  <1>1. CASE UNCHANGED <<age, net>>
    BY <1>1 DEF MempoolYoung
  <1>2. ASSUME NEW t \in Txs, Reserve(t) PROVE MempoolYoung'
    <2>1. net' = net /\ net[t] = "none" /\ \A u \in Txs \ {t} : age'[u] = age[u]
      BY <1>2, <1>t DEF Reserve, NotYetReserved, Phase1, TypeOK, chain
    <2> QED BY <2>1 DEF MempoolYoung
  <1>3. ASSUME NEW t \in Txs, NodeAccepts(t) \/ ChainIncludes(t) \/ ChainRefuses(t)
        PROVE  MempoolYoung'
    BY <1>3, <1>t DEF NodeAccepts, ChainIncludes, ChainRefuses, MempoolYoung, TypeOK
  <1>4. CASE Tick
    <2> SUFFICES ASSUME NEW t \in Txs, net'[t] = "mempool" PROVE age'[t] < ChainTTL
      BY DEF MempoolYoung
    <2>1. net[t] = "mempool" /\ ~(Older(t) >= ChainTTL) /\ age'[t] = Older(t)
      BY <1>4 DEF Tick, Clocked
    <2> QED BY <2>1, <1>t, GraceAssumption DEF Older, TypeOK
  <1>5. CASE Next
    BY <1>1, <1>2, <1>3, <1>4, <1>5
       DEF Next, Submit, Phase1Step, EnsureReady, BalanceTx, Phase1Fails, BalanceShort,
           ShortfallReap, SettleWait, Phase2Step, BroadcastOk, BroadcastFails, RevertReserved,
           ReaperTick, PendingFinalized, Section, PeriodicReap, LiveEvict, ChainStep,
           SdkClears, WalletSync, wallet, chain
  <1>6. CASE UNCHANGED vars
    BY <1>1, <1>6 DEF vars
  <1> QED BY <1>5, <1>6

\* What the periodic reaper releases is dead on the network: it waits out the
\* chain's ttl.
THEOREM PeriodicReapSafe == Spec => PeriodicReapOnlyDead
  <1>1. Init => MempoolYoung
    BY DEF Init, MempoolYoung
  <1>2. IInv /\ MempoolYoung /\ [Next]_vars => MempoolYoung'
    BY YoungStep
  <1>3. IInv /\ MempoolYoung /\ [Next]_vars
          => [PeriodicReap => \A t \in pending \ pending' : ~Live(t)]_vars
    <2> SUFFICES ASSUME IInv, MempoolYoung, PeriodicReap, NEW t \in pending \ pending'
                 PROVE  ~Live(t)
      OBVIOUS
    <2>1. t \in Txs /\ age[t] \in Nat
      BY DEF IInv, TypeOK
    <2>2. age[t] >= LongGrace
      BY DEF PeriodicReap, PeriodicGrace, reapStalePending, RevertAll
    <2> QED BY <2>1, <2>2, GraceAssumption DEF Live, MempoolYoung
  <1> QED BY <1>1, <1>2, <1>3, Inductive, PTL DEF Spec, PeriodicReapOnlyDead
===============================================================================
