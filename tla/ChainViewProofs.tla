--------------------------- MODULE ChainViewProofs ---------------------------
(***************************************************************************)
(* The revocation feed and its two consumers, for any finite set of keys,  *)
(* any set of API requests and any bounds.                                 *)
(***************************************************************************)
EXTENDS MCChainView, FiniteSetTheorems, TLAPS

Events == [key : Keys, status : Statuses \ {"NONE"}]

FeedType ==
    /\ chain \in Seq([Keys -> Statuses]) /\ Len(chain) >= 1
    /\ view \in 0..Len(chain) /\ poll \in 0..Len(chain) /\ sub \in -1..Len(chain)
    /\ snap \in Seq(Events) /\ wire \in Seq(Events)
    /\ conn \in {"down", "snapshot", "tail"}
    /\ conn = "tail" => snap = <<>>
    /\ conn = "snapshot" => view # 0

\* What the frames q tell of key k: its last status, or nothing.
TellsLast(q, k, s) ==
    \E i \in DOMAIN q : q[i].key = k /\ q[i].status = s /\ \A j \in DOMAIN q : j > i => q[j].key # k
TellsNothing(q, k) == \A i \in DOMAIN q : q[i].key # k

\* A consumer that holds h for k will hold s, once it has read the frames sent and
\* then the ones to be sent.
WillHold(toSend, sent, h, k, s) ==
    \/ TellsLast(toSend, k, s)
    \/ /\ TellsNothing(toSend, k)
       /\ TellsLast(sent, k, s) \/ (TellsNothing(sent, k) /\ h = s)

ReaderInv ==
    /\ FeedType /\ picture \in [Keys -> Statuses]
    /\ conn # "down" /\ ~gap => \A k \in Keys :
          LedgerAt(view)[k] # "NONE" => WillHold(snap, wire, picture[k], k, LedgerAt(view)[k])
-----------------------------------------------------------------------------
(* Sequences of frames.                                                    *)

LEMMA TellsAppend ==
    ASSUME NEW q \in Seq(Events), NEW e \in Events, NEW k
    PROVE  /\ TellsLast(Append(q, e), e.key, e.status)
           /\ e.key # k => /\ \A s : TellsLast(q, k, s) => TellsLast(Append(q, e), k, s)
                           /\ TellsNothing(q, k) => TellsNothing(Append(q, e), k)
  <1> DEFINE r == Append(q, e)
  <1>1. DOMAIN q = 1..Len(q) /\ DOMAIN r = 1..(Len(q) + 1) /\ r[Len(q) + 1] = e
        /\ Len(q) \in Nat /\ \A i \in 1..Len(q) : r[i] = q[i]
    OBVIOUS
  <1> HIDE DEF r
  <1>2. TellsLast(r, e.key, e.status)
    BY <1>1 DEF TellsLast
  <1>3. ASSUME e.key # k, NEW s, TellsLast(q, k, s) PROVE TellsLast(r, k, s)
    BY <1>1, <1>3 DEF TellsLast
  <1>4. e.key # k /\ TellsNothing(q, k) => TellsNothing(r, k)
    BY <1>1 DEF TellsNothing
  <1> QED BY <1>2, <1>3, <1>4 DEF r

LEMMA TellsTail ==
    ASSUME NEW q \in Seq(Events), q # <<>>, NEW k
    PROVE  /\ Head(q) \in Events /\ Tail(q) \in Seq(Events)
           /\ TellsNothing(q, k) => TellsNothing(Tail(q), k) /\ Head(q).key # k
           /\ \A s : TellsLast(q, k, s) =>
                 \/ TellsLast(Tail(q), k, s)
                 \/ TellsNothing(Tail(q), k) /\ Head(q).key = k /\ Head(q).status = s
  <1> DEFINE r == Tail(q)
  <1>1. DOMAIN q = 1..Len(q) /\ DOMAIN r = 1..(Len(q) - 1) /\ Head(q) = q[1]
        /\ Len(q) \in Nat /\ Len(q) # 0 /\ \A i \in 1..(Len(q) - 1) : r[i] = q[i + 1]
    OBVIOUS
  <1>2. Head(q) \in Events /\ r \in Seq(Events)
    OBVIOUS
  <1> HIDE DEF r
  <1>3. TellsNothing(q, k) => TellsNothing(r, k) /\ Head(q).key # k
    BY <1>1 DEF TellsNothing
  <1>4. ASSUME NEW s, TellsLast(q, k, s)
        PROVE  TellsLast(r, k, s) \/ (TellsNothing(r, k) /\ Head(q).key = k /\ Head(q).status = s)
    <2>1. PICK i \in DOMAIN q : q[i].key = k /\ q[i].status = s /\ \A j \in DOMAIN q : j > i => q[j].key # k
      BY <1>4 DEF TellsLast
    <2>2. CASE i = 1
      BY <1>1, <2>1, <2>2 DEF TellsNothing
    <2>3. CASE i # 1
      <3>1. i - 1 \in 1..(Len(q) - 1) /\ (i - 1) + 1 = i
        BY <1>1, <2>1, <2>3
      <3>2. i - 1 \in DOMAIN r /\ r[i - 1] = q[i]
        BY <1>1, <3>1
      <3>3. ASSUME NEW j \in DOMAIN r, j > i - 1 PROVE r[j].key # k
        <4>1. j + 1 \in DOMAIN q /\ j + 1 > i /\ r[j] = q[j + 1]
          BY <1>1, <3>1, <3>3
        <4> QED BY <2>1, <4>1
      <3> QED BY <2>1, <3>2, <3>3 DEF TellsLast
    <2> QED BY <2>2, <2>3
  <1> QED BY <1>2, <1>3, <1>4 DEF r

LEMMA TellsConcat ==
    ASSUME NEW q \in Seq(Events), NEW f \in Seq(Events), NEW k, NEW s
    PROVE  /\ TellsLast(f, k, s) => TellsLast(q \o f, k, s)
           /\ TellsNothing(f, k) /\ TellsLast(q, k, s) => TellsLast(q \o f, k, s)
           /\ TellsNothing(f, k) /\ TellsNothing(q, k) => TellsNothing(q \o f, k)
  <1> DEFINE r == q \o f
             n == Len(q)
  <1>1. /\ n \in Nat /\ Len(f) \in Nat /\ DOMAIN q = 1..n /\ DOMAIN f = 1..Len(f)
        /\ DOMAIN r = 1..(n + Len(f))
        /\ \A i \in 1..n : r[i] = q[i]
        /\ \A i \in 1..Len(f) : r[n + i] = f[i]
    OBVIOUS
  <1>2. \A j \in DOMAIN r : j > n => j - n \in DOMAIN f /\ r[j] = f[j - n]
    <2> SUFFICES ASSUME NEW j \in DOMAIN r, j > n PROVE j - n \in DOMAIN f /\ r[j] = f[j - n]
      OBVIOUS
    <2> HIDE DEF r, n
    <2>1. j - n \in 1..Len(f) /\ n + (j - n) = j
      BY <1>1
    <2> QED BY <1>1, <2>1
  <1> HIDE DEF r, n
  <1>3. ASSUME TellsLast(f, k, s) PROVE TellsLast(r, k, s)
    <2>1. PICK i \in DOMAIN f : f[i].key = k /\ f[i].status = s /\ \A j \in DOMAIN f : j > i => f[j].key # k
      BY <1>3 DEF TellsLast
    <2>2. n + i \in DOMAIN r /\ r[n + i] = f[i]
      BY <1>1, <2>1
    <2>3. ASSUME NEW j \in DOMAIN r, j > n + i PROVE r[j].key # k
      <3>1. j - n \in DOMAIN f /\ j - n > i /\ r[j] = f[j - n]
        BY <1>1, <1>2, <2>1, <2>3
      <3> QED BY <2>1, <3>1
    <2> QED BY <2>1, <2>2, <2>3 DEF TellsLast
  <1>4. ASSUME TellsNothing(f, k), TellsLast(q, k, s) PROVE TellsLast(r, k, s)
    <2>1. PICK i \in DOMAIN q : q[i].key = k /\ q[i].status = s /\ \A j \in DOMAIN q : j > i => q[j].key # k
      BY <1>4 DEF TellsLast
    <2>2. i \in DOMAIN r /\ r[i] = q[i]
      BY <1>1, <2>1
    <2>3. ASSUME NEW j \in DOMAIN r, j > i PROVE r[j].key # k
      BY <1>1, <1>2, <1>4, <2>1, <2>3 DEF TellsNothing
    <2> QED BY <2>1, <2>2, <2>3 DEF TellsLast
  <1>5. TellsNothing(f, k) /\ TellsNothing(q, k) => TellsNothing(r, k)
    BY <1>1, <1>2 DEF TellsNothing
  <1> QED BY <1>3, <1>4, <1>5 DEF r

\* The frames of a set with at most one event per key.
LEMMA FramesTell ==
    ASSUME NEW E \in SUBSET Events, \A d, e \in E : d.key = e.key => d = e
    PROVE  /\ Frames(E) \in Seq(Events) /\ \A i \in DOMAIN Frames(E) : Frames(E)[i] \in E
           /\ \A e \in E : TellsLast(Frames(E), e.key, e.status)
           /\ \A k : (\A e \in E : e.key # k) => TellsNothing(Frames(E), k)
  <1>1. IsFiniteSet(E)
    <2> DEFINE g == [e \in E |-> e.key]
    <2>1. g \in Injection(E, Keys)
      BY DEF Injection, IsInjective, Events
    <2> QED BY <2>1, FS_Injection, FeedAssumption
  <1> DEFINE n == Cardinality(E)
             f == Frames(E)
  <1>2. n \in Nat /\ f \in Bijection(1..n, E)
    BY <1>1, FS_CardinalityType DEF Frames, ExistsBijection
  <1>3. /\ f \in [1..n -> E] /\ \A e \in E : \E i \in 1..n : f[i] = e
        /\ \A i, j \in 1..n : f[i] = f[j] => i = j
    BY <1>2 DEF Bijection, Injection, Surjection, IsInjective
  <1> HIDE DEF f
  <1>4. f \in Seq(Events) /\ DOMAIN f = 1..n
    BY <1>2, <1>3
  <1>5. ASSUME NEW e \in E PROVE TellsLast(f, e.key, e.status)
    <2>1. PICK i \in 1..n : f[i] = e
      BY <1>3
    <2>2. \A j \in 1..n : j > i => f[j].key # e.key
      BY <1>2, <1>3, <2>1
    <2> QED BY <1>4, <2>1, <2>2 DEF TellsLast
  <1>6. \A k : (\A e \in E : e.key # k) => TellsNothing(f, k)
    BY <1>3, <1>4 DEF TellsNothing
  <1> QED BY <1>3, <1>4, <1>5, <1>6 DEF f
-----------------------------------------------------------------------------
(* The feed.                                                               *)

LEMMA LedgerType ==
    ASSUME FeedType, NEW v \in 0..Len(chain)
    PROVE  LedgerAt(v) \in [Keys -> Statuses]
  BY DEF FeedType, LedgerAt, Empty, Statuses

\* What the sidecar publishes when its ledger moves from p to n.
LEMMA DiffTells ==
    ASSUME NEW p \in [Keys -> Statuses], NEW n \in [Keys -> Statuses]
    PROVE  /\ Diff(p, n) \in SUBSET Events /\ \A d, e \in Diff(p, n) : d.key = e.key => d = e
           /\ \A k \in Keys : n[k] # "NONE" =>
                 IF n[k] = p[k] THEN \A e \in Diff(p, n) : e.key # k
                 ELSE [key |-> k, status |-> n[k]] \in Diff(p, n)
           /\ \A e \in Diff(p, n) : e.status \in {"REVOKED", "SUSPENDED"} => n[e.key] = e.status
  <1> DEFINE D == Diff(p, n)
             C == {[key |-> k, status |-> n[k]] : k \in {x \in Keys : n[x] # "NONE" /\ n[x] # p[x]}}
             V == {Vanished(k) : k \in {x \in Keys : n[x] = "NONE" /\ p[x] # "NONE"}}
  <1>1. D = C \cup V
    BY DEF Diff
  <1>2. \A e \in C : /\ e \in Events /\ e.key \in Keys /\ n[e.key] # "NONE" /\ n[e.key] # p[e.key]
                     /\ e = [key |-> e.key, status |-> n[e.key]]
    BY DEF Events
  <1>3. \A e \in V : /\ e \in Events /\ e.key \in Keys /\ n[e.key] = "NONE"
                     /\ e = [key |-> e.key, status |-> "ACTIVE"]
    BY DEF Events, Vanished, Statuses
  <1>4. \A k \in Keys : n[k] # "NONE" /\ n[k] # p[k] => [key |-> k, status |-> n[k]] \in C
    OBVIOUS
  <1> HIDE DEF C, V, D
  <1>5. D \in SUBSET Events
    BY <1>1, <1>2, <1>3
  <1>6. ASSUME NEW d \in D, NEW e \in D, d.key = e.key PROVE d = e
    BY <1>1, <1>2, <1>3, <1>6
  <1>7. ASSUME NEW k \in Keys, n[k] # "NONE"
        PROVE  IF n[k] = p[k] THEN \A e \in D : e.key # k ELSE [key |-> k, status |-> n[k]] \in D
    BY <1>1, <1>2, <1>3, <1>4, <1>7
  <1>8. \A e \in D : e.status \in {"REVOKED", "SUSPENDED"} => n[e.key] = e.status
    BY <1>1, <1>2, <1>3
  <1> QED BY <1>5, <1>6, <1>7, <1>8 DEF D

LEMMA DiffEmpty ==
    ASSUME NEW p \in [Keys -> Statuses], NEW n \in [Keys -> Statuses], Diff(p, n) = {}
    PROVE  \A k \in Keys : n[k] # "NONE" => n[k] = p[k]
  BY DiffTells

\* The snapshot of version v.
Entries(v) == {[key |-> k, status |-> chain[v][k]] : k \in {x \in Keys : chain[v][x] # "NONE"}}

LEMMA SnapshotTells ==
    ASSUME FeedType, NEW v \in 1..Len(chain)
    PROVE  /\ Snapshot(v) \in Seq(Events) /\ \A i \in DOMAIN Snapshot(v) : Snapshot(v)[i] \in Entries(v)
           /\ \A k \in Keys : chain[v][k] # "NONE" => TellsLast(Snapshot(v), k, chain[v][k])
  <1> DEFINE E == Entries(v)
  <1>1. chain[v] \in [Keys -> Statuses]
    BY DEF FeedType
  <1>2. E \in SUBSET Events /\ \A d, e \in E : d.key = e.key => d = e
    BY <1>1 DEF Events, Entries
  <1>3. \A k \in Keys : chain[v][k] # "NONE" => [key |-> k, status |-> chain[v][k]] \in E
    BY DEF Entries
  <1>4. Snapshot(v) = Frames(E)
    BY DEF Snapshot, Entries
  <1> HIDE DEF E
  <1>5. /\ Frames(E) \in Seq(Events) /\ \A i \in DOMAIN Frames(E) : Frames(E)[i] \in E
        /\ \A e \in E : TellsLast(Frames(E), e.key, e.status)
    BY <1>2, FramesTell
  <1>6. ASSUME NEW k \in Keys, chain[v][k] # "NONE" PROVE TellsLast(Snapshot(v), k, chain[v][k])
    <2> DEFINE e == [key |-> k, status |-> chain[v][k]]
    <2>1. e \in E /\ e.key = k /\ e.status = chain[v][k]
      BY <1>3, <1>6
    <2> HIDE DEF e
    <2> QED BY <1>4, <1>5, <2>1
  <1> QED BY <1>4, <1>5, <1>6 DEF E

LEMMA ChainMovesType ==
    ASSUME FeedType, NEW k \in Keys, NEW s \in Statuses, ChainMoves(k, s)
    PROVE  /\ chain' \in Seq([Keys -> Statuses]) /\ Len(chain') = Len(chain) + 1
           /\ \A v \in 1..Len(chain) : chain'[v] = chain[v]
           /\ chain'[Len(chain) + 1] \in [Keys -> Statuses] /\ chain'[Len(chain) + 1][k] = s
  <1> DEFINE n == [chain[Latest] EXCEPT ![k] = s]
  <1>1. chain \in Seq([Keys -> Statuses]) /\ Latest = Len(chain) /\ Len(chain) \in 1..Len(chain)
    BY DEF FeedType, Latest
  <1>2. n \in [Keys -> Statuses] /\ n[k] = s
    BY <1>1
  <1>3. chain' = Append(chain, n)
    BY DEF ChainMoves
  <1> HIDE DEF n
  <1> QED BY <1>1, <1>2, <1>3

LEMMA ObserveType ==
    ASSUME FeedType, NEW v \in 1..Len(chain), Observe(v), chain' = chain,
           poll' \in 0..Len(chain), sub' \in -1..Len(chain)
    PROVE  FeedType'
  <1> DEFINE f == Frames(Diff(LedgerAt(view), LedgerAt(v)))
  <1>1. f \in Seq(Events)
    <2>1. LedgerAt(view) \in [Keys -> Statuses] /\ LedgerAt(v) \in [Keys -> Statuses]
      BY LedgerType DEF FeedType
    <2> QED BY <2>1, DiffTells, FramesTell
  <1>2. wire' = wire \/ wire' = wire \o f
    BY DEF Observe
  <1> HIDE DEF f
  <1>3. wire' \in Seq(Events)
    <2>1. wire \in Seq(Events)
      BY DEF FeedType
    <2>2. wire \o f \in Seq(Events)
      BY <1>1, <2>1
    <2> QED BY <1>2, <2>1, <2>2
  <1> QED BY <1>3 DEF FeedType, Observe

LEMMA FeedKeepsType ==
    ASSUME FeedType, FeedNext
    PROVE  FeedType'
  <1> USE DEF FeedType
  <1>1. Len(chain) \in Nat /\ Latest = Len(chain) /\ Latest \in 1..Len(chain)
    BY DEF Latest
  <1>2. CASE Join
    <2>1. Observe(Latest) /\ chain' = chain /\ poll' = poll /\ sub' = Latest - 1
      BY <1>2 DEF Join, SubscribeFrom
    <2>2. sub' \in -1..Len(chain)
      BY <1>1, <2>1
    <2> QED BY <1>1, <2>1, <2>2, ObserveType
  <1>3. CASE Deliver
    <2>1. sub + 1 \in 1..Len(chain)
      BY <1>1, <1>3 DEF Deliver
    <2> QED BY <1>3, <2>1, ObserveType DEF Deliver
  <1>4. CASE SubscriptionStops \/ PollFails
    BY <1>1, <1>4 DEF SubscriptionStops, PollFails, stream
  <1>5. CASE Resubscribe \/ PollQuery
    BY <1>1, <1>5 DEF Resubscribe, PollQuery, SubscribeFrom, stream
  <1>6. CASE PollAnswer
    <2>1. poll \in 1..Len(chain)
      BY <1>1, <1>6 DEF PollAnswer
    <2> QED BY <1>1, <1>6, <2>1, ObserveType DEF PollAnswer, PollResult
  <1>7. CASE Connect
    <2>1. CASE view = 0
      BY <1>7, <2>1 DEF Connect, sidecar
    <2>2. CASE view # 0
      <3>1. view \in 1..Len(chain)
        BY <2>2
      <3>2. snap' \in Seq(Events)
        BY <1>7, <2>2, <3>1, SnapshotTells DEF Connect
      <3> QED BY <1>7, <2>2, <3>2 DEF Connect, sidecar
    <2> QED BY <2>1, <2>2
  <1>8. CASE SendSnapshot
    <2>1. snap \in Seq(Events) /\ snap # <<>> /\ wire \in Seq(Events)
      BY <1>8 DEF SendSnapshot
    <2>2. wire' \in Seq(Events) /\ snap' \in Seq(Events)
      <3>1. Head(snap) \in Events /\ Tail(snap) \in Seq(Events)
        BY <2>1
      <3> QED BY <1>8, <2>1, <3>1 DEF SendSnapshot
    <2> QED BY <1>8, <2>2 DEF SendSnapshot, sidecar
  <1>9. CASE Subscribe
    BY <1>9 DEF Subscribe, sidecar
  <1>11. CASE Drop
    BY <1>11 DEF Drop, HangUp, sidecar
  <1>10. CASE SidecarRestart
    BY <1>1, <1>10 DEF SidecarRestart, HangUp
  <1> QED BY <1>2, <1>3, <1>4, <1>5, <1>6, <1>7, <1>8, <1>9, <1>10, <1>11 DEF FeedNext
-----------------------------------------------------------------------------
(* The reader.                                                             *)

LEMMA ObserveKeeps ==
    ASSUME ReaderInv, NEW v \in 1..Len(chain), Observe(v), FeedType', chain' = chain, picture' = picture
    PROVE  ReaderInv'
  <1> DEFINE p == LedgerAt(view)
             n == LedgerAt(v)
             D == Diff(p, n)
             f == Frames(D)
  <1>1. p \in [Keys -> Statuses] /\ n \in [Keys -> Statuses] /\ LedgerAt(view)' = n
    BY LedgerType DEF ReaderInv, FeedType, Observe, LedgerAt, Empty
  <1>2. /\ D \in SUBSET Events /\ \A d, e \in D : d.key = e.key => d = e
        /\ \A k \in Keys : n[k] # "NONE" =>
              IF n[k] = p[k] THEN \A e \in D : e.key # k ELSE [key |-> k, status |-> n[k]] \in D
    BY <1>1, DiffTells
  <1>3. /\ wire' = IF conn = "tail" THEN wire \o f ELSE wire
        /\ gap' = (gap \/ (conn = "snapshot" /\ D # {})) /\ conn' = conn /\ snap' = snap
    BY DEF Observe
  <1> HIDE DEF p, n, D
  <1>4. /\ f \in Seq(Events) /\ \A e \in D : TellsLast(f, e.key, e.status)
        /\ \A k : (\A e \in D : e.key # k) => TellsNothing(f, k)
    BY <1>2, FramesTell
  <1> HIDE DEF f
  <1>5. wire \in Seq(Events) /\ (conn = "tail" => snap = <<>>)
    BY DEF ReaderInv, FeedType
  <1>6. ASSUME conn # "down", ~gap', NEW k \in Keys, n[k] # "NONE"
        PROVE  WillHold(snap', wire', picture'[k], k, n[k])
    <2>1. ~gap
      BY <1>3, <1>6
    <2>2. CASE n[k] = p[k]
      <3>1. WillHold(snap, wire, picture[k], k, n[k]) /\ TellsNothing(f, k)
        BY <1>2, <1>4, <1>6, <2>1, <2>2 DEF ReaderInv, p
      <3>2. TellsLast(wire, k, n[k]) => TellsLast(wire', k, n[k])
        BY <1>3, <1>4, <1>5, <3>1, TellsConcat
      <3>3. TellsNothing(wire, k) => TellsNothing(wire', k)
        BY <1>3, <1>4, <1>5, <3>1, TellsConcat
      <3> QED BY <1>3, <3>1, <3>2, <3>3 DEF WillHold
    <2>3. CASE n[k] # p[k]
      <3> DEFINE e == [key |-> k, status |-> n[k]]
      <3>1. e \in D /\ e.key = k /\ e.status = n[k]
        BY <1>2, <1>6, <2>3
      <3> HIDE DEF e
      <3>2. conn = "tail"
        BY <1>3, <1>6, <3>1 DEF ReaderInv, FeedType
      <3>3. TellsLast(wire', k, n[k])
        BY <1>3, <1>4, <1>5, <3>1, <3>2, TellsConcat
      <3>4. TellsNothing(snap', k)
        BY <1>3, <1>5, <3>2 DEF TellsNothing
      <3> QED BY <3>3, <3>4 DEF WillHold
    <2> QED BY <2>2, <2>3
  <1> QED BY <1>1, <1>3, <1>6 DEF ReaderInv

LEMMA ConsumeKeeps ==
    ASSUME ReaderInv, Consume
    PROVE  ReaderInv'
  <1> DEFINE e == Head(wire)
  <1>1. wire \in Seq(Events) /\ wire # <<>> /\ wire' = Tail(wire) /\ conn' = conn /\ gap' = gap /\ snap' = snap
        /\ view' = view /\ chain' = chain /\ picture' = [picture EXCEPT ![e.key] = e.status]
    BY DEF Consume, ReaderInv, FeedType, sidecar
  <1>2. e \in Events /\ wire' \in Seq(Events) /\ LedgerAt(view)' = LedgerAt(view)
    BY <1>1 DEF LedgerAt, Empty
  <1>3. e.key \in Keys /\ e.status \in Statuses
    BY <1>2 DEF Events
  <1>4. FeedType'
    BY <1>1, <1>2 DEF Consume, ReaderInv, FeedType, sidecar
  <1>5. picture' \in [Keys -> Statuses] /\ \A k \in Keys : picture'[k] = IF k = e.key THEN e.status ELSE picture[k]
    BY <1>1, <1>3 DEF ReaderInv
  <1>6. ASSUME NEW k \in Keys, NEW s, WillHold(snap, wire, picture[k], k, s)
        PROVE  WillHold(snap', wire', picture'[k], k, s)
    <2>1. /\ TellsNothing(wire, k) => TellsNothing(wire', k) /\ e.key # k
          /\ TellsLast(wire, k, s) =>
                TellsLast(wire', k, s) \/ (TellsNothing(wire', k) /\ e.key = k /\ e.status = s)
      BY <1>1, TellsTail
    <2> HIDE DEF e
    <2> QED BY <1>1, <1>5, <1>6, <2>1 DEF WillHold
  <1> QED BY <1>1, <1>2, <1>4, <1>5, <1>6 DEF ReaderInv

LEMMA SendKeepsReader ==
    ASSUME ReaderInv, SendSnapshot, FeedType', picture' = picture
    PROVE  ReaderInv'
  <1> DEFINE e == Head(snap)
  <1>1. snap \in Seq(Events) /\ snap # <<>> /\ wire \in Seq(Events) /\ snap' = Tail(snap) /\ wire' = Append(wire, e)
        /\ conn' = conn /\ gap' = gap /\ view' = view /\ chain' = chain
    BY DEF SendSnapshot, ReaderInv, FeedType, sidecar
  <1>2. e \in Events /\ LedgerAt(view)' = LedgerAt(view)
    BY <1>1 DEF LedgerAt, Empty
  <1>3. ASSUME NEW k \in Keys, NEW s, WillHold(snap, wire, picture[k], k, s)
        PROVE  WillHold(snap', wire', picture'[k], k, s)
    <2>1. /\ TellsNothing(snap, k) => TellsNothing(snap', k) /\ e.key # k
          /\ TellsLast(snap, k, s) =>
                TellsLast(snap', k, s) \/ (TellsNothing(snap', k) /\ e.key = k /\ e.status = s)
      BY <1>1, TellsTail
    <2>2. /\ TellsLast(wire', e.key, e.status)
          /\ e.key # k => /\ TellsLast(wire, k, s) => TellsLast(wire', k, s)
                          /\ TellsNothing(wire, k) => TellsNothing(wire', k)
      BY <1>1, <1>2, TellsAppend
    <2> HIDE DEF e
    <2> QED BY <1>3, <2>1, <2>2 DEF WillHold
  <1> QED BY <1>1, <1>2, <1>3 DEF ReaderInv

LEMMA ConnectKeepsReader ==
    ASSUME ReaderInv, Connect, FeedType', picture' = picture
    PROVE  ReaderInv'
  <1>1. view' = view /\ chain' = chain /\ LedgerAt(view)' = LedgerAt(view)
    BY DEF Connect, sidecar, LedgerAt, Empty
  <1>2. CASE view = 0
    BY <1>1, <1>2 DEF ReaderInv, LedgerAt, Empty
  <1>3. CASE view # 0
    <2>1. FeedType /\ view \in 1..Len(chain) /\ LedgerAt(view) = chain[view] /\ snap' = Snapshot(view)
      BY <1>3 DEF ReaderInv, FeedType, LedgerAt, Connect
    <2>2. \A k \in Keys : chain[view][k] # "NONE" => TellsLast(snap', k, chain[view][k])
      BY <2>1, SnapshotTells
    <2> QED BY <1>1, <2>1, <2>2 DEF ReaderInv, WillHold
  <1> QED BY <1>2, <1>3

\* A step that changes nothing the reader depends on, or leaves it unconnected.
LEMMA ReaderUnmoved ==
    ASSUME ReaderInv, FeedType', picture' = picture,
           \/ conn' = "down"
           \/ /\ view' = view /\ LedgerAt(view)' = LedgerAt(view)
              /\ snap' = snap /\ wire' = wire /\ gap' = gap /\ conn # "down"
           \/ conn = "down" /\ conn' = conn
    PROVE  ReaderInv'
  BY DEF ReaderInv

LEMMA FeedKeepsReader ==
    ASSUME ReaderInv, FeedNext, picture' = picture
    PROVE  ReaderInv'
  <1>1. FeedType /\ FeedType'
    BY FeedKeepsType DEF ReaderInv
  <1>2. Len(chain) \in Nat /\ Latest = Len(chain) /\ Latest \in 1..Len(chain)
    BY <1>1 DEF FeedType, Latest
  <1>3. CASE Join
    BY <1>1, <1>2, <1>3, ObserveKeeps DEF Join
  <1>4. CASE Deliver
    <2>1. sub + 1 \in 1..Len(chain)
      BY <1>1, <1>2, <1>4 DEF Deliver, FeedType
    <2> QED BY <1>1, <1>4, <2>1, ObserveKeeps DEF Deliver
  <1>5. CASE PollAnswer
    <2>1. poll \in 1..Len(chain)
      BY <1>1, <1>2, <1>5 DEF PollAnswer, FeedType
    <2> QED BY <1>1, <1>5, <2>1, ObserveKeeps DEF PollAnswer, PollResult
  <1>6. CASE SubscriptionStops \/ Resubscribe \/ PollQuery \/ PollFails
    <2>1. view' = view /\ chain' = chain /\ UNCHANGED stream
      BY <1>6 DEF SubscriptionStops, Resubscribe, PollQuery, PollFails
    <2>2. LedgerAt(view)' = LedgerAt(view)
      BY <2>1 DEF LedgerAt, Empty
    <2> QED BY <1>1, <2>1, <2>2, ReaderUnmoved DEF stream
  <1>7. CASE Connect
    BY <1>1, <1>7, ConnectKeepsReader
  <1>8. CASE SendSnapshot
    BY <1>1, <1>8, SendKeepsReader
  <1>9. CASE Subscribe
    <2>1. view' = view /\ chain' = chain /\ snap' = snap /\ wire' = wire /\ gap' = gap /\ conn # "down"
      BY <1>9 DEF Subscribe, sidecar
    <2>2. LedgerAt(view)' = LedgerAt(view)
      BY <2>1 DEF LedgerAt, Empty
    <2> QED BY <1>1, <2>1, <2>2, ReaderUnmoved
  <1>10. CASE Drop \/ SidecarRestart
    BY <1>1, <1>10, ReaderUnmoved DEF Drop, SidecarRestart, HangUp
  <1> QED BY <1>3, <1>4, <1>5, <1>6, <1>7, <1>8, <1>9, <1>10 DEF FeedNext

LEMMA ChainKeepsReader ==
    ASSUME ReaderInv, NEW k \in Keys, NEW s \in Statuses, ChainMoves(k, s), UNCHANGED <<sidecar, stream, picture>>
    PROVE  ReaderInv'
  <1>1. /\ chain' \in Seq([Keys -> Statuses]) /\ Len(chain') = Len(chain) + 1
        /\ \A v \in 1..Len(chain) : chain'[v] = chain[v]
    BY ChainMovesType DEF ReaderInv
  <1>2. FeedType'
    BY <1>1 DEF ReaderInv, FeedType, sidecar, stream
  <1>3. view' = view /\ LedgerAt(view)' = LedgerAt(view)
    BY <1>1 DEF ReaderInv, FeedType, LedgerAt, Empty, sidecar
  <1> QED BY <1>2, <1>3, ReaderUnmoved DEF stream

LEMMA ReaderInitInv ==
    ASSUME ReaderInit
    PROVE  ReaderInv
  <1>1. Empty \in [Keys -> Statuses]
    BY DEF Empty, Statuses
  <1> QED BY <1>1 DEF ReaderInit, FeedInit, ReaderInv, FeedType

LEMMA ReaderStep ==
    ASSUME ReaderInv, ReaderNext \/ UNCHANGED readerVars
    PROVE  ReaderInv'
  <1>1. CASE Consume
    BY <1>1, ConsumeKeeps
  <1>2. CASE FeedNext /\ UNCHANGED picture
    BY <1>2, FeedKeepsReader
  <1>3. CASE \E k \in Keys, s \in Statuses : ChainMoves(k, s) /\ UNCHANGED <<sidecar, stream, picture>>
    BY <1>3, ChainKeepsReader
  <1>4. CASE UNCHANGED readerVars
    <2>1. chain' = chain /\ view' = view /\ poll' = poll /\ sub' = sub /\ conn' = conn /\ snap' = snap
          /\ wire' = wire /\ gap' = gap /\ picture' = picture
      BY <1>4 DEF readerVars, feedVars, sidecar, stream
    <2>2. LedgerAt(view)' = LedgerAt(view)
      BY <2>1 DEF LedgerAt, Empty
    <2>3. FeedType'
      BY <2>1 DEF ReaderInv, FeedType
    <2> QED BY <2>1, <2>2, <2>3, ReaderUnmoved
  <1> QED BY <1>1, <1>2, <1>3, <1>4 DEF ReaderNext

LEMMA ReaderHasAll ==
    ASSUME ReaderInv
    PROVE  NoGapNoLoss
  BY DEF ReaderInv, FeedType, NoGapNoLoss, Agrees, WillHold, TellsLast, TellsNothing

\* A consumer that has read everything written to it agrees with the sidecar's
\* ledger, unless the ledger moved between the snapshot and the subscription of
\* its connection.
THEOREM ReaderAgrees == ReaderSpec => []NoGapNoLoss
  <1>1. ReaderInit => ReaderInv
    BY ReaderInitInv
  <1>2. ReaderInv /\ [ReaderNext]_readerVars => ReaderInv'
    BY ReaderStep
  <1>3. ReaderInv => NoGapNoLoss
    BY ReaderHasAll
  <1> QED BY <1>1, <1>2, <1>3, PTL DEF ReaderSpec

\* The same of the instance that runs the reader beside the mirror.
THEOREM ReaderIsTold == MCSpec => []ReaderMissesNothing
  <1> DEFINE I == InMirror \/ ReaderInv
  <1>1. MCInit => I
    BY ReaderInitInv DEF MCInit
  <1>2. I /\ [MCNext]_<<vars, picture, part>> => I'
    <2> SUFFICES ASSUME I, [MCNext]_<<vars, picture, part>> PROVE I'
      OBVIOUS
    <2>1. part' = part
      BY DEF MCNext
    <2>2. CASE InMirror
      BY <2>1, <2>2 DEF InMirror
    <2>3. CASE ~InMirror
      <3>1. ReaderNext \/ UNCHANGED readerVars
        BY <2>3 DEF MCNext, InMirror, readerVars, vars
      <3> QED BY <2>3, <3>1, ReaderStep
    <2> QED BY <2>2, <2>3
  <1>3. I => ReaderMissesNothing
    BY ReaderHasAll DEF ReaderMissesNothing
  <1> QED BY <1>1, <1>2, <1>3, PTL DEF MCSpec
-----------------------------------------------------------------------------
(* The mirror.                                                             *)

Issuers == {"key", "hash", ""}
Rows == [status : {"absent", "active", "revoked", "suspended"}, issuer : Issuers]
Works == [at : {"chain", "db", "cache"}, op : Ops, id : Ids, issuer : Issuers]

MirrorType ==
    /\ FeedType
    /\ rows \in [Ids -> Rows] /\ cache \subseteq Ids /\ acked \subseteq Ids
    /\ job \in [Writers -> {Idle} \cup Works]

\* Some version of the chain c listed key k.
EverListed(c, k) == \E v \in DOMAIN c : ChainListed(c[v], k)

\* What the frames q will have the consumer list was listed by the chain.
FramesTrue(c, q) ==
    \A i \in DOMAIN q : q[i].status \in {"REVOKED", "SUSPENDED"} => EverListed(c, q[i].key)

\* A write of the mirror that lists a credential comes after the chain did.
ChainFirst(c, j) == j.at \in {"db", "cache"} /\ j.op # "reactivate" => EverListed(c, j.id[1])

MirrorInv ==
    /\ MirrorType
    /\ FramesTrue(chain, snap) /\ FramesTrue(chain, wire)
    /\ \A w \in Writers : ChainFirst(chain, job[w])
    /\ \A id \in Ids : RowListed(id) \/ id \in cache => EverListed(chain, id[1])
    /\ job["sse"] # Idle => job["sse"].id[2] = "hex"
    /\ \A id \in acked : id[2] = "b64" /\ RowListed(id) /\ id \in cache /\ ~Reactivating(id)

LEMMA WorkFields ==
    ASSUME NEW j \in Works
    PROVE  /\ j # Idle /\ j.at \in {"chain", "db", "cache"} /\ j.op \in Ops /\ j.id \in Ids /\ j.issuer \in Issuers
           /\ \A a \in {"chain", "db", "cache"} :
                 /\ [j EXCEPT !.at = a] \in Works /\ [j EXCEPT !.at = a].at = a
                 /\ [j EXCEPT !.at = a].op = j.op /\ [j EXCEPT !.at = a].id = j.id
  <1>1. j.at \in {"chain", "db", "cache"} /\ j.op \in Ops /\ j.id \in Ids /\ j.issuer \in Issuers
    BY DEF Works
  <1>2. j # Idle
    BY <1>1 DEF Idle
  <1>3. ASSUME NEW a \in {"chain", "db", "cache"}
        PROVE  /\ [j EXCEPT !.at = a] \in Works /\ [j EXCEPT !.at = a].at = a
               /\ [j EXCEPT !.at = a].op = j.op /\ [j EXCEPT !.at = a].id = j.id
    BY <1>3 DEF Works
  <1> QED BY <1>1, <1>2, <1>3

LEMMA WorkType ==
    ASSUME NEW a \in {"chain", "db", "cache"}, NEW o \in Ops, NEW id \in Ids, NEW s \in Issuers
    PROVE  /\ Work(a, o, id, s) \in Works
           /\ Work(a, o, id, s).at = a /\ Work(a, o, id, s).op = o /\ Work(a, o, id, s).id = id
  BY DEF Work, Works

LEMMA KnownOps ==
    /\ "revoke" \in Ops /\ "suspend" \in Ops /\ "reactivate" \in Ops
    /\ "key" \in Issuers /\ "hash" \in Issuers /\ "" \in Issuers
    /\ "chain" \in {"chain", "db", "cache"} /\ "db" \in {"chain", "db", "cache"}
    /\ "cache" \in {"chain", "db", "cache"}
  BY DEF Ops, Issuers

LEMMA EverStays ==
    ASSUME FeedType, NEW k \in Keys, NEW s \in Statuses, ChainMoves(k, s)
    PROVE  /\ \A x : EverListed(chain, x) => EverListed(chain', x)
           /\ s \in {"REVOKED", "SUSPENDED"} => EverListed(chain', k)
  <1>1. /\ chain \in Seq([Keys -> Statuses]) /\ chain' \in Seq([Keys -> Statuses]) /\ Len(chain') = Len(chain) + 1
        /\ \A v \in 1..Len(chain) : chain'[v] = chain[v]
        /\ chain'[Len(chain) + 1][k] = s
    BY ChainMovesType DEF FeedType
  <1>2. DOMAIN chain = 1..Len(chain) /\ DOMAIN chain' = 1..(Len(chain) + 1) /\ Len(chain) \in Nat
    BY <1>1
  <1>3. \A v \in DOMAIN chain : v \in DOMAIN chain' /\ chain'[v] = chain[v]
    BY <1>1, <1>2
  <1>4. Len(chain) + 1 \in DOMAIN chain'
    BY <1>2
  <1>5. \A x : EverListed(chain, x) => EverListed(chain', x)
    BY <1>3 DEF EverListed
  <1>6. s \in {"REVOKED", "SUSPENDED"} => EverListed(chain', k)
    BY <1>1, <1>4 DEF EverListed, ChainListed
  <1> QED BY <1>5, <1>6

\* What the sidecar publishes, live or in a snapshot, is in one of its ledgers.
LEMMA ObserveTrue ==
    ASSUME FeedType, NEW v \in 1..Len(chain), Observe(v), FramesTrue(chain, snap), FramesTrue(chain, wire)
    PROVE  FramesTrue(chain, snap') /\ FramesTrue(chain, wire')
  <1> DEFINE p == LedgerAt(view)
             n == LedgerAt(v)
             f == Frames(Diff(p, n))
  <1>1. p \in [Keys -> Statuses] /\ n \in [Keys -> Statuses] /\ n = chain[v] /\ v \in DOMAIN chain
    BY LedgerType DEF FeedType, LedgerAt
  <1>2. f \in Seq(Events) /\ (\A i \in DOMAIN f : f[i] \in Diff(p, n))
        /\ \A e \in Diff(p, n) : e.status \in {"REVOKED", "SUSPENDED"} => n[e.key] = e.status
    <2> HIDE DEF p, n
    <2> QED BY <1>1, DiffTells, FramesTell
  <1>3. snap' = snap /\ (wire' = wire \o f \/ wire' = wire) /\ wire \in Seq(Events)
    BY DEF Observe, FeedType
  <1> HIDE DEF p, n, f
  <1>4. FramesTrue(chain, f)
    BY <1>1, <1>2 DEF FramesTrue, EverListed, ChainListed
  <1>5. FramesTrue(chain, wire \o f)
    <2> DEFINE r == wire \o f
    <2>1. \A i \in DOMAIN r : (i \in DOMAIN wire /\ r[i] = wire[i]) \/ (i - Len(wire) \in DOMAIN f /\ r[i] = f[i - Len(wire)])
      BY <1>2, <1>3
    <2> HIDE DEF r
    <2>2. FramesTrue(chain, r)
      BY <1>4, <2>1 DEF FramesTrue
    <2> QED BY <2>2 DEF r
  <1> QED BY <1>3, <1>5

LEMMA FeedTrue ==
    ASSUME FeedType, FeedNext, FramesTrue(chain, snap), FramesTrue(chain, wire)
    PROVE  FramesTrue(chain', snap') /\ FramesTrue(chain', wire') /\ chain' = chain
  <1>1. Len(chain) \in Nat /\ Latest = Len(chain) /\ Latest \in 1..Len(chain)
    BY DEF FeedType, Latest
  <1>2. FramesTrue(chain, <<>>)
    BY DEF FramesTrue
  <1>3. CASE Join
    BY <1>1, <1>3, ObserveTrue DEF Join
  <1>4. CASE Deliver
    <2>1. sub + 1 \in 1..Len(chain)
      BY <1>1, <1>4 DEF Deliver, FeedType
    <2> QED BY <1>4, <2>1, ObserveTrue DEF Deliver
  <1>5. CASE PollAnswer
    <2>1. poll \in 1..Len(chain)
      BY <1>1, <1>5 DEF PollAnswer, FeedType
    <2> QED BY <1>5, <2>1, ObserveTrue DEF PollAnswer, PollResult
  <1>6. CASE SubscriptionStops \/ Resubscribe \/ PollQuery \/ PollFails
    BY <1>6 DEF SubscriptionStops, Resubscribe, PollQuery, PollFails, stream
  <1>7. CASE Connect
    <2>1. CASE view = 0
      BY <1>2, <1>7, <2>1 DEF Connect
    <2>2. CASE view # 0
      <3>1. view \in 1..Len(chain) /\ view \in DOMAIN chain
        BY <1>1, <2>2 DEF FeedType
      <3>2. \A i \in DOMAIN Snapshot(view) : Snapshot(view)[i] \in Entries(view)
        BY <3>1, SnapshotTells
      <3>3. \A e \in Entries(view) : e.status = chain[view][e.key]
        BY DEF Entries
      <3>4. FramesTrue(chain, Snapshot(view))
        BY <3>1, <3>2, <3>3 DEF FramesTrue, EverListed, ChainListed
      <3> QED BY <1>2, <1>7, <2>2, <3>4 DEF Connect
    <2> QED BY <2>1, <2>2
  <1>8. CASE SendSnapshot
    <2> DEFINE e == Head(snap)
               r == Append(wire, e)
               t == Tail(snap)
    <2>1. /\ chain' = chain /\ wire' = r /\ snap' = t
          /\ snap \in Seq(Events) /\ snap # <<>> /\ wire \in Seq(Events)
      BY <1>8 DEF SendSnapshot, FeedType
    <2>2. /\ 1 \in DOMAIN snap /\ e = snap[1]
          /\ \A i \in DOMAIN t : i + 1 \in DOMAIN snap /\ t[i] = snap[i + 1]
          /\ \A i \in DOMAIN r : (i \in DOMAIN wire /\ r[i] = wire[i]) \/ r[i] = e
      BY <2>1
    <2> HIDE DEF e, r, t
    <2>3. FramesTrue(chain, t) /\ FramesTrue(chain, r)
      BY <2>2 DEF FramesTrue
    <2> QED BY <2>1, <2>3
  <1>9. CASE Subscribe
    BY <1>9 DEF Subscribe
  <1>10. CASE Drop \/ SidecarRestart
    BY <1>2, <1>10 DEF Drop, SidecarRestart, HangUp
  <1> QED BY <1>3, <1>4, <1>5, <1>6, <1>7, <1>8, <1>9, <1>10 DEF FeedNext
-----------------------------------------------------------------------------
(* The steps of the mirror.                                                *)

\* One writer's job changes, to none, to the next stage of the same work, or to a
\* new one; K are the ids of which a reactivation is now asked for.
LEMMA JobStep ==
    ASSUME MirrorInv, NEW w \in Writers, NEW x \in {Idle} \cup Works, job' = [job EXCEPT ![w] = x],
           NEW c, \A y : EverListed(chain, y) => EverListed(c, y), ChainFirst(c, x),
           w = "sse" /\ x # Idle => x.id[2] = "hex", NEW K,
           \/ x = Idle
           \/ x.op # "reactivate"
           \/ x.id \in K
           \/ job[w] # Idle /\ x.op = job[w].op /\ x.id = job[w].id
    PROVE  /\ job' \in [Writers -> {Idle} \cup Works] /\ \A u \in Writers : ChainFirst(c, job'[u])
           /\ job'["sse"] # Idle => job'["sse"].id[2] = "hex"
           /\ \A id : Reactivating(id)' => Reactivating(id) \/ id \in K
  <1>1. job \in [Writers -> {Idle} \cup Works] /\ "sse" \in Writers /\ Clients \subseteq Writers
    BY DEF MirrorInv, MirrorType, Writers
  <1>2. job' \in [Writers -> {Idle} \cup Works] /\ \A u \in Writers : job'[u] = IF u = w THEN x ELSE job[u]
    BY <1>1
  <1>3. \A u \in Writers : ChainFirst(c, job'[u])
    BY <1>2 DEF MirrorInv, ChainFirst
  <1>4. job'["sse"] # Idle => job'["sse"].id[2] = "hex"
    BY <1>1, <1>2 DEF MirrorInv
  <1>5. ASSUME NEW id, Reactivating(id)' PROVE Reactivating(id) \/ id \in K
    <2>1. PICK u \in Clients : job'[u] # Idle /\ job'[u].op = "reactivate" /\ job'[u].id = id
      BY <1>5 DEF Reactivating
    <2>2. CASE u = w
      BY <1>1, <1>2, <2>1, <2>2 DEF Reactivating
    <2>3. CASE u # w
      BY <1>1, <1>2, <2>1, <2>3 DEF Reactivating
    <2> QED BY <2>2, <2>3
  <1> QED BY <1>2, <1>3, <1>4, <1>5

\* A step that touches neither the rows nor the cache.
LEMMA StoreKept ==
    ASSUME MirrorInv, rows' = rows, cache' = cache, NEW K, acked' = acked \ K,
           MirrorType', FramesTrue(chain', snap'), FramesTrue(chain', wire'),
           \A y : EverListed(chain, y) => EverListed(chain', y),
           \A u \in Writers : ChainFirst(chain', job'[u]),
           job'["sse"] # Idle => job'["sse"].id[2] = "hex",
           \A id : Reactivating(id)' => Reactivating(id) \/ id \in K
    PROVE  MirrorInv'
  <1>1. \A id : RowListed(id)' <=> RowListed(id)
    BY DEF RowListed
  <1>2. \A id \in acked' : id[2] = "b64" /\ RowListed(id)' /\ id \in cache' /\ ~Reactivating(id)'
    BY <1>1 DEF MirrorInv
  <1>3. \A id \in Ids : RowListed(id)' \/ id \in cache' => EverListed(chain', id[1])
    BY <1>1 DEF MirrorInv
  <1> QED BY <1>2, <1>3 DEF MirrorInv

LEMMA FeedUnmoved ==
    ASSUME MirrorInv, UNCHANGED feedVars
    PROVE  FeedType' /\ FramesTrue(chain', snap') /\ FramesTrue(chain', wire') /\ chain' = chain
  <1>1. chain' = chain /\ view' = view /\ poll' = poll /\ sub' = sub /\ conn' = conn /\ snap' = snap /\ wire' = wire
    BY DEF feedVars, sidecar, stream
  <1> QED BY <1>1 DEF MirrorInv, MirrorType, FeedType

LEMMA BeginKeeps ==
    ASSUME MirrorInv, NEW w \in Clients, NEW x \in Works, Begin(w, x), ChainFirst(chain, x)
    PROVE  MirrorInv'
  <1> DEFINE K == IF x.op = "reactivate" THEN {x.id} ELSE {}
  <1>1. /\ job' = [job EXCEPT ![w] = x] /\ acked' = acked \ K /\ rows' = rows /\ cache' = cache
        /\ UNCHANGED feedVars
    BY DEF Begin
  <1>2. w \in Writers /\ w # "sse" /\ x \in {Idle} \cup Works /\ (x.op # "reactivate" \/ x.id \in K)
    BY ClientsAssumption DEF Writers
  <1> HIDE DEF K
  <1>3. /\ job' \in [Writers -> {Idle} \cup Works] /\ \A u \in Writers : ChainFirst(chain, job'[u])
        /\ job'["sse"] # Idle => job'["sse"].id[2] = "hex"
        /\ \A id : Reactivating(id)' => Reactivating(id) \/ id \in K
    BY <1>1, <1>2, JobStep
  <1>4. FeedType' /\ FramesTrue(chain', snap') /\ FramesTrue(chain', wire') /\ chain' = chain
    BY <1>1, FeedUnmoved
  <1>5. MirrorType'
    BY <1>1, <1>3, <1>4 DEF MirrorInv, MirrorType
  <1> QED BY <1>1, <1>3, <1>4, <1>5, StoreKept

\* A writer gives up, or is refused.
LEMMA StopKeeps ==
    ASSUME MirrorInv, NEW w \in Writers, job' = [job EXCEPT ![w] = Idle],
           UNCHANGED <<feedVars, rows, cache, acked>>
    PROVE  MirrorInv'
  <1>1. ChainFirst(chain, Idle)
    BY DEF ChainFirst, Idle
  <1> DEFINE K == {}
             x == Idle
  <1>0. x = Idle /\ x \in {Idle} \cup Works /\ acked \ K = acked
    OBVIOUS
  <1> HIDE DEF K, x
  <1>2. /\ job' \in [Writers -> {Idle} \cup Works] /\ \A u \in Writers : ChainFirst(chain, job'[u])
        /\ job'["sse"] # Idle => job'["sse"].id[2] = "hex"
        /\ \A id : Reactivating(id)' => Reactivating(id) \/ id \in K
    BY <1>1, <1>0, JobStep
  <1>3. FeedType' /\ FramesTrue(chain', snap') /\ FramesTrue(chain', wire') /\ chain' = chain
    BY FeedUnmoved
  <1>4. rows' = rows /\ cache' = cache /\ acked' = acked /\ acked' = acked \ K
    BY <1>0
  <1>5. MirrorType'
    BY <1>2, <1>3, <1>4 DEF MirrorInv, MirrorType
  <1> QED BY <1>2, <1>3, <1>4, <1>5, StoreKept

\* The ledger a request is checked against is a version of the chain.
LEMMA ViewOnChain ==
    ASSUME MirrorInv, view # 0
    PROVE  view \in DOMAIN chain /\ LedgerAt(view) = chain[view]
  <1>1. chain \in Seq([Keys -> Statuses]) /\ view \in 0..Len(chain)
    BY DEF MirrorInv, MirrorType, FeedType
  <1>2. view \in 1..Len(chain) /\ DOMAIN chain = 1..Len(chain)
    BY <1>1
  <1> QED BY <1>2 DEF LedgerAt

LEMMA RequestKeeps ==
    ASSUME MirrorInv, NEW w \in Clients, NEW id \in Ids,
           (\E op \in Ops : RequestListing(w, op, id)) \/ RequestReactivate(w, id) \/ CheckSyncs(w, id)
    PROVE  MirrorInv'
  <1>1. CASE \E op \in Ops : RequestListing(w, op, id)
    <2>1. PICK op \in Ops : RequestListing(w, op, id)
      BY <1>1
    <2>2. Work("chain", op, id, "key") \in Works /\ Work("chain", op, id, "key").at = "chain"
      BY KnownOps DEF Work, Works
    <2>3. ChainFirst(chain, Work("chain", op, id, "key"))
      BY <2>2 DEF ChainFirst
    <2> QED BY <2>1, <2>2, <2>3, BeginKeeps DEF RequestListing
  <1>2. CASE RequestReactivate(w, id)
    <2>1. rows[id].issuer \in Issuers /\ "reactivate" \in Ops
      BY DEF MirrorInv, MirrorType, Rows, Ops
    <2>2. Work("chain", "reactivate", id, rows[id].issuer) \in Works
          /\ Work("chain", "reactivate", id, rows[id].issuer).at = "chain"
      BY <2>1, WorkType
    <2>3. ChainFirst(chain, Work("chain", "reactivate", id, rows[id].issuer))
      BY <2>2 DEF ChainFirst
    <2> QED BY <1>2, <2>2, <2>3, BeginKeeps DEF RequestReactivate
  <1>3. CASE CheckSyncs(w, id)
    <2>0. view # 0 /\ ChainListed(LedgerAt(view), id[1])
      BY <1>3 DEF CheckSyncs
    <2>1. view \in DOMAIN chain /\ LedgerAt(view) = chain[view]
      BY <2>0, ViewOnChain
    <2>2. EverListed(chain, id[1])
      BY <2>0, <2>1 DEF EverListed
    <2>3. Work("db", "revoke", id, "") \in Works /\ Work("db", "revoke", id, "").id = id
      BY KnownOps DEF Work, Works
    <2>4. ChainFirst(chain, Work("db", "revoke", id, ""))
      BY <2>2, <2>3 DEF ChainFirst
    <2> QED BY <1>3, <2>3, <2>4, BeginKeeps DEF CheckSyncs
  <1> QED BY <1>1, <1>2, <1>3

LEMMA VerifySyncsKeeps ==
    ASSUME MirrorInv, NEW w \in Clients, NEW k \in Keys, VerifySyncs(w, k)
    PROVE  MirrorInv'
  <1> DEFINE id == <<k, "b64">>
  <1>1. view \in DOMAIN chain /\ LedgerAt(view) = chain[view]
    BY ViewOnChain DEF VerifySyncs
  <1>2. EverListed(chain, k)
    BY <1>1 DEF VerifySyncs, EverListed
  <1>3. Begin(w, Work("db", "revoke", id, "key")) /\ id \in Ids /\ id[1] = k
    BY DEF VerifySyncs, Ids
  <1> HIDE DEF id
  <1>4. Work("db", "revoke", id, "key") \in Works /\ Work("db", "revoke", id, "key").id = id
    BY <1>3, KnownOps DEF Work, Works
  <1>5. ChainFirst(chain, Work("db", "revoke", id, "key"))
    BY <1>2, <1>3, <1>4 DEF ChainFirst
  <1> QED BY <1>3, <1>4, <1>5, BeginKeeps

\* The chain moves on; whatever it listed, it has listed.
LEMMA ChainMoved ==
    ASSUME MirrorInv, NEW k \in Keys, NEW s \in Statuses, ChainMoves(k, s), UNCHANGED <<sidecar, stream>>
    PROVE  /\ FeedType' /\ FramesTrue(chain', snap') /\ FramesTrue(chain', wire')
           /\ \A y : EverListed(chain, y) => EverListed(chain', y)
           /\ s \in {"REVOKED", "SUSPENDED"} => EverListed(chain', k)
  <1>1. FeedType /\ view' = view /\ poll' = poll /\ sub' = sub /\ conn' = conn /\ snap' = snap /\ wire' = wire
    BY DEF MirrorInv, MirrorType, sidecar, stream
  <1>2. chain' \in Seq([Keys -> Statuses]) /\ Len(chain') = Len(chain) + 1
    BY <1>1, ChainMovesType
  <1>3. FeedType'
    BY <1>1, <1>2 DEF FeedType
  <1>4. /\ \A y : EverListed(chain, y) => EverListed(chain', y)
        /\ s \in {"REVOKED", "SUSPENDED"} => EverListed(chain', k)
    BY <1>1, EverStays
  <1>5. FramesTrue(chain', snap') /\ FramesTrue(chain', wire')
    BY <1>1, <1>4 DEF MirrorInv, FramesTrue
  <1> QED BY <1>3, <1>4, <1>5

LEMMA OwnerMovesKeeps ==
    ASSUME MirrorInv, NEW k \in Keys, NEW s \in Statuses, OwnerMoves(k, s)
    PROVE  MirrorInv'
  <1> DEFINE K == {}
  <1>1. acked' = acked \ K /\ rows' = rows /\ cache' = cache /\ job' = job /\ acked' = acked
    BY DEF OwnerMoves, mirror
  <1> HIDE DEF K
  <1>2. /\ FeedType' /\ FramesTrue(chain', snap') /\ FramesTrue(chain', wire')
        /\ \A y : EverListed(chain, y) => EverListed(chain', y)
    BY ChainMoved DEF OwnerMoves
  <1>3. /\ MirrorType' /\ \A u \in Writers : ChainFirst(chain', job'[u])
        /\ job'["sse"] # Idle => job'["sse"].id[2] = "hex"
        /\ \A id : Reactivating(id)' => Reactivating(id) \/ id \in K
    BY <1>1, <1>2 DEF MirrorInv, MirrorType, ChainFirst, Reactivating
  <1> QED BY <1>1, <1>2, <1>3, StoreKept

LEMMA FeedKeepsMirror ==
    ASSUME MirrorInv, FeedNext, UNCHANGED mirror
    PROVE  MirrorInv'
  <1> DEFINE K == {}
  <1>1. acked' = acked \ K /\ rows' = rows /\ cache' = cache /\ job' = job /\ acked' = acked
    BY DEF mirror
  <1> HIDE DEF K
  <1>2. FeedType' /\ FramesTrue(chain', snap') /\ FramesTrue(chain', wire') /\ chain' = chain
    BY FeedKeepsType, FeedTrue DEF MirrorInv, MirrorType
  <1>3. /\ MirrorType' /\ \A u \in Writers : ChainFirst(chain', job'[u])
        /\ job'["sse"] # Idle => job'["sse"].id[2] = "hex"
        /\ \A id : Reactivating(id)' => Reactivating(id) \/ id \in K
    BY <1>1, <1>2 DEF MirrorInv, MirrorType, Reactivating
  <1> QED BY <1>1, <1>2, <1>3, StoreKept

\* The work of a writer that is not idle.
LEMMA AtWork ==
    ASSUME MirrorInv, NEW w \in Writers, job[w].at # "idle"
    PROVE  job[w] \in Works /\ job[w] # Idle
  <1>1. job[w] \in {Idle} \cup Works
    BY DEF MirrorInv, MirrorType
  <1>2. Idle.at = "idle"
    BY DEF Idle
  <1> QED BY <1>1, <1>2

LEMMA ChainCallLandsKeeps ==
    ASSUME MirrorInv, NEW w \in Clients, ChainCallLands(w)
    PROVE  MirrorInv'
  <1> DEFINE j == job[w]
             x == [j EXCEPT !.at = "db"]
             k == j.id[1]
             s == OnChain(j.op)
             K == {}
  <1>1. w \in Writers /\ w # "sse" /\ j.at # "idle"
    BY ClientsAssumption DEF Writers, ChainCallLands
  <1>2. j \in Works /\ j # Idle
    BY <1>1, AtWork
  <1>3. /\ x \in Works /\ x # Idle /\ x.op = j.op /\ x.id = j.id /\ j.id \in Ids /\ j.op \in Ops
    BY <1>2, KnownOps, WorkFields
  <1>4. k \in Keys /\ s \in Statuses /\ (j.op # "reactivate" => s \in {"REVOKED", "SUSPENDED"})
    BY <1>3 DEF Ids, Ops, OnChain, Statuses
  <1>5. ChainMoves(k, s) /\ UNCHANGED <<sidecar, stream>> /\ job' = [job EXCEPT ![w] = x]
        /\ rows' = rows /\ cache' = cache /\ acked' = acked /\ acked' = acked \ K
    BY DEF ChainCallLands
  <1> HIDE DEF K, x, s, k, j
  <1>6. /\ FeedType' /\ FramesTrue(chain', snap') /\ FramesTrue(chain', wire')
        /\ \A y : EverListed(chain, y) => EverListed(chain', y)
        /\ s \in {"REVOKED", "SUSPENDED"} => EverListed(chain', k)
    BY <1>4, <1>5, ChainMoved
  <1>7. ChainFirst(chain', x) /\ x \in {Idle} \cup Works
        /\ job[w] # Idle /\ x.op = job[w].op /\ x.id = job[w].id
    BY <1>2, <1>3, <1>4, <1>6 DEF ChainFirst, k, j
  <1>8. /\ job' \in [Writers -> {Idle} \cup Works] /\ \A u \in Writers : ChainFirst(chain', job'[u])
        /\ job'["sse"] # Idle => job'["sse"].id[2] = "hex"
        /\ \A id : Reactivating(id)' => Reactivating(id) \/ id \in K
    BY <1>1, <1>5, <1>6, <1>7, JobStep
  <1>9. MirrorType'
    BY <1>5, <1>6, <1>8 DEF MirrorInv, MirrorType
  <1> QED BY <1>5, <1>6, <1>8, <1>9, StoreKept

LEMMA TakeFrameKeeps ==
    ASSUME MirrorInv, TakeFrame
    PROVE  MirrorInv'
  <1> DEFINE e == Head(wire)
             o == CASE e.status = "REVOKED" -> "revoke" [] e.status = "SUSPENDED" -> "suspend"
                    [] e.status = "ACTIVE" -> "reactivate"
             id0 == <<e.key, "hex">>
             x == Work("db", o, id0, "hash")
             K == {id0}
  <1>1. wire \in Seq(Events) /\ wire # <<>> /\ FeedType
    BY DEF TakeFrame, MirrorInv, MirrorType, FeedType
  <1>2. e = wire[1] /\ 1 \in DOMAIN wire /\ e \in Events /\ Tail(wire) \in Seq(Events)
        /\ \A i \in DOMAIN Tail(wire) : i + 1 \in DOMAIN wire /\ Tail(wire)[i] = wire[i + 1]
    BY <1>1
  <1>3. e.key \in Keys /\ e.status \in {"ACTIVE", "REVOKED", "SUSPENDED"}
    BY <1>2 DEF Events, Statuses
  <1>4. o \in Ops /\ id0 \in Ids /\ id0[1] = e.key /\ id0[2] = "hex"
        /\ (o # "reactivate" => e.status \in {"REVOKED", "SUSPENDED"})
    BY <1>3 DEF Ops, Ids
  <1>5. /\ job' = [job EXCEPT !["sse"] = x] /\ wire' = Tail(wire) /\ chain' = chain /\ UNCHANGED sidecar
        /\ conn' = conn /\ snap' = snap /\ gap' = gap /\ rows' = rows /\ cache' = cache /\ acked' = acked
    BY DEF TakeFrame
  <1> HIDE DEF o, id0
  <1>6. x \in Works /\ x.id = id0 /\ x.op = o
    BY <1>4, KnownOps DEF Work, Works
  <1> HIDE DEF x, e
  <1>7. FramesTrue(chain, wire') /\ (e.status \in {"REVOKED", "SUSPENDED"} => EverListed(chain, e.key))
    BY <1>2, <1>5 DEF MirrorInv, FramesTrue
  <1>8. ChainFirst(chain, x) /\ x \in {Idle} \cup Works /\ "sse" \in Writers /\ x.id \in K /\ x.id[2] = "hex"
    BY <1>4, <1>6, <1>7 DEF ChainFirst, Writers
  <1>9. \A id \in acked : id \notin K
    BY <1>4 DEF MirrorInv
  <1> HIDE DEF K
  <1>10. /\ job' \in [Writers -> {Idle} \cup Works] /\ \A u \in Writers : ChainFirst(chain, job'[u])
         /\ job'["sse"] # Idle => job'["sse"].id[2] = "hex"
         /\ \A id : Reactivating(id)' => Reactivating(id) \/ id \in K
    BY <1>5, <1>8, JobStep
  <1>11. FeedType'
    BY <1>1, <1>2, <1>5 DEF FeedType, sidecar
  <1>12. MirrorType' /\ acked' = acked \ K
    <2>1. acked' = acked \ K
      BY <1>5, <1>9
    <2> QED BY <1>5, <1>10, <1>11, <2>1 DEF MirrorInv, MirrorType
  <1>13. FramesTrue(chain', snap') /\ FramesTrue(chain', wire')
    BY <1>5, <1>7 DEF MirrorInv
  <1> QED BY <1>5, <1>10, <1>12, <1>13, StoreKept

\* No writer is about to unlist an id that was acknowledged as listed.
LEMMA AckedNotReactivated ==
    ASSUME MirrorInv, NEW w \in Writers, job[w] # Idle, job[w].op = "reactivate"
    PROVE  job[w].id \notin acked
  <1>1. CASE w = "sse"
    BY <1>1 DEF MirrorInv
  <1>2. CASE w \in Clients
    BY <1>2 DEF MirrorInv, Reactivating
  <1> QED BY <1>1, <1>2 DEF Writers

LEMMA DbWriteKeeps ==
    ASSUME MirrorInv, NEW w \in Writers, DbWrite(w)
    PROVE  MirrorInv'
  <1> DEFINE j == job[w]
             x == [j EXCEPT !.at = "cache"]
             r == CASE j.op = "revoke" -> Upserted(j.id, "revoked", j.issuer)
                    [] j.op = "suspend" -> Upserted(j.id, "suspended", j.issuer)
                    [] j.op = "reactivate" -> [rows[j.id] EXCEPT !.status = "active"]
  <1>1. j.at = "db" /\ UNCHANGED <<feedVars, cache, acked>>
    BY DEF DbWrite
  <1>2. j \in Works /\ j # Idle
    BY <1>1, AtWork
  <1>3. /\ j.op \in Ops /\ j.id \in Ids /\ j.issuer \in Issuers
        /\ x \in Works /\ x # Idle /\ x.op = j.op /\ x.id = j.id /\ x.at = "cache"
    BY <1>2, KnownOps, WorkFields
  <1>4. CASE j.op = "reactivate" /\ rows[j.id] = Absent
    BY <1>1, <1>4, StopKeeps DEF DbWrite
  <1>5. CASE ~(j.op = "reactivate" /\ rows[j.id] = Absent)
    <2>1. rows' = [rows EXCEPT ![j.id] = r] /\ job' = [job EXCEPT ![w] = x]
      BY <1>5 DEF DbWrite
    <2>2. r \in Rows /\ (j.op = "reactivate" => r.status = "active")
          /\ (j.op # "reactivate" => r.status \in Listed)
      <3>1. rows[j.id] \in Rows
        BY <1>3 DEF MirrorInv, MirrorType
      <3>2. rows[j.id].issuer \in Issuers
        BY <3>1 DEF Rows
      <3> DEFINE i == IF rows[j.id] = Absent THEN j.issuer ELSE rows[j.id].issuer
      <3>3. i \in Issuers
        BY <1>3, <3>2
      <3> HIDE DEF i
      <3>4. CASE j.op = "revoke"
        <4>1. r = [status |-> "revoked", issuer |-> i]
          BY <3>4 DEF Upserted, i
        <4> QED BY <3>3, <3>4, <4>1 DEF Rows, Listed
      <3>5. CASE j.op = "suspend"
        <4>1. r = [status |-> "suspended", issuer |-> i]
          BY <3>5 DEF Upserted, i
        <4> QED BY <3>3, <3>5, <4>1 DEF Rows, Listed
      <3>6. CASE j.op = "reactivate"
        <4>1. r = [rows[j.id] EXCEPT !.status = "active"]
          BY <3>6
        <4> QED BY <3>1, <3>6, <4>1 DEF Rows
      <3> QED BY <1>3, <3>4, <3>5, <3>6 DEF Ops
    <2>3. ChainFirst(chain, j) /\ (j.op # "reactivate" => EverListed(chain, j.id[1]))
      BY <1>1 DEF MirrorInv, ChainFirst
    <2>4. j.op = "reactivate" => j.id \notin acked
      BY <1>2, AckedNotReactivated
    <2>5. w = "sse" => j.id[2] = "hex"
      BY <1>2 DEF MirrorInv
    <2>6. job[w] # Idle /\ x.op = job[w].op /\ x.id = job[w].id
      BY <1>2, <1>3
    <2> HIDE DEF r, x, j
    <2>7. ChainFirst(chain, x) /\ x \in {Idle} \cup Works /\ (w = "sse" => x.id[2] = "hex")
      BY <1>3, <2>3, <2>5 DEF ChainFirst
    <2> DEFINE K == {}
    <2>8. \A id : id \notin K
      OBVIOUS
    <2> HIDE DEF K
    <2>9. /\ job' \in [Writers -> {Idle} \cup Works] /\ \A u \in Writers : ChainFirst(chain, job'[u])
          /\ job'["sse"] # Idle => job'["sse"].id[2] = "hex"
          /\ \A id : Reactivating(id)' => Reactivating(id) \/ id \in K
      BY <2>1, <2>6, <2>7, JobStep
    <2>10. FeedType' /\ FramesTrue(chain', snap') /\ FramesTrue(chain', wire') /\ chain' = chain
      BY <1>1, FeedUnmoved
    <2>11. rows \in [Ids -> Rows] /\ cache' = cache /\ acked' = acked /\ cache \subseteq Ids /\ acked \subseteq Ids
      BY <1>1 DEF MirrorInv, MirrorType
    <2>12. rows' \in [Ids -> Rows] /\ \A id \in Ids : rows'[id] = IF id = j.id THEN r ELSE rows[id]
      BY <1>3, <2>1, <2>2, <2>11
    <2>13. MirrorType'
      BY <2>9, <2>10, <2>11, <2>12 DEF MirrorType
    <2>14. \A id \in Ids : RowListed(id)' \/ id \in cache' => EverListed(chain', id[1])
      BY <2>2, <2>3, <2>10, <2>11, <2>12 DEF MirrorInv, RowListed, Listed
    <2>15. \A id \in acked' : id[2] = "b64" /\ RowListed(id)' /\ id \in cache' /\ ~Reactivating(id)'
      BY <2>2, <2>4, <2>8, <2>9, <2>11, <2>12 DEF MirrorInv, RowListed
    <2> QED BY <2>9, <2>10, <2>13, <2>14, <2>15 DEF MirrorInv
  <1> QED BY <1>4, <1>5

LEMMA CacheWriteKeeps ==
    ASSUME MirrorInv, NEW w \in Writers, CacheWrite(w)
    PROVE  MirrorInv'
  <1> DEFINE j == job[w]
             x == Idle
             K == {}
  <1>1. /\ j.at = "cache" /\ UNCHANGED feedVars /\ rows' = rows /\ job' = [job EXCEPT ![w] = x]
        /\ cache' = IF j.op = "reactivate" THEN cache \ {j.id} ELSE cache \cup {j.id}
        /\ acked' = IF j.op # "reactivate" /\ j.id[2] = "b64" /\ RowListed(j.id) /\ ~Reactivating(j.id)
                      THEN acked \cup {j.id} ELSE acked
    BY DEF CacheWrite, Uncached
  <1>2. j \in Works /\ j # Idle
    BY <1>1, AtWork
  <1>3. j.id \in Ids
    BY <1>2, WorkFields
  <1>4. j.op # "reactivate" => EverListed(chain, j.id[1])
    BY <1>1 DEF MirrorInv, ChainFirst
  <1>5. j.op = "reactivate" => j.id \notin acked
    BY <1>2, AckedNotReactivated
  <1>6. x = Idle /\ x \in {Idle} \cup Works /\ ChainFirst(chain, x) /\ \A id : id \notin K
    BY DEF ChainFirst, Idle
  <1> HIDE DEF j, x, K
  <1>7. /\ job' \in [Writers -> {Idle} \cup Works] /\ \A u \in Writers : ChainFirst(chain, job'[u])
        /\ job'["sse"] # Idle => job'["sse"].id[2] = "hex"
        /\ \A id : Reactivating(id)' => Reactivating(id) \/ id \in K
    BY <1>1, <1>6, JobStep
  <1>8. FeedType' /\ FramesTrue(chain', snap') /\ FramesTrue(chain', wire') /\ chain' = chain
    BY <1>1, FeedUnmoved
  <1>9. MirrorType'
    BY <1>1, <1>3, <1>7, <1>8 DEF MirrorInv, MirrorType
  <1>10. \A id : RowListed(id)' <=> RowListed(id)
    BY <1>1 DEF RowListed
  <1>11. \A id \in Ids : RowListed(id)' \/ id \in cache' => EverListed(chain', id[1])
    BY <1>1, <1>4, <1>8, <1>10 DEF MirrorInv
  <1>12. \A id \in acked' : id[2] = "b64" /\ RowListed(id)' /\ id \in cache' /\ ~Reactivating(id)'
    BY <1>1, <1>5, <1>6, <1>7, <1>10 DEF MirrorInv
  <1> QED BY <1>7, <1>8, <1>9, <1>11, <1>12 DEF MirrorInv

LEMMA CrashKeeps ==
    ASSUME MirrorInv, Crash
    PROVE  MirrorInv'
  <1>1. /\ job' = [w \in Writers |-> Idle] /\ rows' = rows /\ chain' = chain
        /\ view' = view /\ poll' = poll /\ sub' = sub /\ conn' = "down" /\ snap' = <<>> /\ wire' = <<>>
        /\ \/ cache' = Primed /\ acked' = acked
           \/ cache' = {} /\ acked' = {}
    BY DEF Crash, HangUp, sidecar
  <1>2. FeedType'
    BY <1>1 DEF MirrorInv, MirrorType, FeedType
  <1>3. FramesTrue(chain', snap') /\ FramesTrue(chain', wire')
    BY <1>1 DEF FramesTrue
  <1>4. \A w \in Writers : job'[w] = Idle /\ ChainFirst(chain', Idle)
    BY <1>1 DEF ChainFirst, Idle
  <1>5. "sse" \in Writers /\ Clients \subseteq Writers
    BY DEF Writers
  <1>6. \A id : RowListed(id)' <=> RowListed(id)
    BY <1>1 DEF RowListed
  <1>7. MirrorType'
    BY <1>1, <1>2 DEF MirrorInv, MirrorType, Primed
  <1>8. \A id \in Ids : RowListed(id)' \/ id \in cache' => EverListed(chain', id[1])
    BY <1>1, <1>6 DEF MirrorInv, Primed
  <1>9. \A id \in acked' : id[2] = "b64" /\ RowListed(id)' /\ id \in cache' /\ ~Reactivating(id)'
    BY <1>1, <1>4, <1>5, <1>6 DEF MirrorInv, MirrorType, Primed, Reactivating
  <1> QED BY <1>3, <1>4, <1>5, <1>7, <1>8, <1>9 DEF MirrorInv

LEMMA MirrorInit ==
    ASSUME Init
    PROVE  MirrorInv
  <1>1. Empty \in [Keys -> Statuses]
    BY DEF Empty, Statuses
  <1>2. FeedType /\ snap = <<>> /\ wire = <<>>
    BY <1>1 DEF Init, FeedInit, FeedType
  <1>3. Absent \in Rows /\ Absent.status \notin Listed
    BY DEF Absent, Rows, Issuers, Listed
  <1>4. MirrorType
    BY <1>2, <1>3 DEF Init, MirrorType
  <1>5. \A id \in Ids : ~RowListed(id)
    BY <1>3 DEF Init, RowListed
  <1>6. "sse" \in Writers /\ \A w \in Writers : job[w] = Idle /\ ChainFirst(chain, Idle)
    BY DEF Init, Writers, ChainFirst, Idle
  <1>7. FramesTrue(chain, snap) /\ FramesTrue(chain, wire)
    BY <1>2 DEF FramesTrue
  <1> QED BY <1>4, <1>5, <1>6, <1>7 DEF Init, MirrorInv

LEMMA MirrorStep ==
    ASSUME MirrorInv, [Next]_vars
    PROVE  MirrorInv'
  <1>1. CASE FeedNext /\ UNCHANGED mirror
    BY <1>1, FeedKeepsMirror
  <1>2. CASE \E k \in Keys, s \in Statuses : OwnerMoves(k, s)
    BY <1>2, OwnerMovesKeeps
  <1>3. CASE TakeFrame
    BY <1>3, TakeFrameKeeps
  <1>4. ASSUME NEW w \in Clients,
               \/ \E id \in Ids :
                     \/ \E op \in Ops : RequestListing(w, op, id)
                     \/ RequestReactivate(w, id)
                     \/ CheckSyncs(w, id)
               \/ \E k \in Keys : VerifySyncs(w, k)
               \/ ChainCallLands(w)
               \/ ChainCallFails(w)
               \/ CallerGone(w)
        PROVE  MirrorInv'
    <2>1. w \in Writers
      BY DEF Writers
    <2>2. CASE ChainCallFails(w) \/ CallerGone(w)
      BY <2>1, <2>2, StopKeeps DEF ChainCallFails, AfterFailure, CallerGone
    <2> QED BY <1>4, <2>2, RequestKeeps, VerifySyncsKeeps, ChainCallLandsKeeps
  <1>5. ASSUME NEW w \in Writers, DbWrite(w) \/ DbFails(w) \/ CacheWrite(w)
        PROVE  MirrorInv'
    <2>1. CASE DbFails(w)
      BY <2>1, StopKeeps DEF DbFails
    <2> QED BY <1>5, <2>1, DbWriteKeeps, CacheWriteKeeps
  <1>6. CASE Crash
    BY <1>6, CrashKeeps
  <1>7. CASE UNCHANGED vars
    <2>1. /\ UNCHANGED feedVars /\ rows' = rows /\ cache' = cache /\ job' = job /\ acked' = acked
      BY <1>7 DEF vars, mirror
    <2>2. FeedType' /\ FramesTrue(chain', snap') /\ FramesTrue(chain', wire') /\ chain' = chain
      BY <2>1, FeedUnmoved
    <2> QED BY <2>1, <2>2 DEF MirrorInv, MirrorType, RowListed, Reactivating
  <1> QED BY <1>1, <1>2, <1>3, <1>4, <1>5, <1>6, <1>7 DEF Next

\* The rows, the cache and the consumer's queue stay typed, every write that
\* lists a credential comes after the chain listed it, and an acknowledged id is
\* listed in its row and in the cache with no reactivation of it under way.
THEOREM MirrorInductive == Spec => []MirrorInv
  <1>1. Init => MirrorInv
    BY MirrorInit
  <1>2. MirrorInv /\ [Next]_vars => MirrorInv'
    BY MirrorStep
  <1> QED BY <1>1, <1>2, PTL DEF Spec

\* Chain first: what a row or the cache lists was listed by some version of the
\* chain, whatever fails, is lost, hangs up or restarts, and in any order.
THEOREM ListedOnChain == Spec => []NoPhantomRevocation
  <1>1. MirrorInv => NoPhantomRevocation
    BY DEF MirrorInv, NoPhantomRevocation, EverListed
  <1> QED BY <1>1, MirrorInductive, PTL

\* A base64url id that a call reported as listed is in the cache that /verify
\* reads until its reactivation is asked for.
THEOREM AckedIsListed == Spec => []AckedStaysListed
  <1>1. MirrorInv => AckedStaysListed
    BY DEF MirrorInv, AckedStaysListed
  <1> QED BY <1>1, MirrorInductive, PTL
=============================================================================
