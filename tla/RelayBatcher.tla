----------------------------- MODULE RelayBatcher -----------------------------
(***************************************************************************)
(* RelayBatcher<T>: proven transactions are buffered for a window or until *)
(* maxBatch, merged and flushed as one chain transaction; a failed batch   *)
(* is bisected to one flush per member.  (relay-batcher.ts)                *)
(*                                                                         *)
(* A flush is named by the set of jobs it merges, which is also its chain  *)
(* transaction id.  What flush does (merge, then the supervised submitTx)  *)
(* is external here: it may accept, refuse, or accept and lose the answer. *)
(* Jobs and promise, what submit returned for each of them, are declared   *)
(* by RelayPromise, which says what the batcher owes its callers.          *)
(***************************************************************************)
EXTENDS RelayPromise, Integers, Sequences, Functions

CONSTANTS
    Poison,    \* the jobs whose transaction is invalid
    MaxBatch   \* opts.maxBatch

ASSUME BatchAssumption == MaxBatch \in Nat \ {0}
ASSUME PoisonAssumption == Poison \subseteq Jobs

VARIABLES
    buf,       \* this.buf
    timer,     \* this.timer # null
    flights,   \* the awaited calls of opts.flush
    txId,      \* the chain id a resolved job received
    accepted   \* transactions the network has accepted

vars == <<buf, timer, flights, promise, txId, accepted>>

Buffered == Range(buf)

Init ==
    /\ buf = <<>>
    /\ timer = FALSE
    /\ flights = {}
    /\ promise = [j \in Jobs |-> "none"]
    /\ txId = [j \in Jobs |-> {}]
    /\ accepted = {}

\* flushNow: clear the timer, swap the buffer, call flush unless it was empty.
FlushNow(batch) ==
    /\ timer' = FALSE
    /\ buf' = <<>>
    /\ flights' = flights \cup ({Range(batch)} \ {{}})

ArmTimer(batch) ==
    /\ timer' = TRUE
    /\ buf' = batch
    /\ UNCHANGED flights

Full(batch) == Len(batch) >= MaxBatch

Submit(j) ==
    LET batch == Append(buf, j) IN
    /\ promise[j] = "none"
    /\ promise' = [promise EXCEPT ![j] = "waiting"]
    /\ IF Full(batch) THEN FlushNow(batch) ELSE ArmTimer(batch)
    /\ UNCHANGED <<txId, accepted>>

WindowElapses ==
    /\ timer
    /\ FlushNow(buf)
    /\ UNCHANGED <<promise, txId, accepted>>

SettleAll(S, outcome) == promise' = [j \in Jobs |-> IF j \in S THEN outcome ELSE promise[j]]

Answered(S) == S \in accepted

FlushOk(S) ==
    /\ S \in flights /\ Answered(S)
    /\ SettleAll(S, "resolved")
    /\ txId' = [j \in Jobs |-> IF j \in S THEN S ELSE txId[j]]
    /\ flights' = flights \ {S}
    /\ UNCHANGED <<buf, timer, accepted>>

Single(S) == \E j \in S : S = {j}

FlushFailsSingle(S) ==
    /\ S \in flights /\ Single(S)
    /\ SettleAll(S, "rejected")
    /\ flights' = flights \ {S}
    /\ UNCHANGED <<buf, timer, txId, accepted>>

MutBisectedKeeps(S) == {S} \cup {{j} : j \in S}  \* mutant: the merged flush is tried again too
MutBisected(S) == {S}  \* mutant: the batch is submitted again as a whole
Bisected(S) == {{j} : j \in S}

FlushFailsBatch(S) ==
    /\ S \in flights /\ ~Single(S)
    /\ flights' = (flights \ {S}) \cup Bisected(S)
    /\ UNCHANGED <<buf, timer, promise, txId, accepted>>

\* External: the merged transaction is atomic, one invalid member fails it.
NetworkAccepts(S) ==
    /\ S \in flights \ accepted
    /\ S \cap Poison = {}
    /\ accepted' = accepted \cup {S}
    /\ UNCHANGED <<buf, timer, flights, promise, txId>>

FlushEnds(S) == FlushOk(S) \/ FlushFailsSingle(S) \/ FlushFailsBatch(S)

Next ==
    \/ \E j \in Jobs : Submit(j)
    \/ WindowElapses
    \/ \E S \in flights : FlushEnds(S) \/ NetworkAccepts(S)

Spec == Init /\ [][Next]_vars

\* The event loop runs timers, and the supervised submit behind flush settles.
FairSpec ==
    /\ Spec
    /\ WF_vars(WindowElapses)
    /\ \A S \in SUBSET Jobs : WF_vars(FlushEnds(S))

(***************************************************************************)
(* Properties                                                              *)
(***************************************************************************)
TypeOK ==
    /\ buf \in Seq(Jobs) /\ Len(buf) < MaxBatch
    /\ timer \in BOOLEAN
    /\ flights \subseteq SUBSET Jobs
    /\ promise \in [Jobs -> {"none", "waiting", "resolved", "rejected"}]
    /\ txId \in [Jobs -> SUBSET Jobs]
    /\ accepted \subseteq SUBSET Jobs

\* The timer runs exactly while something waits in the buffer: no job is
\* stranded by the race of the window with a full batch.
TimedBuffer == timer <=> buf # <<>>

\* A job that waits is in exactly one place, once: in the buffer or in one
\* flush.  No flush carries a settled job, so no job is settled twice.
InOnePlace ==
    /\ \A i, k \in 1..Len(buf) : buf[i] = buf[k] => i = k
    /\ \A S, U \in flights : S # U => S \cap U = {}
    /\ \A S \in flights : S # {} /\ S \cap Buffered = {}
    /\ Buffered \cup UNION flights = {j \in Jobs : promise[j] = "waiting"}

\* A resolved job's chain id is that of an accepted transaction that carries it.
ResolvedLanded ==
    \A j \in Jobs : promise[j] = "resolved" => j \in txId[j] /\ txId[j] \in accepted

\* The batcher settles every promise exactly once, jobs of one flush together.
Abstract == INSTANCE RelayPromise WITH Jobs <- Jobs, promise <- promise
Promises == Abstract!PromiseSpec
===============================================================================
