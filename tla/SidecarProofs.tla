----------------------------- MODULE SidecarProofs -----------------------------
(***************************************************************************)
(* The relay path and the chain client of the sidecar.                     *)
(*                                                                         *)
(* The batcher, for any jobs, poison set and batch size: the conservation  *)
(* invariant InOnePlace (with TimedBuffer and ResolvedLanded, which are    *)
(* inductive together with it), that every step is a step of RelayPromise, *)
(* and that a rejection follows a flush of the job alone.  The relay jobs  *)
(* on top of it, for any number of aborts and restarts: what a stream that *)
(* has ended told the holder is true.                                      *)
(*                                                                         *)
(* The client, for any list of contracts and any number of timeouts,       *)
(* failures and restarts: what getClient serves is whole.                  *)
(***************************************************************************)
EXTENDS RelayService, SidecarClient, SequenceTheorems, TLAPS

(* The batcher.                                                            *)

IInv == TypeOK /\ TimedBuffer /\ InOnePlace /\ ResolvedLanded

\* Appending a new job to an injective buffer.
LEMMA AppendNew ==
    ASSUME NEW q \in Seq(Jobs), NEW j \in Jobs, j \notin Range(q),
           \A i, k \in 1..Len(q) : q[i] = q[k] => i = k
    PROVE  LET b == Append(q, j) IN
           /\ b \in Seq(Jobs) /\ Len(b) = Len(q) + 1 /\ b # <<>>
           /\ Range(b) = Range(q) \cup {j}
           /\ \A i, k \in 1..Len(b) : b[i] = b[k] => i = k
  <1> DEFINE b == Append(q, j)
  <1>1. /\ b \in Seq(Jobs) /\ Len(b) = Len(q) + 1 /\ b # <<>>
        /\ \A i \in 1..Len(q) : b[i] = q[i]
        /\ b[Len(q) + 1] = j
        /\ Len(q) \in Nat
    BY AppendProperties, LenProperties
  <1>2. DOMAIN q = 1..Len(q) /\ DOMAIN b = 1..(Len(q) + 1)
    BY <1>1, LenProperties
  <1>3. \A i \in 1..(Len(q) + 1) : i \in 1..Len(q) \/ i = Len(q) + 1
    BY <1>1
  <1>4. Range(b) = Range(q) \cup {j}
    BY <1>1, <1>2, <1>3 DEF Range
  <1>5. \A i \in 1..Len(q) : q[i] # j
    BY <1>2 DEF Range
  <1>6. \A i, k \in 1..(Len(q) + 1) : b[i] = b[k] => i = k
    BY <1>1, <1>3, <1>5
  <1> QED BY <1>1, <1>4, <1>6

\* A batcher just constructed.
LEMMA InitIInv == Init => IInv
  <1> SUFFICES ASSUME Init PROVE IInv
    OBVIOUS
  <1>1. Range(buf) = {} /\ Len(buf) = 0 /\ buf \in Seq(Jobs)
    BY DEF Init, Range
  <1>2. TypeOK
    <2>1. Len(buf) < MaxBatch
      BY <1>1, BatchAssumption
    <2>2. flights \subseteq SUBSET Jobs /\ accepted \subseteq SUBSET Jobs
      BY DEF Init
    <2> QED BY <1>1, <2>1, <2>2 DEF Init, TypeOK
  <1>3. InOnePlace
    BY <1>1 DEF Init, InOnePlace, Buffered
  <1>4. TimedBuffer /\ ResolvedLanded
    BY DEF Init, TimedBuffer, ResolvedLanded
  <1> QED BY <1>2, <1>3, <1>4 DEF IInv

\* A call of submit, whether it arms the timer or fills the batch.
LEMMA SubmitPreserves ==
    ASSUME IInv, NEW j \in Jobs, Submit(j)
    PROVE  IInv'
  <1> DEFINE batch == Append(buf, j)
  <1>t. TypeOK /\ TimedBuffer /\ InOnePlace /\ ResolvedLanded
    BY DEF IInv
  <1>1. /\ promise[j] = "none" /\ promise' = [promise EXCEPT ![j] = "waiting"]
        /\ txId' = txId /\ accepted' = accepted
        /\ IF Full(batch) THEN FlushNow(batch) ELSE ArmTimer(batch)
    BY DEF Submit
  <1>2. j \notin Range(buf) /\ j \notin UNION flights
    BY <1>t, <1>1 DEF InOnePlace, Buffered
  <1>3. /\ batch \in Seq(Jobs) /\ Len(batch) = Len(buf) + 1 /\ batch # <<>>
        /\ Range(batch) = Range(buf) \cup {j}
        /\ \A i, k \in 1..Len(batch) : batch[i] = batch[k] => i = k
    BY <1>t, <1>2, AppendNew DEF TypeOK, InOnePlace
  <1>4. /\ promise' \in [Jobs -> {"none", "waiting", "resolved", "rejected"}]
        /\ {k \in Jobs : promise'[k] = "waiting"}
             = {k \in Jobs : promise[k] = "waiting"} \cup {j}
        /\ ResolvedLanded'
    BY <1>t, <1>1 DEF TypeOK, ResolvedLanded
  <1>5. Range(batch) \in SUBSET Jobs /\ Range(batch) # {}
    <2>1. Range(buf) \subseteq Jobs
      BY <1>t DEF InOnePlace, Buffered
    <2> QED BY <2>1, <1>3
  <1> HIDE DEF batch
  <1>6. CASE Full(batch)
    <2>1. timer' = FALSE /\ buf' = <<>> /\ flights' = flights \cup {Range(batch)}
      BY <1>1, <1>5, <1>6 DEF FlushNow
    <2>2. Range(buf') = {} /\ Len(buf') = 0 /\ buf' \in Seq(Jobs)
      BY <2>1 DEF Range
    <2>3. TypeOK'
      <3>1. flights' \subseteq SUBSET Jobs
        BY <1>t, <1>5, <2>1 DEF TypeOK
      <3>2. Len(buf') < MaxBatch
        BY <2>2, BatchAssumption
      <3> QED BY <1>t, <1>1, <1>4, <2>1, <2>2, <3>1, <3>2 DEF TypeOK
    <2>4. \A S, U \in flights' : S # U => S \cap U = {}
      <3>1. \A S \in flights : S \cap Range(batch) = {}
        BY <1>t, <1>2, <1>3 DEF InOnePlace, Buffered
      <3>2. \A S, U \in flights : S # U => S \cap U = {}
        BY <1>t DEF InOnePlace
      <3> SUFFICES ASSUME NEW S \in flights', NEW U \in flights', S # U
                   PROVE  S \cap U = {}
        OBVIOUS
      <3>3. (S \in flights \/ S = Range(batch)) /\ (U \in flights \/ U = Range(batch))
        BY <2>1
      <3> QED BY <3>1, <3>2, <3>3
    <2>5. Range(buf') \cup UNION flights' = {k \in Jobs : promise'[k] = "waiting"}
      <3>1. \A k : k \in UNION flights' <=> k \in UNION flights \/ k \in Range(buf) \/ k = j
        <4>1. \A k : k \in UNION flights' <=> k \in UNION flights \/ k \in Range(batch)
          BY <2>1, Zenon
        <4> QED BY <1>3, <4>1
      <3>2. Range(buf) \cup UNION flights = {k \in Jobs : promise[k] = "waiting"}
        BY <1>t DEF InOnePlace, Buffered
      <3>3. \A k : k \in UNION flights' <=> k \in Jobs /\ (promise[k] = "waiting" \/ k = j)
        BY <3>1, <3>2
      <3> QED BY <1>4, <2>2, <3>3
    <2>6. InOnePlace'
      BY <1>t, <1>5, <2>1, <2>2, <2>4, <2>5 DEF InOnePlace, Buffered
    <2>7. TimedBuffer'
      BY <2>1 DEF TimedBuffer
    <2> QED BY <2>3, <2>6, <2>7, <1>4 DEF IInv
  <1>7. CASE ~Full(batch)
    <2>1. timer' = TRUE /\ buf' = batch /\ flights' = flights
      BY <1>1, <1>7 DEF ArmTimer
    <2>2. TypeOK'
      BY <1>t, <1>1, <1>3, <1>4, <1>7, <2>1, BatchAssumption DEF TypeOK, Full
    <2>3. InOnePlace'
      BY <1>t, <1>2, <1>3, <1>4, <2>1 DEF InOnePlace, Buffered
    <2>4. TimedBuffer'
      BY <1>3, <2>1 DEF TimedBuffer
    <2> QED BY <2>2, <2>3, <2>4, <1>4 DEF IInv
  <1> QED BY <1>6, <1>7

\* The window elapses and flushes a buffer that is not empty.
LEMMA WindowPreserves ==
    ASSUME IInv, WindowElapses
    PROVE  IInv'
  <1>t. TypeOK /\ TimedBuffer /\ InOnePlace /\ ResolvedLanded
    BY DEF IInv
  <1>1. Range(buf) # {} /\ Range(buf) \in SUBSET Jobs
    <2>1. buf # <<>> /\ buf \in Seq(Jobs)
      BY <1>t DEF WindowElapses, TimedBuffer, TypeOK
    <2>2. 1 \in DOMAIN buf
      BY <2>1, EmptySeq, LenProperties
    <2> QED BY <2>2, <1>t DEF Range, InOnePlace, Buffered
  <1>2. /\ timer' = FALSE /\ buf' = <<>> /\ flights' = flights \cup {Range(buf)}
        /\ UNCHANGED <<promise, txId, accepted>>
    BY <1>1 DEF WindowElapses, FlushNow
  <1>3. Range(buf') = {} /\ Len(buf') = 0 /\ buf' \in Seq(Jobs)
    BY <1>2 DEF Range
  <1>4. TypeOK'
    <2>1. flights' \subseteq SUBSET Jobs
      BY <1>t, <1>1, <1>2 DEF TypeOK
    <2>2. Len(buf') < MaxBatch
      BY <1>3, BatchAssumption
    <2> QED BY <1>t, <1>2, <1>3, <2>1, <2>2 DEF TypeOK
  <1>5. InOnePlace'
    BY <1>t, <1>1, <1>2, <1>3 DEF InOnePlace, Buffered
  <1>6. TimedBuffer' /\ ResolvedLanded'
    BY <1>t, <1>2 DEF TimedBuffer, ResolvedLanded
  <1> QED BY <1>4, <1>5, <1>6 DEF IInv

\* A flush resolves, rejects or bisects, or the network takes its transaction.
LEMMA FlightPreserves ==
    ASSUME IInv, NEW S \in flights, FlushEnds(S) \/ NetworkAccepts(S)
    PROVE  IInv'
  <1>t. TypeOK /\ TimedBuffer /\ InOnePlace /\ ResolvedLanded
    BY DEF IInv
  <1>s. S \in SUBSET Jobs /\ \A j \in S : promise[j] = "waiting"
    BY <1>t DEF TypeOK, InOnePlace
  <1>b. /\ UNCHANGED <<buf, timer>>
        /\ TimedBuffer' /\ Buffered' = Buffered
    BY <1>t DEF FlushEnds, FlushOk, FlushFailsSingle, FlushFailsBatch, NetworkAccepts,
                TimedBuffer, Buffered
  <1>1. ASSUME NEW outcome \in {"resolved", "rejected"}, SettleAll(S, outcome),
               flights' = flights \ {S}
        PROVE  /\ promise' \in [Jobs -> {"none", "waiting", "resolved", "rejected"}]
               /\ InOnePlace'
    <2>1. promise' \in [Jobs -> {"none", "waiting", "resolved", "rejected"}]
      BY <1>1, <1>t DEF SettleAll, TypeOK
    <2>2. {j \in Jobs : promise'[j] = "waiting"} = {j \in Jobs : promise[j] = "waiting"} \ S
      BY <1>1, <1>s DEF SettleAll
    <2>3. UNION flights' = (UNION flights) \ S
      BY <1>1, <1>t DEF InOnePlace
    <2>4. S \cap Buffered = {}
      BY <1>t DEF InOnePlace
    <2>5. Buffered' \cup UNION flights' = {j \in Jobs : promise'[j] = "waiting"}
      BY <1>b, <1>t, <2>2, <2>3, <2>4 DEF InOnePlace
    <2>6. \A U \in flights' : U \in flights
      BY <1>1
    <2> QED BY <1>b, <1>t, <2>1, <2>5, <2>6 DEF InOnePlace
  <1>2. CASE FlushOk(S)
    <2>1. InOnePlace' /\ promise' \in [Jobs -> {"none", "waiting", "resolved", "rejected"}]
      BY <1>1, <1>2 DEF FlushOk
    <2>2. TypeOK'
      BY <1>2, <1>t, <1>s, <2>1 DEF FlushOk, TypeOK
    <2>3. ResolvedLanded'
      BY <1>2, <1>t DEF FlushOk, Answered, SettleAll, ResolvedLanded
    <2> QED BY <1>b, <2>1, <2>2, <2>3 DEF IInv
  <1>3. CASE FlushFailsSingle(S)
    <2>1. InOnePlace' /\ promise' \in [Jobs -> {"none", "waiting", "resolved", "rejected"}]
      BY <1>1, <1>3 DEF FlushFailsSingle
    <2>2. TypeOK'
      BY <1>3, <1>t, <2>1 DEF FlushFailsSingle, TypeOK
    <2>3. ResolvedLanded'
      BY <1>3, <1>t DEF FlushFailsSingle, SettleAll, ResolvedLanded
    <2> QED BY <1>b, <2>1, <2>2, <2>3 DEF IInv
  <1>4. CASE FlushFailsBatch(S)
    <2>1. flights' = (flights \ {S}) \cup {{j} : j \in S}
      BY <1>4 DEF FlushFailsBatch, Bisected
    <2>2. UNION flights' = UNION flights
      <3>1. \A j : j \in UNION flights' <=> j \in UNION (flights \ {S}) \/ j \in S
        BY <2>1, Zenon
      <3>2. \A j : j \in UNION flights <=> j \in UNION (flights \ {S}) \/ j \in S
        BY Zenon
      <3> QED BY <3>1, <3>2, Zenon
    <2>3. \A U \in flights' : U # {} /\ U \cap Buffered = {}
      BY <2>1, <1>t DEF InOnePlace
    <2>4. \A U, W \in flights' : U # W => U \cap W = {}
      <3>1. \A U \in flights \ {S} : \A j \in S : j \notin U
        BY <1>t DEF InOnePlace
      <3>2. \A U, W \in flights : U # W => U \cap W = {}
        BY <1>t DEF InOnePlace
      <3> SUFFICES ASSUME NEW U \in flights', NEW W \in flights', U # W
                   PROVE  U \cap W = {}
        OBVIOUS
      <3>3. U \in flights \ {S} \/ \E j \in S : U = {j}
        BY <2>1
      <3>4. W \in flights \ {S} \/ \E j \in S : W = {j}
        BY <2>1
      <3>5. CASE U \in flights \ {S} /\ W \in flights \ {S}
        BY <3>2, <3>5
      <3>6. CASE U \in flights \ {S} /\ \E j \in S : W = {j}
        BY <3>1, <3>6
      <3>7. CASE W \in flights \ {S} /\ \E j \in S : U = {j}
        BY <3>1, <3>7
      <3>8. CASE (\E j \in S : U = {j}) /\ (\E j \in S : W = {j})
        BY <3>8
      <3> QED BY <3>3, <3>4, <3>5, <3>6, <3>7, <3>8
    <2>5. InOnePlace'
      BY <1>4, <1>b, <1>t, <2>2, <2>3, <2>4 DEF FlushFailsBatch, InOnePlace
    <2>6. TypeOK' /\ ResolvedLanded'
      BY <1>4, <1>t, <1>s, <2>1 DEF FlushFailsBatch, TypeOK, ResolvedLanded
    <2> QED BY <1>b, <2>5, <2>6 DEF IInv
  <1>5. CASE NetworkAccepts(S)
    <2>1. TypeOK' /\ ResolvedLanded'
      BY <1>5, <1>t, <1>s DEF NetworkAccepts, TypeOK, ResolvedLanded
    <2>2. InOnePlace'
      BY <1>5, <1>b, <1>t DEF NetworkAccepts, InOnePlace
    <2> QED BY <1>b, <2>1, <2>2 DEF IInv
  <1> QED BY <1>2, <1>3, <1>4, <1>5 DEF FlushEnds

\* Every step preserves the invariant.
LEMMA NextIInv == IInv /\ [Next]_vars => IInv'
  <1> SUFFICES ASSUME IInv, [Next]_vars PROVE IInv'
    OBVIOUS
  <1>1. CASE UNCHANGED vars
    BY <1>1 DEF IInv, TypeOK, TimedBuffer, InOnePlace, ResolvedLanded, Buffered, vars
  <1>2. CASE Next
    BY <1>2, SubmitPreserves, WindowPreserves, FlightPreserves DEF Next
  <1> QED BY <1>1, <1>2

\* Every reachable state satisfies the inductive invariant.
THEOREM Inductive == Spec => []IInv
  BY InitIInv, NextIInv, PTL DEF Spec

\* No job is lost or duplicated between the buffer and the flushes.
THEOREM JobsConserved == Spec => []InOnePlace
  <1>1. IInv => InOnePlace
    BY DEF IInv
  <1> QED BY <1>1, Inductive, PTL

\* A resolved job holds the id of an accepted transaction that carries it.
THEOREM ResolvedJobsLanded == Spec => []ResolvedLanded
  <1>1. IInv => ResolvedLanded
    BY DEF IInv
  <1> QED BY <1>1, Inductive, PTL

\* Each step of the batcher settles a whole flush, rejects one job, or settles none.
LEMMA BatcherStep == IInv /\ [Next]_vars => [Abstract!PromiseNext]_promise
  <1> USE DEF Abstract!PromiseNext, Abstract!Call, Abstract!Resolve, Abstract!Reject, Abstract!Settle,
              Abstract!Waiting
  <1> SUFFICES ASSUME IInv, Next PROVE [Abstract!PromiseNext]_promise
    BY DEF vars
  <1>1. ASSUME NEW j \in Jobs, Submit(j) PROVE Abstract!PromiseNext
    BY <1>1 DEF Submit
  <1>2. CASE WindowElapses
    BY <1>2 DEF WindowElapses
  <1>3. ASSUME NEW S \in flights, FlushEnds(S) \/ NetworkAccepts(S)
        PROVE  [Abstract!PromiseNext]_promise
    <2>1. S \in SUBSET Jobs /\ S # {} /\ S \subseteq {j \in Jobs : promise[j] = "waiting"}
      BY <1>3 DEF IInv, TypeOK, InOnePlace
    <2>2. CASE FlushOk(S)
      BY <2>1, <2>2 DEF FlushOk, SettleAll
    <2>3. CASE FlushFailsSingle(S)
      <3>1. PICK j \in S : S = {j}
        BY <2>3 DEF FlushFailsSingle, Single
      <3> QED BY <2>1, <2>3, <3>1 DEF FlushFailsSingle, SettleAll
    <2> QED BY <1>3, <2>2, <2>3 DEF FlushEnds, FlushFailsBatch, NetworkAccepts
  <1> QED BY <1>1, <1>2, <1>3 DEF Next

\* The batcher implements the promise contract: each promise settles at most
\* once, members of a flush resolve together and a rejection is of one job.
THEOREM ImplementsPromise == Spec => Abstract!PromiseSafety
  <1>1. Init => Abstract!PromiseInit
    BY DEF Init, Abstract!PromiseInit
  <1> QED BY <1>1, BatcherStep, Inductive, PTL DEF Spec, Abstract!PromiseSafety
-----------------------------------------------------------------------------
(* The relay jobs.                                                         *)

Phases == {"absent", "submitting", "submitted"} \cup FailedPhases

\* The batcher has refused the job, or never saw it.
Refused(j) == j \in relayed /\ promise[j] \in {"none", "rejected"}

\* A phase says no more than the promise does.
Honest(j, phase) ==
    /\ phase = "submitted" => promise[j] = "resolved"
    /\ phase \in FailedPhases => Refused(j)

LastSent(j) == sent[j][Len(sent[j])]
Ended(j) ==
    \/ LastSent(j) = "unknown"
    \/ LastSent(j) \in FailedPhases /\ Refused(j)
    \/ LastSent(j) = "final" /\ j \in final

JobsType ==
    /\ final \subseteq Jobs /\ job \in [Jobs -> Phases] /\ copy \in [Jobs -> Phases]
    /\ stream \in [Jobs -> {"closed", "orphan", "writing", "subscribed", "chain", "done"}]
    /\ sent \in [Jobs -> Seq(Phases \cup {"unknown", "final"})]

\* The phase that a stream has read may be older than the job's, and the job may
\* be gone: what the phase says must not become false later.
StreamInv ==
    /\ JobsType
    /\ \A j \in final : promise[j] = "resolved"
    /\ \A j \in Jobs :
          /\ promise[j] # "none" => j \in relayed
          /\ job[j] = "submitting" => j \in relayed
          /\ Honest(j, job[j])
          /\ stream[j] = "writing" => Honest(j, copy[j])
          /\ stream[j] = "chain" => promise[j] = "resolved"
          /\ stream[j] = "done" => Ended(j)

ServiceInv == IInv /\ StreamInv

\* A settled promise stays settled, and a job that has been relayed is not called
\* again: neither answer is ever taken back.
LEMMA AnswersStay ==
    ASSUME IInv, [ServiceNext]_serviceVars
    PROVE  /\ relayed \subseteq relayed'
           /\ \A j \in Jobs : /\ promise[j] = "resolved" => promise'[j] = "resolved"
                              /\ Refused(j) => Refused(j)'
                              /\ promise'[j] # "none" => promise[j] # "none" \/ j \in relayed'
  <1>1. promise = [j \in Jobs |-> promise[j]] /\ \A S \in flights : S \subseteq Jobs /\ \A j \in S : promise[j] = "waiting"
    BY DEF IInv, TypeOK, InOnePlace
  <1>2. CASE promise' = promise /\ relayed' = relayed
    BY <1>2 DEF Refused
  <1>3. ASSUME NEW j \in Jobs, relayProvenTx(j)
        PROVE  /\ relayed \subseteq relayed'
               /\ \A k \in Jobs : /\ promise[k] = "resolved" => promise'[k] = "resolved"
                                  /\ Refused(k) => Refused(k)'
                                  /\ promise'[k] # "none" => promise[k] # "none" \/ k \in relayed'
    <2>1. j \notin relayed /\ relayed' = relayed \cup {j}
      BY <1>3 DEF relayProvenTx, Relay
    <2>2. promise' = promise \/ (promise[j] = "none" /\ promise' = [promise EXCEPT ![j] = "waiting"])
      BY <1>3 DEF relayProvenTx, Relay, Call
    <2> QED BY <1>1, <2>1, <2>2 DEF Refused
  <1>4. ASSUME NEW S \in flights, Flush(S)
        PROVE  /\ relayed \subseteq relayed'
               /\ \A j \in Jobs : /\ promise[j] = "resolved" => promise'[j] = "resolved"
                                  /\ Refused(j) => Refused(j)'
                                  /\ promise'[j] # "none" => promise[j] # "none" \/ j \in relayed'
    <2>1. relayed' = relayed
      BY <1>4 DEF Flush, jobsOnly
    <2>2. promise' = promise \/ \A j \in Jobs : j \notin S => promise'[j] = promise[j]
      BY <1>4 DEF Flush, FlushEnds, FlushOk, FlushFailsSingle, FlushFailsBatch, SettleAll
    <2> QED BY <1>1, <2>1, <2>2 DEF Refused
  <1>5. CASE ProcessRestarts
    <2>1. relayed' = relayed /\ \A j \in Jobs : promise[j] # "waiting" => promise'[j] = promise[j]
      BY <1>5 DEF ProcessRestarts, Restart, Forget, Waiting
    <2> QED BY <2>1 DEF Refused
  <1>6. ASSUME NEW j \in Jobs, OfJob(j) PROVE promise' = promise /\ relayed' = relayed
    BY <1>6 DEF OfJob, JobStep, Continue, ExpireJob, Finalize, Open, OpenDegraded, SnapshotWritten, ChainStatus, Abort
  <1>7. ASSUME Window \/ (\E S \in flights : Accepts(S)) \/ UNCHANGED serviceVars
        PROVE  promise' = promise /\ relayed' = relayed
    BY <1>7 DEF Window, WindowElapses, Accepts, NetworkAccepts, jobsOnly, serviceVars
  <1> QED BY <1>2, <1>3, <1>4, <1>5, <1>6, <1>7 DEF ServiceNext

\* Every step of the service is a step of the batcher, or a restart that empties it.
LEMMA BatcherKept ==
    ASSUME IInv, [ServiceNext]_serviceVars
    PROVE  IInv'
  <1>1. CASE [Next]_vars
    BY <1>1, NextIInv
  <1>2. CASE ProcessRestarts
    <2>1. /\ buf' = <<>> /\ timer' = FALSE /\ flights' = {} /\ txId' = txId
          /\ promise' = [j \in Jobs |-> IF promise[j] = "waiting" THEN "none" ELSE promise[j]]
      BY <1>2 DEF ProcessRestarts, Restart, Forget, Waiting
    <2>2. PICK handed \in SUBSET {S \in flights : S \cap Poison = {}} : accepted' = accepted \cup handed
      BY <1>2 DEF ProcessRestarts
    <2>3. Range(buf') = {} /\ Len(buf') = 0 /\ buf' \in Seq(Jobs)
      BY <2>1 DEF Range
    <2>4. TypeOK'
      <3>1. Len(buf') < MaxBatch
        BY <2>3, BatchAssumption
      <3>2. flights' \subseteq SUBSET Jobs /\ accepted' \subseteq SUBSET Jobs
        BY <2>1, <2>2 DEF IInv, TypeOK
      <3>3. promise' \in [Jobs -> {"none", "waiting", "resolved", "rejected"}]
        BY <2>1 DEF IInv, TypeOK
      <3> QED BY <2>1, <2>3, <3>1, <3>2, <3>3 DEF IInv, TypeOK
    <2>5. InOnePlace'
      BY <2>1, <2>3 DEF InOnePlace, Buffered
    <2>6. TimedBuffer'
      BY <2>1 DEF TimedBuffer
    <2>7. ResolvedLanded'
      BY <2>1, <2>2 DEF IInv, ResolvedLanded
    <2> QED BY <2>4, <2>5, <2>6, <2>7 DEF IInv
  <1>3. ASSUME NEW j \in Jobs, relayProvenTx(j) PROVE [Next]_vars
    <2>1. CASE j \in BadHex
      BY <1>3, <2>1 DEF relayProvenTx, Relay, batcherOnly, vars
    <2>2. CASE j \notin BadHex
      BY <1>3, <2>2 DEF relayProvenTx, Next
    <2> QED BY <2>1, <2>2
  <1>4. ASSUME NEW j \in Jobs, OfJob(j) PROVE UNCHANGED vars
    BY <1>4 DEF OfJob, JobStep, Continue, ExpireJob, Finalize, Open, OpenDegraded, SnapshotWritten, ChainStatus, Abort,
                batcherOnly, vars
  <1>5. CASE Window \/ (\E S \in flights : Flush(S) \/ Accepts(S))
    BY <1>1, <1>5 DEF Window, Flush, Accepts, Next
  <1>6. CASE UNCHANGED serviceVars
    BY <1>1, <1>6 DEF serviceVars, batcherOnly, vars
  <1> QED BY <1>1, <1>2, <1>3, <1>4, <1>5, <1>6 DEF ServiceNext

\* What is written last to a stream.
LEMMA LastWritten ==
    ASSUME JobsType, NEW j \in Jobs, NEW s \in Phases \cup {"unknown", "final"},
           sent' = [sent EXCEPT ![j] = Append(@, s)] \/ sent' = [sent EXCEPT ![j] = <<s>>]
    PROVE  /\ sent' \in [Jobs -> Seq(Phases \cup {"unknown", "final"})]
           /\ LastSent(j)' = s /\ \A k \in Jobs : k # j => sent'[k] = sent[k]
  <1> DEFINE T == Phases \cup {"unknown", "final"}
             q == Append(sent[j], s)
  <1>1. sent \in [Jobs -> Seq(T)] /\ sent[j] \in Seq(T)
    BY DEF JobsType
  <1> HIDE DEF T
  <1>2. q \in Seq(T) /\ q[Len(q)] = s /\ <<s>> \in Seq(T) /\ <<s>>[Len(<<s>>)] = s
    BY <1>1 DEF T
  <1> HIDE DEF q
  <1>3. CASE sent' = [sent EXCEPT ![j] = q]
    <2>1. sent' \in [Jobs -> Seq(T)] /\ sent'[j] = q /\ \A k \in Jobs : k # j => sent'[k] = sent[k]
      BY <1>1, <1>2, <1>3
    <2> QED BY <1>2, <2>1 DEF LastSent, T
  <1>4. CASE sent' = [sent EXCEPT ![j] = <<s>>]
    <2>1. sent' \in [Jobs -> Seq(T)] /\ sent'[j] = <<s>> /\ \A k \in Jobs : k # j => sent'[k] = sent[k]
      BY <1>1, <1>2, <1>4
    <2> QED BY <1>2, <2>1 DEF LastSent, T
  <1> QED BY <1>3, <1>4 DEF q

\* What StreamInv says of each job.
Truthful(j) ==
    /\ promise[j] # "none" => j \in relayed
    /\ job[j] = "submitting" => j \in relayed
    /\ Honest(j, job[j])
    /\ stream[j] = "writing" => Honest(j, copy[j])
    /\ stream[j] = "chain" => promise[j] = "resolved"
    /\ stream[j] = "done" => Ended(j)

LEMMA StillTruthful ==
    ASSUME ServiceInv, [ServiceNext]_serviceVars, final \subseteq final', NEW k \in Jobs,
           job'[k] = job[k] /\ stream'[k] = stream[k] /\ copy'[k] = copy[k] /\ sent'[k] = sent[k]
    PROVE  Truthful(k)'
  <1>1. /\ relayed \subseteq relayed' /\ (promise'[k] # "none" => promise[k] # "none" \/ k \in relayed')
        /\ promise[k] = "resolved" => promise'[k] = "resolved"
        /\ Refused(k) => Refused(k)'
    BY AnswersStay DEF ServiceInv
  <1>2. Truthful(k)
    BY DEF ServiceInv, StreamInv, Truthful
  <1>3. Honest(k, job[k])' /\ (stream'[k] = "writing" => Honest(k, copy[k])')
    BY <1>1, <1>2 DEF Truthful, Honest
  <1>4. LastSent(k)' = LastSent(k)
    BY DEF LastSent
  <1>5. stream'[k] = "done" => Ended(k)'
    BY <1>1, <1>2, <1>4 DEF Truthful, Ended
  <1> QED BY <1>1, <1>2, <1>3, <1>5 DEF Truthful

\* The registry's record of one job, or the handler of its stream, moves.
LEMMA OneMoves ==
    ASSUME ServiceInv, [ServiceNext]_serviceVars, NEW j \in Jobs, JobsType', final \subseteq final',
           \A k \in final' : promise'[k] = "resolved",
           \A k \in Jobs : k # j => job'[k] = job[k] /\ stream'[k] = stream[k] /\ copy'[k] = copy[k] /\ sent'[k] = sent[k],
           Truthful(j)'
    PROVE  StreamInv'
  <1>1. \A k \in Jobs : k # j => Truthful(k)'
    BY StillTruthful
  <1>2. \A k \in Jobs : Truthful(k)'
    BY <1>1
  <1> QED BY <1>2 DEF StreamInv, Truthful

LEMMA NoneMoves ==
    ASSUME ServiceInv, [ServiceNext]_serviceVars, UNCHANGED jobsOnly
    PROVE  StreamInv'
  <1>1. final' = final /\ job' = job /\ stream' = stream /\ copy' = copy /\ sent' = sent /\ relayed' = relayed
    BY DEF jobsOnly, sse
  <1>2. \A k \in Jobs : Truthful(k)'
    BY <1>1, StillTruthful
  <1>3. \A k \in final' : promise'[k] = "resolved"
    <2>1. \A k \in final : k \in Jobs /\ promise[k] = "resolved"
      BY DEF ServiceInv, StreamInv, JobsType
    <2> QED BY <1>1, <2>1, AnswersStay DEF ServiceInv
  <1> QED BY <1>1, <1>2, <1>3 DEF ServiceInv, StreamInv, JobsType, Truthful

LEMMA FinalStays ==
    ASSUME ServiceInv, [ServiceNext]_serviceVars, final' = final
    PROVE  final \subseteq final' /\ \A k \in final' : promise'[k] = "resolved"
  <1>1. \A k \in final : k \in Jobs /\ promise[k] = "resolved"
    BY DEF ServiceInv, StreamInv, JobsType
  <1> QED BY <1>1, AnswersStay DEF ServiceInv

LEMMA KnownPhases ==
    /\ "absent" \in Phases /\ "submitting" \in Phases /\ "submitted" \in Phases /\ FailedPhases \subseteq Phases
    /\ {"submitting", "submitted", "absent"} \cap FailedPhases = {} /\ "submit-failed" \in FailedPhases
  BY DEF Phases, FailedPhases

LEMMA RelayMoves ==
    ASSUME ServiceInv, NEW j \in Jobs, relayProvenTx(j), [ServiceNext]_serviceVars
    PROVE  StreamInv'
  <1>1. /\ relayed' = relayed \cup {j} /\ final' = final /\ stream' = stream /\ copy' = copy /\ sent' = sent
        /\ j \notin relayed
    BY DEF relayProvenTx, Relay, sse
  <1>2. JobsType
    BY DEF ServiceInv, StreamInv
  <1>3. final \subseteq final' /\ \A k \in final' : promise'[k] = "resolved"
    BY <1>1, FinalStays
  <1>4. /\ promise[j] = "resolved" => promise'[j] = "resolved"
        /\ Truthful(j) /\ promise \in [Jobs -> {"none", "waiting", "resolved", "rejected"}]
    BY AnswersStay DEF ServiceInv, StreamInv, Truthful, IInv, TypeOK
  <1>5. stream[j] = "done" => Ended(j)'
    BY <1>1, <1>3, <1>4 DEF Truthful, Ended, LastSent, Refused
  <1>6. stream[j] = "writing" => Honest(j, copy[j])'
    BY <1>1, <1>4 DEF Truthful, Honest, Refused
  <1>7. promise[j] = "none" /\ stream[j] # "chain"
    BY <1>1, <1>4 DEF Truthful
  <1>8. PICK p \in Phases :
              /\ job' = [job EXCEPT ![j] = p]
              /\ p = "submitting" \/ (p = "submit-failed" /\ promise'[j] = "none")
    BY <1>7, KnownPhases DEF relayProvenTx, Relay, HandedPhase
  <1>9. job' \in [Jobs -> Phases] /\ job'[j] = p /\ \A k \in Jobs : k # j => job'[k] = job[k]
    BY <1>2, <1>8 DEF JobsType
  <1>10. Honest(j, job[j])'
    BY <1>1, <1>8, <1>9, KnownPhases DEF Honest, Refused
  <1>11. Truthful(j)'
    BY <1>1, <1>5, <1>6, <1>7, <1>10 DEF Truthful
  <1>12. JobsType'
    BY <1>1, <1>2, <1>9 DEF JobsType
  <1> QED BY <1>1, <1>3, <1>9, <1>11, <1>12, OneMoves

LEMMA ContinueMoves ==
    ASSUME ServiceInv, [ServiceNext]_serviceVars, NEW j \in Jobs, Continue(j)
    PROVE  StreamInv'
  <1>1. JobsType /\ Truthful(j) /\ job[j] = "submitting"
    BY DEF ServiceInv, StreamInv, Truthful, Continue
  <1>2. /\ promise' = promise /\ relayed' = relayed /\ final' = final /\ copy' = copy
    BY DEF Continue
  <1>3. PICK p \in {"submitted"} \cup FailedPhases :
              /\ job' = [job EXCEPT ![j] = p] /\ Publish(j, p)
              /\ p = "submitted" => promise[j] = "resolved"
              /\ p \in FailedPhases => promise[j] = "rejected"
    BY KnownPhases DEF Continue
  <1>4. p \in Phases /\ p # "submitting"
    BY KnownPhases
  <1>5. job' \in [Jobs -> Phases] /\ job'[j] = p /\ \A k \in Jobs : k # j => job'[k] = job[k]
    BY <1>1, <1>3, <1>4 DEF JobsType
  <1>6. Honest(j, job[j])'
    BY <1>1, <1>2, <1>3, <1>5 DEF Honest, Refused, Truthful
  <1>7. final \subseteq final' /\ \A k \in final' : promise'[k] = "resolved"
    BY <1>2, FinalStays
  <1>8. CASE stream[j] = "subscribed"
    <2>1. /\ sent' = [sent EXCEPT ![j] = Append(@, p)]
          /\ stream' = [stream EXCEPT ![j] = IF p \in FailedPhases THEN "done" ELSE "chain"]
      BY <1>3, <1>8 DEF Publish
    <2>2. /\ sent' \in [Jobs -> Seq(Phases \cup {"unknown", "final"})]
          /\ LastSent(j)' = p /\ \A k \in Jobs : k # j => sent'[k] = sent[k]
      BY <1>1, <1>4, <2>1, LastWritten
    <2>3. /\ stream' \in [Jobs -> {"closed", "orphan", "writing", "subscribed", "chain", "done"}]
          /\ stream'[j] = IF p \in FailedPhases THEN "done" ELSE "chain"
          /\ \A k \in Jobs : k # j => stream'[k] = stream[k]
      BY <1>1, <2>1 DEF JobsType
    <2>4. JobsType'
      BY <1>1, <1>2, <1>5, <2>2, <2>3 DEF JobsType
    <2>5. stream'[j] = "done" => Ended(j)'
      BY <1>1, <1>2, <1>3, <2>2, <2>3 DEF Ended, Refused, Truthful
    <2>6. Truthful(j)'
      BY <1>1, <1>2, <1>3, <1>4, <1>5, <1>6, <2>3, <2>5 DEF Truthful
    <2> QED BY <1>2, <1>5, <1>7, <2>2, <2>3, <2>4, <2>6, OneMoves
  <1>9. CASE stream[j] # "subscribed"
    <2>1. stream' = stream /\ sent' = sent
      BY <1>3, <1>9 DEF Publish
    <2>2. JobsType'
      BY <1>1, <1>2, <1>5, <2>1 DEF JobsType
    <2>3. stream[j] = "done" => Ended(j)'
      BY <1>1, <1>2, <2>1 DEF Truthful, Ended, LastSent, Refused
    <2>4. stream[j] = "writing" => Honest(j, copy[j])'
      BY <1>1, <1>2 DEF Truthful, Honest, Refused
    <2>5. Truthful(j)'
      BY <1>1, <1>2, <1>4, <1>5, <1>6, <2>1, <2>3, <2>4 DEF Truthful
    <2> QED BY <1>2, <1>5, <1>7, <2>1, <2>2, <2>5, OneMoves
  <1> QED BY <1>8, <1>9

\* The record is dropped, or the chain finalizes the transaction.
LEMMA RecordMoves ==
    ASSUME ServiceInv, [ServiceNext]_serviceVars, NEW j \in Jobs, ExpireJob(j) \/ Finalize(j)
    PROVE  StreamInv'
  <1>1. JobsType /\ Truthful(j) /\ \A k \in final : promise[k] = "resolved"
    BY DEF ServiceInv, StreamInv, Truthful
  <1>2. promise' = promise /\ relayed' = relayed /\ stream' = stream /\ copy' = copy /\ sent' = sent
    BY DEF ExpireJob, Finalize, sse
  <1>3. final \subseteq final' /\ final' \subseteq Jobs /\ \A k \in final' : promise'[k] = "resolved"
    BY <1>1, <1>2 DEF ExpireJob, Finalize, JobsType
  <1>4. /\ job' \in [Jobs -> Phases] /\ (job'[j] = job[j] \/ job'[j] = "absent")
        /\ \A k \in Jobs : k # j => job'[k] = job[k]
    BY <1>1, KnownPhases DEF ExpireJob, Finalize, JobsType
  <1>5. JobsType'
    BY <1>1, <1>2, <1>3, <1>4 DEF JobsType
  <1>6. Honest(j, job[j])' /\ (stream[j] = "writing" => Honest(j, copy[j])')
    BY <1>1, <1>2, <1>4, KnownPhases DEF Truthful, Honest, Refused
  <1>7. stream[j] = "done" => Ended(j)'
    BY <1>1, <1>2, <1>3 DEF Truthful, Ended, LastSent, Refused
  <1>8. Truthful(j)'
    BY <1>1, <1>2, <1>4, <1>6, <1>7 DEF Truthful
  <1> QED BY <1>2, <1>3, <1>4, <1>5, <1>8, OneMoves

\* The handler's own steps, which leave the record alone.
LEMMA HandlerMoves ==
    ASSUME ServiceInv, [ServiceNext]_serviceVars, NEW j \in Jobs,
           Open(j) \/ OpenDegraded(j) \/ SnapshotWritten(j) \/ ChainStatus(j) \/ Abort(j)
    PROVE  StreamInv'
  <1> DEFINE Places == {"closed", "orphan", "writing", "subscribed", "chain", "done"}
             Said == Phases \cup {"unknown", "final"}
  <1>1. JobsType /\ Truthful(j)
    BY DEF ServiceInv, StreamInv, Truthful
  <1>2. promise' = promise /\ relayed' = relayed /\ job' = job /\ final' = final
    BY DEF Open, OpenDegraded, SnapshotWritten, ChainStatus, Abort
  <1>3. final \subseteq final' /\ \A k \in final' : promise'[k] = "resolved"
    BY <1>2, FinalStays
  <1>4. Honest(j, job[j])' /\ (promise'[j] # "none" => j \in relayed') /\ (job'[j] = "submitting" => j \in relayed')
    BY <1>1, <1>2 DEF Truthful, Honest, Refused
  \* It is enough to say what becomes of this stream.
  <1>5. SUFFICES ASSUME ServiceInv
                 PROVE  \E c \in Phases, p \in Places :
                           /\ copy' = [copy EXCEPT ![j] = c] /\ stream' = [stream EXCEPT ![j] = p]
                           /\ sent' \in [Jobs -> Seq(Said)] /\ \A k \in Jobs : k # j => sent'[k] = sent[k]
                           /\ p = "writing" => c = job[j]
                           /\ p = "chain" => promise[j] = "resolved"
                           /\ p = "done" => Ended(j)'
    <2>1. PICK c \in Phases, p \in Places :
                 /\ copy' = [copy EXCEPT ![j] = c] /\ stream' = [stream EXCEPT ![j] = p]
                 /\ sent' \in [Jobs -> Seq(Said)] /\ \A k \in Jobs : k # j => sent'[k] = sent[k]
                 /\ p = "writing" => c = job[j]
                 /\ p = "chain" => promise[j] = "resolved"
                 /\ p = "done" => Ended(j)'
      BY <1>5
    <2>2. /\ copy' \in [Jobs -> Phases] /\ copy'[j] = c /\ \A k \in Jobs : k # j => copy'[k] = copy[k]
      BY <1>1, <2>1 DEF JobsType
    <2>3. /\ stream' \in [Jobs -> Places] /\ stream'[j] = p /\ \A k \in Jobs : k # j => stream'[k] = stream[k]
      BY <1>1, <2>1 DEF JobsType
    <2>4. JobsType'
      BY <1>1, <1>2, <2>1, <2>2, <2>3 DEF JobsType
    <2>5. p = "writing" => Honest(j, copy[j])'
      BY <1>2, <1>4, <2>1, <2>2 DEF Honest
    <2>6. Truthful(j)'
      BY <1>2, <1>4, <2>1, <2>3, <2>5 DEF Truthful
    <2> QED BY <1>2, <1>3, <2>1, <2>2, <2>3, <2>4, <2>6, OneMoves
  <1>6. copy[j] \in Phases /\ job[j] \in Phases /\ copy = [copy EXCEPT ![j] = copy[j]]
        /\ sent \in [Jobs -> Seq(Said)] /\ sent = [k \in Jobs |-> sent[k]]
    BY <1>1 DEF JobsType
  <1>7. CASE Open(j)
    BY <1>6, <1>7 DEF Open
  <1>8. CASE OpenDegraded(j)
    <2>1. sent' = [sent EXCEPT ![j] = <<"unknown">>] /\ stream' = [stream EXCEPT ![j] = "done"] /\ copy' = copy
      BY <1>8 DEF OpenDegraded
    <2>2. sent' \in [Jobs -> Seq(Said)] /\ LastSent(j)' = "unknown" /\ \A k \in Jobs : k # j => sent'[k] = sent[k]
      BY <1>1, <2>1, LastWritten
    <2>3. Ended(j)'
      BY <2>2 DEF Ended
    <2> QED BY <1>6, <2>1, <2>2, <2>3
  <1>9. CASE SnapshotWritten(j)
    <2> DEFINE p == IF copy[j] \in FailedPhases THEN "done" ELSE IF copy[j] = "submitted" THEN "chain" ELSE "subscribed"
    <2>1. /\ sent' = [sent EXCEPT ![j] = Append(@, copy[j])] /\ stream' = [stream EXCEPT ![j] = p] /\ copy' = copy
          /\ stream[j] = "writing"
      BY <1>9 DEF SnapshotWritten
    <2>2. sent' \in [Jobs -> Seq(Said)] /\ LastSent(j)' = copy[j] /\ \A k \in Jobs : k # j => sent'[k] = sent[k]
      BY <1>1, <1>6, <2>1, LastWritten
    <2>3. Honest(j, copy[j])
      BY <1>1, <2>1 DEF Truthful
    <2>4. p = "done" => Ended(j)'
      BY <1>2, <2>2, <2>3 DEF Ended, Honest, Refused
    <2>5. p \in Places /\ p # "writing" /\ (p = "chain" => promise[j] = "resolved")
      BY <2>3 DEF Honest
    <2> HIDE DEF p
    <2> QED BY <1>6, <2>1, <2>2, <2>4, <2>5
  <1>10. CASE ChainStatus(j)
    <2>1. /\ sent' = [sent EXCEPT ![j] = Append(@, "final")] /\ stream' = [stream EXCEPT ![j] = "done"] /\ copy' = copy
          /\ j \in final
      BY <1>10 DEF ChainStatus, IsFinal
    <2>2. sent' \in [Jobs -> Seq(Said)] /\ LastSent(j)' = "final" /\ \A k \in Jobs : k # j => sent'[k] = sent[k]
      BY <1>1, <2>1, LastWritten
    <2>3. Ended(j)'
      BY <1>2, <2>1, <2>2 DEF Ended
    <2> QED BY <1>6, <2>1, <2>2, <2>3
  <1>11. CASE Abort(j)
    <2>1. /\ sent' = [sent EXCEPT ![j] = <<>>] /\ stream' = [stream EXCEPT ![j] = "closed"]
          /\ copy' = [copy EXCEPT ![j] = "absent"]
      BY <1>11 DEF Abort
    <2>2. sent' \in [Jobs -> Seq(Said)] /\ \A k \in Jobs : k # j => sent'[k] = sent[k]
      BY <1>6, <2>1
    <2> QED BY <2>1, <2>2, KnownPhases
  <1> QED BY <1>7, <1>8, <1>9, <1>10, <1>11

LEMMA RestartMoves ==
    ASSUME ServiceInv, [ServiceNext]_serviceVars, ProcessRestarts
    PROVE  StreamInv'
  <1>1. /\ job' = [j \in Jobs |-> "absent"] /\ stream' = [j \in Jobs |-> "closed"]
        /\ copy' = [j \in Jobs |-> "absent"] /\ sent' = [j \in Jobs |-> <<>>]
        /\ relayed' = relayed /\ final' = final
    BY DEF ProcessRestarts, Restart
  <1>2. \A k \in final' : promise'[k] = "resolved"
    BY <1>1, FinalStays
  <1>3. \A j \in Jobs : promise'[j] # "none" => j \in relayed'
    BY <1>1, AnswersStay DEF ServiceInv, StreamInv
  <1>4. JobsType'
    BY <1>1, KnownPhases DEF ServiceInv, StreamInv, JobsType
  <1>5. \A j \in Jobs : Honest(j, job[j])'
    BY <1>1, KnownPhases DEF Honest
  <1> QED BY <1>1, <1>2, <1>3, <1>4, <1>5 DEF StreamInv

LEMMA ServiceStep == ServiceInv /\ [ServiceNext]_serviceVars => ServiceInv'
  <1> SUFFICES ASSUME ServiceInv, [ServiceNext]_serviceVars PROVE StreamInv'
    BY BatcherKept DEF ServiceInv
  <1>1. ASSUME NEW j \in Jobs, OfJob(j) PROVE StreamInv'
    BY <1>1, ContinueMoves, RecordMoves, HandlerMoves DEF OfJob, JobStep
  <1>2. CASE Window \/ (\E S \in flights : Flush(S) \/ Accepts(S)) \/ UNCHANGED serviceVars
    BY <1>2, NoneMoves DEF Window, Flush, Accepts, serviceVars
  <1> QED BY <1>1, <1>2, RelayMoves, RestartMoves DEF ServiceNext

\* A stream that has ended told the holder the outcome, whatever the batcher, the
\* expiry of the record, aborts and restarts did between the copy and the write.
THEOREM StreamsEndTruthfully == ServiceSpec => []EndedTruthfully
  <1>1. ServiceInit => ServiceInv
    <2> SUFFICES ASSUME ServiceInit PROVE ServiceInv
      OBVIOUS
    <2>1. IInv
      BY InitIInv DEF ServiceInit
    <2>2. JobsType
      BY KnownPhases DEF ServiceInit, JobsInit, JobsType
    <2>3. \A j \in Jobs : Honest(j, job[j])
      BY KnownPhases DEF ServiceInit, JobsInit, Honest
    <2> QED BY <2>1, <2>2, <2>3 DEF ServiceInit, JobsInit, PromiseInit, ServiceInv, StreamInv
  <1>2. ServiceInv => EndedTruthfully
    BY DEF ServiceInv, StreamInv, EndedTruthfully, Ended, LastSent, Refused
  <1> QED BY <1>1, <1>2, ServiceStep, PTL DEF ServiceSpec

\* In the running sidecar, restarts included, no job is lost or duplicated between
\* the buffer and the flushes.
THEOREM JobsConservedInService == ServiceSpec => []InOnePlace
  <1>1. ServiceInit => IInv
    BY InitIInv DEF ServiceInit
  <1>2. IInv /\ [ServiceNext]_serviceVars => IInv'
    BY BatcherKept
  <1>3. IInv => InOnePlace
    BY DEF IInv
  <1> QED BY <1>1, <1>2, <1>3, PTL DEF ServiceSpec

\* The service as a whole implements the promise contract: the job table calls
\* once per job, only the batcher settles, and a restart forgets the calls that
\* wait and no answer.
THEOREM ServiceKeepsPromise == ServiceSpec => Abstract!PromiseSafety
  <1>1. ServiceInit => IInv /\ Abstract!PromiseInit
    BY InitIInv DEF ServiceInit, Init, Abstract!PromiseInit
  <1>2. IInv /\ [ServiceNext]_serviceVars => IInv'
    BY BatcherKept
  <1>3. IInv /\ [ServiceNext]_serviceVars => [Abstract!PromiseNext]_promise
    <2> SUFFICES ASSUME IInv, [ServiceNext]_serviceVars PROVE [Abstract!PromiseNext]_promise
      OBVIOUS
    <2>1. ASSUME NEW j \in Jobs, relayProvenTx(j) PROVE [Abstract!PromiseNext]_promise
      BY <2>1 DEF relayProvenTx, Relay, Call, Abstract!PromiseNext, Abstract!Call
    <2>2. ASSUME NEW j \in Jobs, OfJob(j) PROVE UNCHANGED promise
      BY <2>2 DEF OfJob, JobStep, Continue, ExpireJob, Finalize, Open, OpenDegraded, SnapshotWritten,
                  ChainStatus, Abort
    <2>3. CASE Window \/ \E S \in flights : Flush(S) \/ Accepts(S)
      <3>1. Next
        BY <2>3 DEF Window, Flush, Accepts, Next
      <3> QED BY <3>1, BatcherStep
    <2>4. CASE ProcessRestarts
      BY <2>4 DEF ProcessRestarts, Restart, Forget, Waiting, Abstract!PromiseNext, Abstract!Forget,
                  Abstract!Waiting
    <2> QED BY <2>1, <2>2, <2>3, <2>4 DEF ServiceNext, serviceVars
  <1> QED BY <1>1, <1>2, <1>3, PTL DEF ServiceSpec, Abstract!PromiseSafety
-----------------------------------------------------------------------------
(* The client.                                                             *)

\* Contract i is behind the current object's connect: joined, or a predicate
\* contract that failed to join.
Behind(i) == JoinOrder[i] \in Predicates \/ JoinOrder[i] \in object[client].subs

WholeInv ==
    client # 0 =>
      /\ \A i \in 1..object[client].next - 1 : Behind(i)
      /\ object[client].connected => object[client].next = Len(JoinOrder) + 1

\* A failed connect drops the client.
LEMMA DroppedIsWhole == ASSUME NEW b \in BOOLEAN, ConnectFails(b) PROVE WholeInv'
  BY DEF ConnectFails, Dropped, WholeInv

\* Every step of the life cycle keeps the types.
LEMMA ClientTypes == ClientTypeOK /\ [ClientNext]_clientVars => ClientTypeOK'
<1> SUFFICES ASSUME ClientTypeOK, [ClientNext]_clientVars PROVE ClientTypeOK'
  OBVIOUS
<1> USE DEF ClientTypeOK
<1>a. Len(JoinOrder) \in Nat /\ MaxFaults \in Nat /\ DelayMax \in Nat /\ DelayMax >= 1
  BY ClientAssumption
<1>e. Fault => faults' \in 0..MaxFaults
  BY <1>a DEF Fault
<1>o. ASSUME NEW o \in Objects, Joining(o)
      PROVE /\ object[o].next + 1 \in 1..Len(JoinOrder) + 1
            /\ NextJoin(o) \in Deployed
  BY <1>a, <1>o, ClientAssumption DEF Joining, NextJoin, ObjectState, Deployed
<1>f. Fresh \in ObjectState
  BY <1>a DEF Fresh, ObjectState
<1>d. ASSUME NEW b \in BOOLEAN, ConnectFails(b)
      PROVE object' \in [Objects -> ObjectState] /\ client' = 0 /\ loop' = "waiting"
  <2>1. client \in Objects => Disconnected(client) \in ObjectState
    BY DEF Disconnected, ObjectState
  <2> QED
    BY <2>1, <1>d, <1>f DEF ConnectFails, Dropped
<1>1. CASE UNCHANGED clientVars
  BY <1>1 DEF clientVars
<1>2. CASE BuildClient
  BY <1>2 DEF BuildClient, Unused
<1>3. CASE assertContractsOnChain
  <2>1. CASE object' = [object EXCEPT ![client].running = TRUE] /\ client' = client /\ loop' = "connecting" /\ faults' = faults
    <3>1. object' \in [Objects -> ObjectState]
      BY <2>1 DEF ObjectState
    <3> QED
      BY <1>3, <2>1, <3>1 DEF assertContractsOnChain
  <2>2. CASE ConnectFails(FALSE) /\ faults' \in 0..MaxFaults
    BY <1>3, <2>2, <1>d DEF assertContractsOnChain
  <2> QED
    BY <1>3, <1>e, <2>1, <2>2 DEF assertContractsOnChain
<1>4. CASE Backoff
  BY <1>4, <1>a DEF Backoff, NextLoop
<1>5. CASE withTimeout
  BY <1>5, <1>d, <1>e DEF withTimeout
<1>6. CASE Shutdown
  <2>1. delay' \in 1..DelayMax /\ faults' \in 0..MaxFaults
    BY <1>6, <1>a, <1>e DEF Shutdown
  <2>2. object' \in [Objects -> ObjectState]
    BY <1>6, <1>f DEF Shutdown
  <2> QED
    BY <1>6, <2>1, <2>2, Zenon DEF Shutdown
<1>7. ASSUME NEW o \in Objects, joinContract(o) PROVE ClientTypeOK'
  <2>1. [object[o] EXCEPT !.subs = @ \cup {NextJoin(o)}, !.next = @ + 1] \in ObjectState
    BY <1>7, <1>o DEF joinContract, ObjectState
  <2> QED
    BY <1>7, <2>1 DEF joinContract
<1>8. ASSUME NEW o \in Objects, JoinThrows(o) PROVE ClientTypeOK'
  <2>1. [object[o] EXCEPT !.next = @ + 1] \in ObjectState
    BY <1>8, <1>o DEF JoinThrows, ObjectState
  <2>2. [object[o] EXCEPT !.running = FALSE] \in ObjectState
    BY DEF ObjectState
  <2> QED
    BY <1>8, <2>1, <2>2, <1>d, <1>e DEF JoinThrows
<1>9. ASSUME NEW o \in Objects, Connected(o) PROVE ClientTypeOK'
  BY <1>9 DEF Connected, ObjectState
<1>10. CASE ChainReset
  BY <1>10 DEF ChainReset
<1>11. CASE IndexerFinds
  BY <1>11 DEF IndexerFinds, Deployed
<1> QED
  BY <1>1, <1>2, <1>3, <1>4, <1>5, <1>6, <1>7, <1>8, <1>9, <1>10, <1>11 DEF ClientNext, ConnectStep

\* A new client is a fresh object; a join adds to it, in order; whatever happens
\* to other objects does not concern it.
LEMMA WholeKept == ClientTypeOK /\ WholeInv /\ [ClientNext]_clientVars => WholeInv'
<1> SUFFICES ASSUME ClientTypeOK, WholeInv, [ClientNext]_clientVars PROVE WholeInv'
  OBVIOUS
<1> USE ClientAssumption DEF ClientTypeOK, ObjectState
<1>a. Len(JoinOrder) \in Nat
  OBVIOUS
<1>1. CASE UNCHANGED clientVars
  BY <1>1 DEF clientVars, WholeInv, Behind
<1>2. CASE BuildClient
  <2>1. CASE Served
    BY <1>2, <2>1 DEF BuildClient, WholeInv, Behind
  <2>2. CASE ~Served
    <3>1. client' \in Unused /\ object' = object
      BY <1>2, <2>2 DEF BuildClient
    <3>2. object'[client'].next = 1 /\ ~object'[client'].connected
      BY <3>1 DEF Unused, Fresh
    <3> QED
      BY <3>2 DEF WholeInv
  <2> QED
    BY <2>1, <2>2
<1>3. CASE assertContractsOnChain
  <2>1. CASE object' = [object EXCEPT ![client].running = TRUE] /\ client' = client
    BY <2>1 DEF WholeInv, Behind
  <2> QED
    BY <1>3, <2>1, DroppedIsWhole DEF assertContractsOnChain
<1>4. CASE Backoff
  BY <1>4 DEF Backoff, WholeInv, Behind
<1>5. CASE withTimeout
  BY <1>5, DroppedIsWhole DEF withTimeout
<1>6. CASE Shutdown
  BY <1>6 DEF Shutdown, WholeInv
<1>7. ASSUME NEW o \in Objects, joinContract(o) PROVE WholeInv'
  <2>1. CASE o = client
    <3>1. client' = client
      BY <1>7 DEF joinContract
    <3>2. /\ object'[client].next = object[client].next + 1
          /\ object'[client].subs = object[client].subs \cup {JoinOrder[object[client].next]}
          /\ object'[client].connected = object[client].connected
          /\ object[client].next <= Len(JoinOrder)
          /\ object[client].next \in 1..Len(JoinOrder) + 1
      BY <1>7, <2>1, <1>a DEF joinContract, Joining, NextJoin
    <3> QED
      BY <3>1, <3>2, <1>a DEF WholeInv, Behind
  <2>2. CASE o # client
    BY <1>7, <2>2 DEF joinContract, WholeInv, Behind
  <2> QED
    BY <2>1, <2>2
<1>8. ASSUME NEW o \in Objects, JoinThrows(o) PROVE WholeInv'
  <2>1. CASE NextJoin(o) \in Predicates
    <3>1. client' = client /\ object' = [object EXCEPT ![o].next = @ + 1] /\ Joining(o)
      BY <1>8, <2>1 DEF JoinThrows
    <3>2. CASE o = client
      <4>1. /\ object'[client].next = object[client].next + 1
            /\ object'[client].subs = object[client].subs
            /\ object'[client].connected = object[client].connected
            /\ object[client].next <= Len(JoinOrder)
            /\ object[client].next \in 1..Len(JoinOrder) + 1
            /\ JoinOrder[object[client].next] \in Predicates
        BY <2>1, <3>1, <3>2, <1>a DEF Joining, NextJoin
      <4> QED
        BY <3>1, <4>1, <1>a DEF WholeInv, Behind
    <3>3. CASE o # client
      BY <3>1, <3>3 DEF WholeInv, Behind
    <3> QED
      BY <3>2, <3>3
  <2>2. CASE NextJoin(o) \notin Predicates /\ Awaited(o)
    BY <1>8, <2>2, DroppedIsWhole DEF JoinThrows
  <2>3. CASE NextJoin(o) \notin Predicates /\ ~Awaited(o)
    <3>1. client' = client /\ object' = [object EXCEPT ![o].running = FALSE]
      BY <1>8, <2>3 DEF JoinThrows
    <3> QED
      BY <3>1 DEF WholeInv, Behind
  <2> QED
    BY <2>1, <2>2, <2>3
<1>9. ASSUME NEW o \in Objects, Connected(o) PROVE WholeInv'
  <2>1. client' = client /\ object[o].next = Len(JoinOrder) + 1
    BY <1>9 DEF Connected
  <2>2. object' = [object EXCEPT ![o].running = FALSE, ![o].connected = TRUE]
    BY <1>9 DEF Connected
  <2>3. CASE o = client
    BY <2>1, <2>2, <2>3 DEF WholeInv, Behind
  <2>4. CASE o # client
    BY <2>1, <2>2, <2>4 DEF WholeInv, Behind
  <2> QED
    BY <2>3, <2>4
<1>10. CASE ChainReset
  BY <1>10 DEF ChainReset, WholeInv, Behind
<1>11. CASE IndexerFinds
  BY <1>11 DEF IndexerFinds, WholeInv, Behind
<1> QED
  BY <1>1, <1>2, <1>3, <1>4, <1>5, <1>6, <1>7, <1>8, <1>9, <1>10, <1>11 DEF ClientNext, ConnectStep

\* A client that getClient hands out has all its registries joined and still
\* subscribed: no timeout, orphaned connect, failed join or restart can make it
\* serve a half-built one.
THEOREM ServesWhole == ClientSpec => []ServedIsWhole
<1>1. ClientInit => ClientTypeOK /\ WholeInv
  <2>1. Len(JoinOrder) \in Nat /\ MaxFaults \in Nat /\ DelayMax \in Nat /\ DelayMax >= 1
    BY ClientAssumption
  <2>2. Fresh \in ObjectState
    BY <2>1 DEF Fresh, ObjectState
  <2> SUFFICES ASSUME ClientInit PROVE ClientTypeOK /\ WholeInv
    OBVIOUS
  <2>3. delay \in 1..DelayMax /\ faults \in 0..MaxFaults
    BY <2>1 DEF ClientInit
  <2>4. object \in [Objects -> ObjectState]
    BY <2>2 DEF ClientInit
  <2>5. WholeInv
    BY DEF ClientInit, WholeInv
  <2> QED
    BY <2>3, <2>4, <2>5, Zenon DEF ClientInit, ClientTypeOK
<1>2. ClientTypeOK /\ WholeInv /\ [ClientNext]_clientVars => (ClientTypeOK /\ WholeInv)'
  BY ClientTypes, WholeKept
<1>3. ClientTypeOK /\ WholeInv => ServedIsWhole
  <2> SUFFICES ASSUME ClientTypeOK, WholeInv, Served, NEW c \in Deployed \ Predicates
               PROVE c \in object[client].subs
    BY DEF ServedIsWhole
  <2>1. PICK i \in DOMAIN JoinOrder : JoinOrder[i] = c
    BY DEF Deployed, Range
  <2>2. i \in 1..object[client].next - 1
    BY <2>1, ClientAssumption DEF Served, WholeInv, ClientTypeOK, ObjectState
  <2> QED
    BY <2>1, <2>2 DEF Served, WholeInv, Behind
<1> QED
  BY <1>1, <1>2, <1>3, PTL DEF ClientSpec
================================================================================
