------------------------------ MODULE RelayJobs -------------------------------
(***************************************************************************)
(* The relay job registry and the job's SSE stream.                        *)
(*   midnight.ts: relayProvenTx, runRelayJob, getRelayJob, awaitChainStatus *)
(*   routes/predicates.ts: POST /:kind/relay, GET /job/:jobId/events       *)
(*                                                                         *)
(* The batcher is seen through its promises (RelayPromise); RelayService   *)
(* composes the two.  runRelayJob runs synchronously up to its first       *)
(* await, so a job is never seen in phase "queued".  A stream reads a COPY *)
(* of the job, awaits one write, and only then subscribes to the event bus.*)
(***************************************************************************)
EXTENDS RelayPromise, Integers, Sequences

CONSTANTS
    BadHex,       \* jobs whose transaction does not deserialize
    MaxRestarts,  \* bound: restarts of the sidecar
    MaxAborts     \* bound: streams that are cut and reopened

ASSUME BadHexAssumption == BadHex \subseteq Jobs
ASSUME BoundsAssumption == MaxRestarts \in Nat /\ MaxAborts \in Nat

VARIABLES
    relayed,   \* job ids a holder has been given
    job,       \* relayJobs: the phase of each job, "absent" when not in the map
    final,     \* jobs whose chain transaction is finalized
    stream,    \* where the SSE handler of each job is
    copy,      \* the phase it read from getRelayJob
    sent,      \* the statuses written to the stream
    restarts,
    aborts

sse == <<stream, copy, sent>>
bounds == <<restarts, aborts>>

FailedPhases == {"balance-failed", "submit-failed"}   \* TERMINAL_JOB

JobsInit ==
    /\ PromiseInit
    /\ relayed = {}
    /\ job = [j \in Jobs |-> "absent"]
    /\ final = {}
    /\ stream = [j \in Jobs |-> "closed"]
    /\ copy = [j \in Jobs |-> "absent"]
    /\ sent = [j \in Jobs |-> <<>>]
    /\ restarts = 0 /\ aborts = 0

(***************************************************************************)
(* The relay job                                                           *)
(***************************************************************************)
HandedPhase == "submitting"

\* relayProvenTx starts runRelayJob, which fails at once on bad hex and
\* otherwise hands the transaction to the batcher.
Relay(j) ==
    /\ j \notin relayed
    /\ relayed' = relayed \cup {j}
    /\ IF j \in BadHex
         THEN job' = [job EXCEPT ![j] = "submit-failed"] /\ UNCHANGED promise
         ELSE job' = [job EXCEPT ![j] = HandedPhase] /\ Call(j)
    /\ UNCHANGED <<final, sse, bounds>>

MutPublish(j, phase) ==  \* mutant: only the success wakes the handler
    IF stream[j] = "subscribed"
      THEN /\ sent' = [sent EXCEPT ![j] = Append(@, phase)]
           /\ stream' = [stream EXCEPT ![j] =
                           IF phase \in FailedPhases THEN "subscribed" ELSE "chain"]
      ELSE UNCHANGED <<sent, stream>>
\* eventBus.emit calls the subscribed handler synchronously.
Publish(j, phase) ==
    IF stream[j] = "subscribed"
      THEN /\ sent' = [sent EXCEPT ![j] = Append(@, phase)]
           /\ stream' = [stream EXCEPT ![j] =
                           IF phase \in FailedPhases THEN "done" ELSE "chain"]
      ELSE UNCHANGED <<sent, stream>>

\* The continuation of runRelayJob once its promise has settled.
Continue(j) ==
    /\ job[j] = "submitting"
    /\ \E phase \in IF promise[j] = "resolved" THEN {"submitted"}
                    ELSE IF promise[j] = "rejected" THEN FailedPhases ELSE {} :
         job' = [job EXCEPT ![j] = phase] /\ Publish(j, phase)
    /\ UNCHANGED <<promise, relayed, final, copy, bounds>>

\* RELAY_JOB_TTL_MS after the job has ended its record is dropped.
ExpireJob(j) ==
    /\ job[j] \in {"submitted"} \cup FailedPhases
    /\ job' = [job EXCEPT ![j] = "absent"]
    /\ UNCHANGED <<promise, relayed, final, sse, bounds>>

(***************************************************************************)
(* The job's SSE stream                                                    *)
(***************************************************************************)
Open(j) ==
    /\ j \in relayed /\ stream[j] = "closed"
    /\ copy' = [copy EXCEPT ![j] = job[j]]
    /\ stream' = [stream EXCEPT ![j] = IF job[j] = "absent" THEN "orphan" ELSE "writing"]
    /\ UNCHANGED <<promise, relayed, job, final, sent, bounds>>

\* getClient() throws while the sidecar resyncs: one terminal "unknown".
OpenDegraded(j) ==
    /\ j \in relayed /\ stream[j] = "closed"
    /\ sent' = [sent EXCEPT ![j] = <<"unknown">>]
    /\ stream' = [stream EXCEPT ![j] = "done"]
    /\ UNCHANGED <<promise, relayed, job, final, copy, bounds>>

\* The awaited write of the snapshot returns; what follows acts on the copy.
SnapshotWritten(j) ==
    /\ stream[j] = "writing"
    /\ sent' = [sent EXCEPT ![j] = Append(@, copy[j])]
    /\ stream' = [stream EXCEPT ![j] =
                    IF copy[j] \in FailedPhases THEN "done"
                    ELSE IF copy[j] = "submitted" THEN "chain" ELSE "subscribed"]
    /\ UNCHANGED <<promise, relayed, job, final, copy, bounds>>

MutIsFinal(j) == TRUE  \* mutant: the first emission is taken for finality
IsFinal(j) == j \in final

\* awaitChainStatus resolves with the finalized status.
ChainStatus(j) ==
    /\ stream[j] = "chain" /\ IsFinal(j)
    /\ sent' = [sent EXCEPT ![j] = Append(@, "final")]
    /\ stream' = [stream EXCEPT ![j] = "done"]
    /\ UNCHANGED <<promise, relayed, job, final, copy, bounds>>

\* An orphan waits for the job id as if it were a chain id; a job id is random
\* and never one, so only an abort ends it.  Request caps and clients cut
\* streams; the client reconnects.
Abort(j) ==
    /\ stream[j] \notin {"closed", "done"} /\ aborts < MaxAborts
    /\ aborts' = aborts + 1
    /\ stream' = [stream EXCEPT ![j] = "closed"]
    /\ sent' = [sent EXCEPT ![j] = <<>>]
    /\ copy' = [copy EXCEPT ![j] = "absent"]
    /\ UNCHANGED <<promise, relayed, job, final, restarts>>

\* External: the chain finalizes the transaction that carries the job.
Finalize(j) ==
    /\ promise[j] = "resolved" /\ j \notin final
    /\ final' = final \cup {j}
    /\ UNCHANGED <<promise, relayed, job, sse, bounds>>

\* relayJobs, the promises and the streams are in memory.
Restart ==
    /\ restarts < MaxRestarts
    /\ restarts' = restarts + 1
    /\ Forget
    /\ job' = [j \in Jobs |-> "absent"]
    /\ stream' = [j \in Jobs |-> "closed"]
    /\ copy' = [j \in Jobs |-> "absent"]
    /\ sent' = [j \in Jobs |-> <<>>]
    /\ UNCHANGED <<relayed, final, aborts>>

\* The steps the registry takes on its own; Relay and Restart involve the batcher.
JobStep(j) ==
    \/ Continue(j) \/ ExpireJob(j) \/ Finalize(j)
    \/ Open(j) \/ OpenDegraded(j) \/ SnapshotWritten(j) \/ ChainStatus(j) \/ Abort(j)

(***************************************************************************)
(* Properties                                                              *)
(***************************************************************************)
\* A stream that has ended told the holder the real outcome: a failed phase only
\* of a job that did not resolve, a chain status only of a finalized one.
EndedTruthfully ==
    \A j \in Jobs : stream[j] = "done" =>
        LET last == sent[j][Len(sent[j])] IN
        \/ last = "unknown"
        \/ last \in FailedPhases /\ promise[j] # "resolved"
        \/ last = "final" /\ j \in final /\ promise[j] = "resolved"

\* A stream that subscribes while its job is still unsettled is woken.
WokenIfInTime ==
    \A j \in Jobs : stream[j] = "subscribed" /\ job[j] = "submitting"
                      ~> stream[j] # "subscribed"
===============================================================================
