----------------------------- MODULE RelayService -----------------------------
(***************************************************************************)
(* The relay path of the sidecar: RelayJobs hands every transaction it     *)
(* deserializes to RelayBatcher, and goes on when the batcher settles the  *)
(* promise.  They run in one process: a restart takes both down.           *)
(***************************************************************************)
EXTENDS RelayBatcher, RelayJobs

batcherOnly == <<buf, timer, flights, txId, accepted>>
jobsOnly == <<relayed, job, final, sse, bounds>>
serviceVars == <<promise, batcherOnly, jobsOnly>>

ServiceInit == Init /\ JobsInit

\* runRelayJob runs up to batcher.submit before the POST answers.
relayProvenTx(j) ==
    /\ Relay(j)
    /\ IF j \in BadHex THEN UNCHANGED batcherOnly ELSE Submit(j)

Window == WindowElapses /\ UNCHANGED jobsOnly
Flush(S) == FlushEnds(S) /\ UNCHANGED jobsOnly
Accepts(S) == NetworkAccepts(S) /\ UNCHANGED jobsOnly
OfJob(j) == JobStep(j) /\ UNCHANGED batcherOnly

\* What has been handed to the network before the restart may still be accepted.
ProcessRestarts ==
    /\ Restart
    /\ buf' = <<>> /\ timer' = FALSE /\ flights' = {}
    /\ \E handed \in SUBSET {S \in flights : S \cap Poison = {}} : accepted' = accepted \cup handed
    /\ UNCHANGED txId

ServiceNext ==
    \/ \E j \in Jobs : relayProvenTx(j) \/ OfJob(j)
    \/ Window
    \/ \E S \in flights : Flush(S) \/ Accepts(S)
    \/ ProcessRestarts

ServiceSpec == ServiceInit /\ [][ServiceNext]_serviceVars

\* Timers and promise callbacks run, the submit behind a flush settles, and a
\* write to an open stream returns.
ServiceFair ==
    /\ WF_serviceVars(Window)
    /\ \A S \in SUBSET Jobs : WF_serviceVars(Flush(S))
    /\ \A j \in Jobs : WF_serviceVars(Continue(j) /\ UNCHANGED batcherOnly)
                         /\ WF_serviceVars(SnapshotWritten(j) /\ UNCHANGED batcherOnly)
===============================================================================
