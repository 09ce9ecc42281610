----------------------------- MODULE RelayPromise -----------------------------
(***************************************************************************)
(* What the relay batcher promises runRelayJob: submit(tx) returns a       *)
(* promise that settles exactly once, unless the process restarts.         *)
(* Batches resolve together; a rejection is always of one job.             *)
(***************************************************************************)
CONSTANT Jobs

VARIABLE promise   \* per job: "none", "waiting", "resolved" or "rejected"

Waiting == {j \in Jobs : promise[j] = "waiting"}

Settle(S, outcome) == promise' = [j \in Jobs |-> IF j \in S THEN outcome ELSE promise[j]]

PromiseInit == promise = [j \in Jobs |-> "none"]

Call(j) == promise[j] = "none" /\ promise' = [promise EXCEPT ![j] = "waiting"]

Resolve(S) == S # {} /\ S \subseteq Waiting /\ Settle(S, "resolved")

Reject(j) == promise[j] = "waiting" /\ Settle({j}, "rejected")

\* A restart of the process forgets the calls that wait, never an answer.
Forget == promise' = [j \in Jobs |-> IF j \in Waiting THEN "none" ELSE promise[j]]

PromiseNext ==
    \/ \E j \in Jobs : Call(j) \/ Reject(j)
    \/ \E S \in SUBSET Jobs : Resolve(S)
    \/ Forget

PromiseSafety == PromiseInit /\ [][PromiseNext]_promise

\* Every call settles.
PromiseSpec ==
    /\ PromiseSafety
    /\ \A j \in Jobs : WF_promise(Reject(j) \/ \E S \in SUBSET Jobs : j \in S /\ Resolve(S))
===============================================================================
