---------------------------- MODULE SidecarClient -----------------------------
(***************************************************************************)
(* The sidecar's chain client: who builds it, drops it and serves it.      *)
(*   index.ts: superviseClient, /health, the signal handlers               *)
(*   client.ts: initClient, connectOnce, withTimeout, getClient            *)
(*   midnight.ts: connect, joinContract, disconnect                        *)
(*                                                                         *)
(* withTimeout races connect with a timer and cancels nothing: a connect   *)
(* that lost goes on joining contracts on a client object that nobody      *)
(* refers to any more.  Each attempt therefore has an object of its own,   *)
(* and objects outlive their attempt.                                      *)
(***************************************************************************)
EXTENDS Integers, Sequences, Functions

CONSTANTS
    JoinOrder,    \* the configured contracts, in the order connect joins them
    Predicates,   \* those whose failure to join is only logged
    DelayMax,     \* RECONNECT_MAX_MS, in units of RECONNECT_MIN_MS
    MaxFaults     \* bound: timeouts, transient failures and restarts

ASSUME ClientAssumption ==
    /\ JoinOrder \in Seq(Range(JoinOrder)) /\ Predicates \subseteq Range(JoinOrder)
    /\ DelayMax \in Nat \ {0} /\ MaxFaults \in Nat

VARIABLES
    onChain,     \* the contracts the indexer finds
    supervised,  \* supervisor # null
    client,      \* the object the module variable refers to, 0 for null
    object,      \* the MidnightClient objects
    loop,        \* where superviseClient is
    delay,       \* its back-off
    faults

clientVars == <<onChain, supervised, client, object, loop, delay, faults>>

Objects == 1..MaxFaults + 1
Fresh == [running |-> FALSE, next |-> 1, subs |-> {}, connected |-> FALSE]
Unused == {o \in Objects : object[o] = Fresh}
Deployed == Range(JoinOrder)
AllOnChain == Deployed \subseteq onChain

ObjectState == [running : BOOLEAN, next : 1..Len(JoinOrder) + 1, subs : SUBSET Deployed, connected : BOOLEAN]
ClientTypeOK ==
    /\ onChain \subseteq Deployed
    /\ supervised \in BOOLEAN
    /\ client \in {0} \cup Objects
    /\ object \in [Objects -> ObjectState]
    /\ loop \in {"starting", "checking", "connecting", "waiting", "connected", "ended"}
    /\ delay \in 1..DelayMax /\ faults \in 0..MaxFaults

ClientInit ==
    /\ onChain \in {{}, Deployed}
    /\ supervised = FALSE /\ client = 0
    /\ object = [o \in Objects |-> Fresh]
    /\ loop = "starting" /\ delay = 1 /\ faults = 0

Fault == faults < MaxFaults /\ faults' = faults + 1

\* getClient returns instead of throwing; /health then answers 200.
Served == client # 0 /\ object[client].connected

(***************************************************************************)
(* superviseClient and initClient                                          *)
(***************************************************************************)
\* disconnect(): every joined contract is unsubscribed.
Disconnected(o) == [object[o] EXCEPT !.subs = {}, !.connected = FALSE]

MutDropped == client  \* mutant: the half-built client is kept
Dropped == 0

\* The catch of initClient, then that of superviseClient.  An object whose
\* connect does not run is garbage once it is dropped.
ConnectFails(running) ==
    /\ object' = [object EXCEPT ![client] =
                    IF running THEN Disconnected(client) ELSE Fresh]
    /\ client' = Dropped
    /\ loop' = "waiting"

\* A client that is connected is kept.  The supervisor is made once and kept; if
\* that fails the attempt goes on with stubs for balanceTx and submitTx.
BuildClient ==
    /\ loop = "starting"
    /\ IF Served
         THEN loop' = "connected" /\ UNCHANGED <<supervised, client>>
         ELSE /\ supervised' \in (IF supervised THEN {TRUE} ELSE BOOLEAN)
              /\ Unused # {} /\ client' = CHOOSE o \in Unused : TRUE
              /\ loop' = "checking"
    /\ UNCHANGED <<onChain, object, delay, faults>>

assertContractsOnChain ==
    /\ loop = "checking"
    /\ \/ /\ AllOnChain
          /\ object' = [object EXCEPT ![client].running = TRUE]
          /\ loop' = "connecting" /\ UNCHANGED <<client, faults>>
       \/ ~AllOnChain /\ ConnectFails(FALSE) /\ UNCHANGED faults
       \/ AllOnChain /\ Fault /\ ConnectFails(FALSE)
    /\ UNCHANGED <<onChain, supervised, delay>>

MutNextLoop == "ended"  \* mutant: one failed connect is the last
NextLoop == "starting"

Backoff ==
    /\ loop = "waiting"
    /\ loop' = NextLoop
    /\ delay' = IF 2 * delay < DelayMax THEN 2 * delay ELSE DelayMax
    /\ UNCHANGED <<onChain, supervised, client, object, faults>>

withTimeout ==
    /\ loop = "connecting" /\ Fault
    /\ ConnectFails(TRUE)
    /\ UNCHANGED <<onChain, supervised, delay>>

\* SIGINT and SIGTERM: disconnectClient, exit; the next process starts anew.
Shutdown ==
    /\ Fault
    /\ supervised' = FALSE /\ client' = 0
    /\ object' = [o \in Objects |-> Fresh]
    /\ loop' = "starting" /\ delay' = 1
    /\ UNCHANGED onChain

(***************************************************************************)
(* connect, of the current object or of an abandoned one                   *)
(***************************************************************************)
Joining(o) == object[o].running /\ object[o].next <= Len(JoinOrder)
NextJoin(o) == JoinOrder[object[o].next]
Awaited(o) == loop = "connecting" /\ client = o

\* joinContract waits for as long as the address holds no contract.
joinContract(o) ==
    /\ Joining(o) /\ NextJoin(o) \in onChain
    /\ object' = [object EXCEPT ![o].subs = @ \cup {NextJoin(o)}, ![o].next = @ + 1]
    /\ UNCHANGED <<onChain, supervised, client, loop, delay, faults>>

JoinThrows(o) ==
    /\ Joining(o) /\ Fault
    /\ IF NextJoin(o) \in Predicates
         THEN object' = [object EXCEPT ![o].next = @ + 1] /\ UNCHANGED <<client, loop>>
         ELSE IF Awaited(o) THEN ConnectFails(FALSE)
         ELSE object' = [object EXCEPT ![o].running = FALSE] /\ UNCHANGED <<client, loop>>
    /\ UNCHANGED <<onChain, supervised, delay>>

Connected(o) ==
    /\ object[o].running /\ object[o].next = Len(JoinOrder) + 1
    /\ object' = [object EXCEPT ![o].running = FALSE, ![o].connected = TRUE]
    /\ loop' = IF Awaited(o) THEN "connected" ELSE loop
    /\ UNCHANGED <<onChain, supervised, client, delay, faults>>

(***************************************************************************)
(* The chain: a testnet reset, an indexer that catches up                  *)
(***************************************************************************)
ChainReset ==
    /\ onChain # {} /\ onChain' = {}
    /\ UNCHANGED <<supervised, client, object, loop, delay, faults>>

IndexerFinds ==
    /\ \E c \in Deployed \ onChain : onChain' = onChain \cup {c}
    /\ UNCHANGED <<supervised, client, object, loop, delay, faults>>

ConnectStep == \E o \in Objects : joinContract(o) \/ JoinThrows(o) \/ Connected(o)

ClientNext ==
    \/ BuildClient \/ assertContractsOnChain \/ Backoff \/ withTimeout
    \/ Shutdown \/ ConnectStep \/ ChainReset \/ IndexerFinds

ClientSpec == ClientInit /\ [][ClientNext]_clientVars

\* Timers fire, the indexer answers, and a join of a contract that is there ends.
ClientFair ==
    /\ WF_clientVars(BuildClient \/ assertContractsOnChain \/ Backoff)
    /\ \A o \in Objects : WF_clientVars(joinContract(o) \/ Connected(o))

(***************************************************************************)
(* Properties                                                              *)
(***************************************************************************)
\* Whoever getClient hands the client to reads live ledgers: all registries are
\* joined and still subscribed, although abandoned connects go on behind it.
ServedIsWhole == Served => Deployed \ Predicates \subseteq object[client].subs

\* "A single failed connect at boot left the process serving 500s forever": once
\* the chain has the contracts for good, the sidecar ends up serving for good.
ComesBack == <>[]AllOnChain => <>[]Served
===============================================================================
