------------------------------ MODULE LedgerFeed ------------------------------
(***************************************************************************)
(* How the revocation registry reaches a consumer: the sidecar's in-memory *)
(* ledger, fed by an indexer subscription and a 30 s poller that may       *)
(* answer late (joinContract in midnight.ts), the diffs it publishes, and  *)
(* the /events stream, a snapshot followed by a live tail (routes/         *)
(* events.ts).  A key stands for a credential's hash; a ledger version is  *)
(* its status map, "NONE" where it has no entry.                           *)
(***************************************************************************)
EXTENDS Integers, Sequences, FiniteSets, Functions

CONSTANTS
    Keys,
    MaxVersions,   \* bound: ledger versions of the chain
    MaxRestarts    \* bound: restarts of the sidecar

ASSUME FeedAssumption == IsFiniteSet(Keys) /\ MaxVersions \in Nat \ {0} /\ MaxRestarts \in Nat

Statuses == {"NONE", "ACTIVE", "REVOKED", "SUSPENDED"}
Empty == [k \in Keys |-> "NONE"]

VARIABLES
    chain,     \* the ledger versions the chain has had
    view,      \* currentLedger, as an index into chain; 0 is null
    poll,      \* version the poller's query will answer with; 0 none in flight
    sub,       \* last version delivered to the subscription; -1 not subscribed
    restarts,
    conn,      \* the consumer's /events connection
    snap,      \* snapshot events not yet written
    wire,      \* events written, not yet handled by the consumer
    gap        \* the ledger moved between the snapshot and the subscription

sidecar == <<view, poll, sub, restarts>>
stream == <<conn, snap, wire, gap>>
feedVars == <<chain, sidecar, stream>>

Latest == Len(chain)
LedgerAt(v) == IF v = 0 THEN Empty ELSE chain[v]

FeedInit ==
    /\ chain = <<Empty>>
    /\ view = 0 /\ poll = 0 /\ sub = -1 /\ restarts = 0
    /\ conn = "down" /\ snap = <<>> /\ wire = <<>> /\ gap = FALSE

\* The status changes the contract's circuits allow (RevocationRegistry).
MayBecome(old, new) ==
    \/ new = "REVOKED" /\ old # "REVOKED"
    \/ new = "SUSPENDED" /\ old \notin {"REVOKED", "SUSPENDED"}
    \/ new = "ACTIVE" /\ old = "SUSPENDED"

ChainMoves(k, status) ==
    /\ Latest < MaxVersions
    /\ MayBecome(chain[Latest][k], status)
    /\ chain' = Append(chain, [chain[Latest] EXCEPT ![k] = status])

\* One frame per event, in some order: the iteration order of the ledger's map.
Frames(events) == CHOOSE f \in Bijection(1..Cardinality(events), events) : TRUE

MutDiff(prev, next) ==  \* mutant: only the keys that are new are published
    {[key |-> k, status |-> next[k]] : k \in {x \in Keys : next[x] # "NONE" /\ prev[x] = "NONE"}}
Vanished(k) == [key |-> k, status |-> "ACTIVE"]
\* A changed entry is published with its status, a vanished one as ACTIVE.
Diff(prev, next) ==
    {[key |-> k, status |-> next[k]] : k \in {x \in Keys : next[x] # "NONE" /\ next[x] # prev[x]}}
    \cup
    {Vanished(k) : k \in {x \in Keys : next[x] = "NONE" /\ prev[x] # "NONE"}}

\* onChange(currentLedger, next); currentLedger = next.  emit calls every listener, and
\* the stream's buffer has no bound: nothing is dropped for a slow consumer.
Observe(v) ==
    LET events == Diff(LedgerAt(view), LedgerAt(v)) IN
    /\ view' = v
    /\ wire' = IF conn = "tail" THEN wire \o Frames(events) ELSE wire
    /\ gap' = (gap \/ (conn = "snapshot" /\ events # {}))
    /\ UNCHANGED <<conn, snap>>

\* A new subscription delivers the latest state first.
SubscribeFrom == Latest - 1

Join ==
    /\ view = 0
    /\ Observe(Latest)
    /\ sub' = SubscribeFrom
    /\ UNCHANGED <<chain, poll, restarts>>

Deliver ==
    /\ sub >= 0 /\ sub < Latest
    /\ Observe(sub + 1)
    /\ sub' = sub + 1
    /\ UNCHANGED <<chain, poll, restarts>>

\* The graphql-ws subscription stops: with an error or completion it reopens
\* after a second, silently it never does.
SubscriptionStops ==
    /\ sub >= 0
    /\ sub' = -1
    /\ UNCHANGED <<chain, view, poll, restarts, stream>>

Resubscribe ==
    /\ view # 0 /\ sub = -1
    /\ sub' = SubscribeFrom
    /\ UNCHANGED <<chain, view, poll, restarts, stream>>

PollQuery ==
    /\ view # 0 /\ poll = 0
    /\ poll' = Latest
    /\ UNCHANGED <<chain, view, sub, restarts, stream>>

MutPollResult(v) == view' = view /\ UNCHANGED stream  \* mutant: the poller's answer is dropped
PollResult(v) == Observe(v)

PollAnswer ==
    /\ poll # 0
    /\ PollResult(poll)
    /\ poll' = 0
    /\ UNCHANGED <<chain, sub, restarts>>

PollFails ==
    /\ poll # 0
    /\ poll' = 0
    /\ UNCHANGED <<chain, view, sub, restarts, stream>>

Snapshot(v) ==
    Frames({[key |-> k, status |-> chain[v][k]] : k \in {x \in Keys : chain[v][x] # "NONE"}})

\* GET /events reads the ledger once, when it reaches this topic, and awaits the
\* write of every frame of this topic and of the next (attestations).  Without
\* a ledger it writes an error frame, which the consumer ignores, and tails.
Connect ==
    /\ conn = "down"
    /\ IF view = 0
         THEN conn' = "tail" /\ snap' = <<>>
         ELSE conn' = "snapshot" /\ snap' = Snapshot(view)
    /\ wire' = <<>> /\ gap' = FALSE
    /\ UNCHANGED <<chain, sidecar>>

SendSnapshot ==
    /\ conn = "snapshot" /\ snap # <<>>
    /\ wire' = Append(wire, Head(snap))
    /\ snap' = Tail(snap)
    /\ UNCHANGED <<chain, sidecar, conn, gap>>

Subscribe ==
    /\ conn = "snapshot" /\ snap = <<>>
    /\ conn' = "tail"
    /\ UNCHANGED <<chain, sidecar, snap, wire, gap>>

HangUp == conn' = "down" /\ snap' = <<>> /\ wire' = <<>> /\ gap' = FALSE

Drop ==
    /\ conn # "down"
    /\ HangUp
    /\ UNCHANGED <<chain, sidecar>>

SidecarRestart ==
    /\ restarts < MaxRestarts
    /\ restarts' = restarts + 1
    /\ view' = 0 /\ poll' = 0 /\ sub' = -1
    /\ HangUp
    /\ UNCHANGED chain

FeedNext ==
    \/ Join \/ Deliver \/ SubscriptionStops \/ Resubscribe
    \/ PollQuery \/ PollAnswer \/ PollFails
    \/ Connect \/ SendSnapshot \/ Subscribe \/ Drop \/ SidecarRestart

\* Timers fire and connected peers answer: the client supervisor joins, the
\* interval polls and the indexer answers some polls, the consumer reconnects
\* after its delay, an open stream is written.  Resubscribe is not assumed.
FeedFairness ==
    /\ WF_feedVars(Join) /\ WF_feedVars(PollQuery) /\ SF_feedVars(PollAnswer)
    /\ WF_feedVars(Connect) /\ WF_feedVars(SendSnapshot) /\ WF_feedVars(Subscribe)

===============================================================================
