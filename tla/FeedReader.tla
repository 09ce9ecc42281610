------------------------------ MODULE FeedReader ------------------------------
(***************************************************************************)
(* LedgerFeed with a consumer that keeps the last status it was told of    *)
(* each key (the consume loop of sidecar_events.rs, its store abstracted), *)
(* and a chain that anyone with the owner's key may move.                  *)
(***************************************************************************)
EXTENDS LedgerFeed

VARIABLE picture   \* the consumer's store, kept across connections

readerVars == <<feedVars, picture>>

ReaderInit == FeedInit /\ picture = Empty

\* One frame: parse it and apply it.
Consume ==
    /\ wire # <<>>
    /\ picture' = [picture EXCEPT ![Head(wire).key] = Head(wire).status]
    /\ wire' = Tail(wire)
    /\ UNCHANGED <<chain, sidecar, conn, snap, gap>>

ReaderNext ==
    \/ Consume
    \/ FeedNext /\ UNCHANGED picture
    \/ \E k \in Keys, s \in Statuses : ChainMoves(k, s) /\ UNCHANGED <<sidecar, stream, picture>>

ReaderSpec == ReaderInit /\ [][ReaderNext]_readerVars
-----------------------------------------------------------------------------

\* The consumer holds, for every entry of the sidecar's ledger, its status.
Agrees(v) == \A k \in Keys : LedgerAt(v)[k] # "NONE" => picture[k] = LedgerAt(v)[k]

\* A consumer that has read everything written to it agrees with the sidecar's
\* ledger, through late polls, regressions and vanished entries, unless the
\* ledger moved between the snapshot and the subscription of this connection.
\* A slow consumer is no exception: events.ts:7-8 says that it loses events, but
\* emit calls every listener, and what a listener writes queues up in memory
\* until it is read.
NoGapNoLoss == conn = "tail" /\ wire = <<>> /\ ~gap => Agrees(view)

\* Whatever the subscription does, silent death included, the poller brings the
\* sidecar's ledger to the chain's last version and keeps it there.
ViewCatchesUp == <>[](view = Latest)
===============================================================================
