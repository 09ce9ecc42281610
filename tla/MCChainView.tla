------------------------------ MODULE MCChainView -----------------------------
(***************************************************************************)
(* TLC instance of the revocation feed with either of its consumers, which *)
(* `part' names: FeedReader, which keeps what it is told, or               *)
(* RevocationMirror, with its database, cache and API requests.  The       *)
(* mirror has one credential, in both spellings, and a sidecar that does   *)
(* not restart: its own requests, errors and restarts are the question.    *)
(***************************************************************************)
EXTENDS FeedReader, RevocationMirror, TLC

CONSTANTS
    Credential,      \* the mirror's one key
    MirrorVersions,  \* bound: ledger versions under the mirror
    Polled           \* does the mirror's sidecar poll, or only subscribe?

VARIABLE part

MCInit == ReaderInit /\ Init /\ part \in {"reader", "mirror"}

MirrorBounds ==
    /\ Len(chain') <= MirrorVersions /\ restarts' = 0 /\ (Polled \/ poll' = 0)
    /\ \A k \in Keys \ {Credential} : chain'[Len(chain')][k] = "NONE"
    /\ \A w \in Writers : job'[w] = Idle \/ job'[w].id[1] = Credential

MCNext ==
    /\ UNCHANGED part
    /\ \/ part = "reader" /\ ReaderNext /\ UNCHANGED mirror
       \/ part = "mirror" /\ Next /\ UNCHANGED picture /\ MirrorBounds

MCSpec == MCInit /\ [][MCNext]_<<vars, picture, part>>

InMirror == part = "mirror"
MCFairSpec ==
    /\ MCSpec /\ FeedFairness
    /\ WF_readerVars(~InMirror /\ Consume)
    /\ WF_vars(InMirror /\ TakeFrame)
    /\ SF_vars(InMirror /\ DbWrite("sse")) /\ WF_vars(InMirror /\ CacheWrite("sse"))
    /\ \A w \in Clients : /\ WF_vars(InMirror /\ ChainCallFails(w))
                          /\ WF_vars(InMirror /\ DbWrite(w)) /\ WF_vars(InMirror /\ CacheWrite(w))

-----------------------------------------------------------------------------
\* NoGapNoLoss of the reader: what the sidecar published has reached a consumer
\* that has read all it was written, unless the ledger moved between the
\* snapshot and the subscription of its connection.  This is what emit and the
\* unawaited sends do; the comment at events.ts:7-8 promises less (best effort,
\* slow consumers lose events).
ReaderMissesNothing == ~InMirror => NoGapNoLoss

\* ReplayHealsMirror of the mirror: the replay repairs its hex rows and cache.
MirrorHeals == InMirror => ReplayHealsMirror

\* API requests are interchangeable.
Symmetry == Permutations(Clients)
===============================================================================
