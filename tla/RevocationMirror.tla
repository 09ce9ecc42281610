--------------------------- MODULE RevocationMirror ---------------------------
(***************************************************************************)
(* The verification service's copy of the revocation registry: the rows    *)
(* and the cache of RevocationRepository, written by the /events consumer  *)
(* and by API requests that call the chain first (sidecar_events.rs,       *)
(* db/repositories/revocations.rs, api.rs).                                *)
(*                                                                         *)
(* A credential id comes in two spellings of the same digest: the consumer *)
(* stores the hex one, /verify computes the base64url one, an API caller   *)
(* may send either, and the sidecar is always called with hex.  The issuer *)
(* column holds the issuer's public key, its hash (from an event) or "".   *)
(***************************************************************************)
EXTENDS LedgerFeed

CONSTANTS
    Clients,       \* concurrent API requests
    MaxRequests,   \* bound: API requests
    MaxCrashes     \* bound: restarts of the service

ASSUME ClientsAssumption == "sse" \notin Clients /\ MaxRequests \in Nat /\ MaxCrashes \in Nat

Ids == Keys \X {"hex", "b64"}
Ops == {"revoke", "suspend", "reactivate"}
Listed == {"revoked", "suspended"}
Absent == [status |-> "absent", issuer |-> ""]
Writers == Clients \cup {"sse"}
Idle == [at |-> "idle"]

VARIABLES
    rows,       \* table revocations
    cache,      \* RevocationCache
    job,        \* what each request, and the consumer, is in the middle of
    acked,      \* base64url ids an API call reported as listed, no
                \* reactivation overlapping or since, and no start-up without
                \* the database (history)
    requests, crashes

mirror == <<rows, cache, job, acked, requests, crashes>>
vars == <<feedVars, mirror>>

Init ==
    /\ FeedInit
    /\ rows = [id \in Ids |-> Absent]
    /\ cache = {} /\ acked = {}
    /\ job = [w \in Writers |-> Idle]
    /\ requests = 0 /\ crashes = 0

ChainListed(ledger, k) == ledger[k] \in {"REVOKED", "SUSPENDED"}
RowListed(id) == rows[id].status \in Listed
Work(at, op, id, issuer) == [at |-> at, op |-> op, id |-> id, issuer |-> issuer]

Begin(w, work) ==
    /\ job[w] = Idle
    /\ requests < MaxRequests
    /\ job' = [job EXCEPT ![w] = work]
    /\ requests' = requests + 1
    /\ acked' = IF work.op = "reactivate" THEN acked \ {work.id} ELSE acked
    /\ UNCHANGED <<feedVars, rows, cache, crashes>>

\* POST /revocations/revoke, /suspend and, with the base64url id, /revoke-own.
RequestListing(w, op, id) ==
    /\ op \in {"revoke", "suspend"}
    /\ Begin(w, Work("chain", op, id, "key"))

\* POST /revocations/reactivate takes the issuer from the row, and fails without one.
RequestReactivate(w, id) ==
    /\ rows[id] # Absent
    /\ Begin(w, Work("chain", "reactivate", id, rows[id].issuer))

\* /verify finds the id unlisted in the cache but listed in the sidecar's ledger.
VerifySyncs(w, k) ==
    /\ <<k, "b64">> \notin cache
    /\ view # 0 /\ ChainListed(LedgerAt(view), k)
    /\ Begin(w, Work("db", "revoke", <<k, "b64">>, "key"))

\* POST /revocations/check likewise, from the row and with no issuer.
CheckSyncs(w, id) ==
    /\ ~RowListed(id)
    /\ view # 0 /\ ChainListed(LedgerAt(view), id[1])
    /\ Begin(w, Work("db", "revoke", id, ""))

OnChain(op) == CASE op = "revoke" -> "REVOKED" [] op = "suspend" -> "SUSPENDED"
                 [] op = "reactivate" -> "ACTIVE"

\* The transaction lands and the caller learns of it.  The contract compares the
\* hash of the issuer argument with the one it stored.
ChainCallLands(w) ==
    /\ job[w].at = "chain" /\ view # 0
    /\ job[w].op = "reactivate" => job[w].issuer = "key"
    /\ ChainMoves(job[w].id[1], OnChain(job[w].op))
    /\ job' = [job EXCEPT ![w].at = "db"]
    /\ UNCHANGED <<sidecar, stream, rows, cache, acked, requests, crashes>>

MutAfterFailure(w) == [job[w] EXCEPT !.at = "db"]  \* mutant: the mirror is written all the same
AfterFailure(w) == Idle

ChainCallFails(w) ==
    /\ job[w].at = "chain"
    /\ job' = [job EXCEPT ![w] = AfterFailure(w)]
    /\ UNCHANGED <<feedVars, rows, cache, acked, requests, crashes>>

\* Someone else with the owner's key, or a call whose caller was told it failed.
OwnerMoves(k, status) ==
    /\ ChainMoves(k, status)
    /\ UNCHANGED <<sidecar, stream, mirror>>

\* handle: the consumer takes the next frame once the last one is applied.
TakeFrame ==
    /\ job["sse"] = Idle /\ wire # <<>>
    /\ LET e == Head(wire) IN
       job' = [job EXCEPT !["sse"] =
                 Work("db", CASE e.status = "REVOKED" -> "revoke" [] e.status = "SUSPENDED" -> "suspend"
                              [] e.status = "ACTIVE" -> "reactivate",
                      <<e.key, "hex">>, "hash")]
    /\ wire' = Tail(wire)
    /\ UNCHANGED <<chain, sidecar, conn, snap, gap, rows, cache, acked, requests, crashes>>

\* INSERT .. ON CONFLICT keeps the issuer of an existing row.
Upserted(id, status, issuer) ==
    [status |-> status, issuer |-> IF rows[id] = Absent THEN issuer ELSE rows[id].issuer]

DbWrite(w) ==
    LET j == job[w] IN
    /\ j.at = "db"
    /\ IF j.op = "reactivate" /\ rows[j.id] = Absent
         THEN job' = [job EXCEPT ![w] = Idle] /\ UNCHANGED rows
         ELSE /\ rows' = [rows EXCEPT ![j.id] =
                   CASE j.op = "revoke" -> Upserted(j.id, "revoked", j.issuer)
                     [] j.op = "suspend" -> Upserted(j.id, "suspended", j.issuer)
                     [] j.op = "reactivate" -> [@ EXCEPT !.status = "active"]]
              /\ job' = [job EXCEPT ![w].at = "cache"]
    /\ UNCHANGED <<feedVars, cache, acked, requests, crashes>>

DbFails(w) ==
    /\ job[w].at = "db"
    /\ job' = [job EXCEPT ![w] = Idle]
    /\ UNCHANGED <<feedVars, rows, cache, acked, requests, crashes>>

MutUncached(id) == cache  \* mutant: a reactivated id stays in the cache
Uncached(id) == cache \ {id}

Reactivating(id) == \E w \in Clients : job[w] # Idle /\ job[w].op = "reactivate" /\ job[w].id = id

CacheWrite(w) ==
    LET j == job[w] IN
    /\ j.at = "cache"
    /\ cache' = IF j.op = "reactivate" THEN Uncached(j.id) ELSE cache \cup {j.id}
    /\ acked' = IF j.op # "reactivate" /\ j.id[2] = "b64" /\ RowListed(j.id) /\ ~Reactivating(j.id)
                  THEN acked \cup {j.id} ELSE acked
    /\ job' = [job EXCEPT ![w] = Idle]
    /\ UNCHANGED <<feedVars, rows, requests, crashes>>

\* The caller hangs up and the server drops the handler at its current await.
CallerGone(w) ==
    /\ w \in Clients /\ job[w] # Idle
    /\ job' = [job EXCEPT ![w] = Idle]
    /\ UNCHANGED <<feedVars, rows, cache, acked, requests, crashes>>

MutPrimed == {id \in Ids : rows[id].status = "revoked"}  \* mutant: suspended rows are not loaded
Primed == {id \in Ids : RowListed(id)}

\* The service stops at any point and starts again: initialize_cache, whose
\* failure is logged and leaves the cache empty.
Crash ==
    /\ crashes < MaxCrashes
    /\ crashes' = crashes + 1
    /\ \/ cache' = Primed /\ UNCHANGED acked
       \/ cache' = {} /\ acked' = {}
    /\ job' = [w \in Writers |-> Idle]
    /\ HangUp
    /\ UNCHANGED <<chain, sidecar, rows, requests>>

Next ==
    \/ FeedNext /\ UNCHANGED mirror
    \/ \E k \in Keys, s \in Statuses : OwnerMoves(k, s)
    \/ TakeFrame
    \/ \E w \in Clients :
          \/ \E id \in Ids :
                \/ \E op \in Ops : RequestListing(w, op, id)
                \/ RequestReactivate(w, id)
                \/ CheckSyncs(w, id)
          \/ \E k \in Keys : VerifySyncs(w, k)
          \/ ChainCallLands(w)
          \/ ChainCallFails(w)
          \/ CallerGone(w)
    \/ \E w \in Writers : DbWrite(w) \/ DbFails(w) \/ CacheWrite(w)
    \/ Crash

Spec == Init /\ [][Next]_vars

\* Besides the feed's: the consumer's task runs, and the database takes some of
\* the writes it is asked for again and again.
FairSpec ==
    /\ Spec /\ FeedFairness
    /\ WF_vars(TakeFrame) /\ SF_vars(DbWrite("sse")) /\ WF_vars(CacheWrite("sse"))
    /\ \A w \in Clients : WF_vars(ChainCallFails(w)) /\ WF_vars(DbWrite(w)) /\ WF_vars(CacheWrite(w))
-----------------------------------------------------------------------------

\* "Write to chain FIRST ... so we never report a credential as revoked when the
\* chain doesn't agree": an id in a listed row or in the cache was listed by
\* some version of the chain, through failed and lost calls, hang-ups and
\* restarts.
NoPhantomRevocation ==
    \A id \in Ids : RowListed(id) \/ id \in cache =>
        \E v \in DOMAIN chain : ChainListed(chain[v], id[1])

\* A base64url id that a call reported as listed stays in the cache /verify
\* reads, through restarts, hang-ups, failures and the consumer's events, until
\* a reactivation of that same id is asked for, unless the database is out of
\* reach when the service starts.
AckedStaysListed == acked \subseteq cache

\* The hex rows, which the consumer writes, and their cache entries agree with
\* ledger v on what is listed.
HexAgrees(v) ==
    \A k \in Keys : LET id == <<k, "hex">> IN
        /\ RowListed(id) <=> ChainListed(LedgerAt(v), k)
        /\ id \in cache <=> ChainListed(LedgerAt(v), k)

\* If the consumer's connections keep dropping and keep being read out, the hex
\* half of the mirror ends up agreeing with the chain: late writes of API calls,
\* half-done writes, database errors, gaps and a cache that could not be primed
\* are all repaired by the replay.
ReplayHealsMirror ==
    /\ []<>(conn = "down")
    /\ []<>(conn = "tail" /\ wire = <<>> /\ job["sse"] = Idle)
    => <>[]HexAgrees(Latest)

\* Nothing in progress, and what the consumer wrote agrees with the chain.
Settled == (\A w \in Writers : job[w] = Idle) /\ HexAgrees(Latest)

\* sidecar_events.rs says the events are mirrored "so /verify can answer ...
\* without a sidecar round-trip": once settled, a listed credential is in the
\* cache under the id /verify looks up.
VerifyNeedsNoRoundTrip ==
    Settled => \A k \in Keys : ChainListed(chain[Latest], k) => <<k, "b64">> \in cache
===============================================================================
