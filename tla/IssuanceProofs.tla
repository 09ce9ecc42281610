---------------------------- MODULE IssuanceProofs ----------------------------
(***************************************************************************)
(* Issuance on both ends.                                                  *)
(*                                                                         *)
(* The issuer's session, for any number of requests, forms, batch sizes    *)
(* and disconnects.  Its invariants share a fact about creation: before    *)
(* the session exists no request is under way.                             *)
(*                                                                         *)
(* The holder's store, for any tabs, cards, passkeys and any number of     *)
(* operations.  What an operation may do at one step depends on what its   *)
(* tab found at an earlier one, so the invariant is about each tab.        *)
(***************************************************************************)
EXTENDS IssuerSession, HolderWallet, TLAPS

(* The issuer's session.                                                   *)

\* Requests are functions of the request, and wait for the session.
Shape ==
    /\ pc \in [Requests -> Pcs]
    /\ held \in [Requests -> Identities \cup {"none"}]
    /\ claims \in Identities \cup {"none"}
    /\ minted \in [Requests -> Seq(Identities \cup {"none"})]
    /\ cuts \in Nat
    /\ start = "none" => status = "pending" /\ ~issued /\ \A r \in Requests : pc[r] = "idle"

\* A request that is issuing, or that has minted.
Holds(r) == pc[r] \in IssuePcs \/ minted[r] # <<>>

\* There is one holder at most; while the session lives its flag is set; a
\* request has minted nothing before it reads the claims nor when it gives the
\* slot back; and the flag has a holder unless a handler was dropped.
SlotInv ==
    /\ \A r, q \in Requests : Holds(r) /\ Holds(q) => r = q
    /\ \A r \in Requests : Holds(r) /\ live => issued
    /\ \A r \in Requests : pc[r] \in {"idle", "claimed", "restoring"} => minted[r] = <<>>
    /\ live /\ issued /\ cuts = 0 => \E r \in Requests : Holds(r)

\* Claims are on their way, or in the map, before the session is marked.
ClaimsInv ==
    /\ \A r \in Requests : pc[r] \in {"verifying", "finding", "storing"} => held[r] # "none"
    /\ \A r \in Requests : live /\ pc[r] = "marking" => claims # "none"
    /\ live /\ status = "verified" => claims # "none"

\* Every step keeps the shape: all requests start after create_session returned
\* or, for webhooks, after it has asked the provider.
LEMMA ShapeKept == Shape /\ [Next]_vars => Shape'
<1> SUFFICES ASSUME Shape, [Next]_vars PROVE Shape'
  OBVIOUS
<1> USE DEF Shape, Pcs, IssuePcs, Identities
<1>1. CASE UNCHANGED vars
  BY <1>1 DEF vars, session, idp, requests
<1>2. CASE Create
  BY <1>2 DEF Create, session, idp, requests
<1>3. CASE StartFails
  BY <1>3 DEF StartFails, session, idp, requests
<1>4. CASE StartVerification
  BY <1>4 DEF StartVerification, session, idp, requests
<1>5. CASE Bind
  BY <1>5 DEF Bind, session, idp, requests
<1>6. CASE Expire
  BY <1>6 DEF Expire, session, idp, requests
<1>7. CASE CleanupExpired
  BY <1>7 DEF CleanupExpired, session, idp, requests
<1>8. CASE OidcStateExpires
  BY <1>8 DEF OidcStateExpires, session, idp, requests
<1>9. CASE DiditDecides
  BY <1>9 DEF DiditDecides, session, idp, requests
<1>10. ASSUME NEW r \in Requests, NEW form \in Forms, Submit(r, form) PROVE Shape'
  BY <1>10 DEF Submit, Goto, AfterProof, ShowsVerifying, session, idp, requests
<1>11. ASSUME NEW r \in Requests, NEW n \in 1..MaxBatch, ClaimIssuance(r, n) PROVE Shape'
  BY <1>11 DEF ClaimIssuance, Goto, SlotFree, session, idp, requests
<1>12. ASSUME NEW r \in Requests, UpdateStatus(r) PROVE Shape'
  BY <1>12 DEF UpdateStatus, Goto, AfterProof, session, idp, requests
<1>13. ASSUME NEW r \in Requests, AutoVerify(r) PROVE Shape'
  BY <1>13 DEF AutoVerify, Goto, Prove, AfterProof, session, idp, requests
<1>14. ASSUME NEW r \in Requests, Complete(r) PROVE Shape'
  BY <1>14 DEF Complete, Goto, session, idp, requests
<1>15. ASSUME NEW r \in Requests, Webhook(r) PROVE Shape'
  BY <1>15 DEF Webhook, Goto, session, idp, requests
<1>16. ASSUME NEW r \in Requests, Answer(r) PROVE Shape'
  BY <1>16 DEF Answer, Goto, Prove, AfterProof, Approved, session, idp, requests
<1>17. ASSUME NEW r \in Requests, FindSession(r) PROVE Shape'
  BY <1>17 DEF FindSession, Goto, AfterProof, session, idp, requests
<1>18. ASSUME NEW r \in Requests, OidcCallback(r) PROVE Shape'
  BY <1>18 DEF OidcCallback, Goto, session, idp, requests
<1>19. ASSUME NEW r \in Requests, TakeState(r) PROVE Shape'
  BY <1>19 DEF TakeState, Goto, AfterTake, session, idp, requests
<1>20. ASSUME NEW r \in Requests, ExchangeCode(r) PROVE Shape'
  BY <1>20 DEF ExchangeCode, Goto, Prove, AfterProof, session, idp, requests
<1>21. ASSUME NEW r \in Requests, StoreClaims(r) PROVE Shape'
  BY <1>21 DEF StoreClaims, Goto, session, idp, requests
<1>22. ASSUME NEW r \in Requests, MarkVerified(r) PROVE Shape'
  BY <1>22 DEF MarkVerified, Goto, session, idp, requests
<1>23. ASSUME NEW r \in Requests, ReadClaims(r) PROVE Shape'
  BY <1>23 DEF ReadClaims, Goto, session, idp, requests
<1>24. ASSUME NEW r \in Requests, Mint(r) PROVE Shape'
  BY <1>24 DEF Mint, Goto, BatchDone, session, idp, requests
<1>25. ASSUME NEW r \in Requests, MintFails(r) PROVE Shape'
  BY <1>25 DEF MintFails, Goto, AfterFailure, session, idp, requests
<1>26. ASSUME NEW r \in Requests, RestoreSlot(r) PROVE Shape'
  BY <1>26 DEF RestoreSlot, Goto, session, idp, requests
<1>27. ASSUME NEW r \in Requests, Disconnect(r) PROVE Shape'
  BY <1>27 DEF Disconnect, Goto, session, idp, requests
<1> QED
  BY <1>1, <1>2, <1>3, <1>4, <1>5, <1>6, <1>7, <1>8, <1>9, <1>10, <1>11, <1>12,
     <1>13, <1>14, <1>15, <1>16, <1>17, <1>18, <1>19, <1>20, <1>21, <1>22, <1>23, <1>24,
     <1>25, <1>26, <1>27 DEF Next

\* Every step keeps the slot exclusive: claiming tests the flag, giving back
\* is done by the one holder, which has minted nothing.
LEMMA SlotKept == Shape /\ SlotInv /\ [Next]_vars => SlotInv'
<1> SUFFICES ASSUME Shape /\ SlotInv, [Next]_vars PROVE SlotInv'
  OBVIOUS
<1> USE DEF SlotInv, Holds, IssuePcs, Shape
<1>1. CASE UNCHANGED vars
  BY <1>1 DEF vars, session, idp, requests
<1>2. CASE Create
  BY <1>2 DEF Create, session, idp, requests
<1>3. CASE StartFails
  BY <1>3 DEF StartFails, session, idp, requests
<1>4. CASE StartVerification
  BY <1>4 DEF StartVerification, session, idp, requests
<1>5. CASE Bind
  BY <1>5 DEF Bind, session, idp, requests
<1>6. CASE Expire
  BY <1>6 DEF Expire, session, idp, requests
<1>7. CASE CleanupExpired
  BY <1>7 DEF CleanupExpired, session, idp, requests
<1>8. CASE OidcStateExpires
  BY <1>8 DEF OidcStateExpires, session, idp, requests
<1>9. CASE DiditDecides
  BY <1>9 DEF DiditDecides, session, idp, requests
<1>10. ASSUME NEW r \in Requests, NEW form \in Forms, Submit(r, form) PROVE SlotInv'
  BY <1>10 DEF Submit, Goto, AfterProof, ShowsVerifying, session, idp, requests
<1>11. ASSUME NEW r \in Requests, NEW n \in 1..MaxBatch, ClaimIssuance(r, n) PROVE SlotInv'
  BY <1>11 DEF ClaimIssuance, Goto, SlotFree, session, idp, requests
<1>12. ASSUME NEW r \in Requests, UpdateStatus(r) PROVE SlotInv'
  BY <1>12 DEF UpdateStatus, Goto, AfterProof, session, idp, requests
<1>13. ASSUME NEW r \in Requests, AutoVerify(r) PROVE SlotInv'
  BY <1>13 DEF AutoVerify, Goto, Prove, AfterProof, session, idp, requests
<1>14. ASSUME NEW r \in Requests, Complete(r) PROVE SlotInv'
  BY <1>14 DEF Complete, Goto, session, idp, requests
<1>15. ASSUME NEW r \in Requests, Webhook(r) PROVE SlotInv'
  BY <1>15 DEF Webhook, Goto, session, idp, requests
<1>16. ASSUME NEW r \in Requests, Answer(r) PROVE SlotInv'
  BY <1>16 DEF Answer, Goto, Prove, AfterProof, Approved, session, idp, requests
<1>17. ASSUME NEW r \in Requests, FindSession(r) PROVE SlotInv'
  BY <1>17 DEF FindSession, Goto, AfterProof, session, idp, requests
<1>18. ASSUME NEW r \in Requests, OidcCallback(r) PROVE SlotInv'
  BY <1>18 DEF OidcCallback, Goto, session, idp, requests
<1>19. ASSUME NEW r \in Requests, TakeState(r) PROVE SlotInv'
  BY <1>19 DEF TakeState, Goto, AfterTake, session, idp, requests
<1>20. ASSUME NEW r \in Requests, ExchangeCode(r) PROVE SlotInv'
  BY <1>20 DEF ExchangeCode, Goto, Prove, AfterProof, session, idp, requests
<1>21. ASSUME NEW r \in Requests, StoreClaims(r) PROVE SlotInv'
  BY <1>21 DEF StoreClaims, Goto, session, idp, requests
<1>22. ASSUME NEW r \in Requests, MarkVerified(r) PROVE SlotInv'
  BY <1>22 DEF MarkVerified, Goto, session, idp, requests
<1>23. ASSUME NEW r \in Requests, ReadClaims(r) PROVE SlotInv'
  BY <1>23 DEF ReadClaims, Goto, session, idp, requests
<1>24. ASSUME NEW r \in Requests, Mint(r) PROVE SlotInv'
  BY <1>24 DEF Mint, Goto, BatchDone, session, idp, requests
<1>25. ASSUME NEW r \in Requests, MintFails(r) PROVE SlotInv'
  BY <1>25 DEF MintFails, Goto, AfterFailure, session, idp, requests
<1>26. ASSUME NEW r \in Requests, RestoreSlot(r) PROVE SlotInv'
  BY <1>26 DEF RestoreSlot, Goto, session, idp, requests
<1>27. ASSUME NEW r \in Requests, Disconnect(r) PROVE SlotInv'
  BY <1>27 DEF Disconnect, Goto, session, idp, requests
<1> QED
  BY <1>1, <1>2, <1>3, <1>4, <1>5, <1>6, <1>7, <1>8, <1>9, <1>10, <1>11, <1>12,
     <1>13, <1>14, <1>15, <1>16, <1>17, <1>18, <1>19, <1>20, <1>21, <1>22, <1>23, <1>24,
     <1>25, <1>26, <1>27 DEF Next

\* Every step keeps claims behind the verified status: StoreClaims comes before
\* MarkVerified, and cleanup_expired removes session and claims together.
LEMMA ClaimsKept == Shape /\ ClaimsInv /\ [Next]_vars => ClaimsInv'
<1> SUFFICES ASSUME Shape /\ ClaimsInv, [Next]_vars PROVE ClaimsInv'
  OBVIOUS
<1> USE FormsAssumption
<1> USE DEF ClaimsInv, Shape
<1>1. CASE UNCHANGED vars
  BY <1>1 DEF vars, session, idp, requests
<1>2. CASE Create
  BY <1>2 DEF Create, session, idp, requests
<1>3. CASE StartFails
  BY <1>3 DEF StartFails, session, idp, requests
<1>4. CASE StartVerification
  BY <1>4 DEF StartVerification, session, idp, requests
<1>5. CASE Bind
  BY <1>5 DEF Bind, session, idp, requests
<1>6. CASE Expire
  BY <1>6 DEF Expire, session, idp, requests
<1>7. CASE CleanupExpired
  BY <1>7 DEF CleanupExpired, session, idp, requests
<1>8. CASE OidcStateExpires
  BY <1>8 DEF OidcStateExpires, session, idp, requests
<1>9. CASE DiditDecides
  BY <1>9 DEF DiditDecides, session, idp, requests
<1>10. ASSUME NEW r \in Requests, NEW form \in Forms, Submit(r, form) PROVE ClaimsInv'
  BY <1>10 DEF Submit, Goto, AfterProof, ShowsVerifying, session, idp, requests
<1>11. ASSUME NEW r \in Requests, NEW n \in 1..MaxBatch, ClaimIssuance(r, n) PROVE ClaimsInv'
  BY <1>11 DEF ClaimIssuance, Goto, SlotFree, session, idp, requests
<1>12. ASSUME NEW r \in Requests, UpdateStatus(r) PROVE ClaimsInv'
  BY <1>12 DEF UpdateStatus, Goto, AfterProof, session, idp, requests
<1>13. ASSUME NEW r \in Requests, AutoVerify(r) PROVE ClaimsInv'
  BY <1>13 DEF AutoVerify, Goto, Prove, AfterProof, session, idp, requests
<1>14. ASSUME NEW r \in Requests, Complete(r) PROVE ClaimsInv'
  BY <1>14 DEF Complete, Goto, session, idp, requests
<1>15. ASSUME NEW r \in Requests, Webhook(r) PROVE ClaimsInv'
  BY <1>15 DEF Webhook, Goto, session, idp, requests
<1>16. ASSUME NEW r \in Requests, Answer(r) PROVE ClaimsInv'
  BY <1>16 DEF Answer, Goto, Prove, AfterProof, Approved, session, idp, requests
<1>17. ASSUME NEW r \in Requests, FindSession(r) PROVE ClaimsInv'
  BY <1>17 DEF FindSession, Goto, AfterProof, session, idp, requests
<1>18. ASSUME NEW r \in Requests, OidcCallback(r) PROVE ClaimsInv'
  BY <1>18 DEF OidcCallback, Goto, session, idp, requests
<1>19. ASSUME NEW r \in Requests, TakeState(r) PROVE ClaimsInv'
  BY <1>19 DEF TakeState, Goto, AfterTake, session, idp, requests
<1>20. ASSUME NEW r \in Requests, ExchangeCode(r) PROVE ClaimsInv'
  BY <1>20 DEF ExchangeCode, Goto, Prove, AfterProof, session, idp, requests
<1>21. ASSUME NEW r \in Requests, StoreClaims(r) PROVE ClaimsInv'
  BY <1>21 DEF StoreClaims, Goto, session, idp, requests
<1>22. ASSUME NEW r \in Requests, MarkVerified(r) PROVE ClaimsInv'
  BY <1>22 DEF MarkVerified, Goto, session, idp, requests
<1>23. ASSUME NEW r \in Requests, ReadClaims(r) PROVE ClaimsInv'
  BY <1>23 DEF ReadClaims, Goto, session, idp, requests
<1>24. ASSUME NEW r \in Requests, Mint(r) PROVE ClaimsInv'
  BY <1>24 DEF Mint, Goto, BatchDone, session, idp, requests
<1>25. ASSUME NEW r \in Requests, MintFails(r) PROVE ClaimsInv'
  BY <1>25 DEF MintFails, Goto, AfterFailure, session, idp, requests
<1>26. ASSUME NEW r \in Requests, RestoreSlot(r) PROVE ClaimsInv'
  BY <1>26 DEF RestoreSlot, Goto, session, idp, requests
<1>27. ASSUME NEW r \in Requests, Disconnect(r) PROVE ClaimsInv'
  BY <1>27 DEF Disconnect, Goto, session, idp, requests
<1> QED
  BY <1>1, <1>2, <1>3, <1>4, <1>5, <1>6, <1>7, <1>8, <1>9, <1>10, <1>11, <1>12,
     <1>13, <1>14, <1>15, <1>16, <1>17, <1>18, <1>19, <1>20, <1>21, <1>22, <1>23, <1>24,
     <1>25, <1>26, <1>27 DEF Next

\* The slot's inductive invariant holds throughout issue_credential.
LEMMA SlotAlways == Spec => [](Shape /\ SlotInv)
<1>1. Init => Shape /\ SlotInv
  BY DEF Init, Shape, SlotInv, Holds, Pcs, IssuePcs
<1>2. Shape /\ SlotInv /\ [Next]_vars => (Shape /\ SlotInv)'
  BY ShapeKept, SlotKept
<1> QED
  BY <1>1, <1>2, PTL DEF Spec

\* All the credentials of a session come from one issue request (issue_credential
\* and try_claim_issuance), for any number of concurrent requests.
THEOREM SlotExclusive == Spec => []OneBatch
<1>1. Shape /\ SlotInv => OneBatch
  BY DEF SlotInv, Holds, OneBatch
<1> QED
  BY <1>1, SlotAlways, PTL

\* A taken slot has a request that is issuing or has minted: every failure path of
\* issue_credential gives it back.
THEOREM SlotComesBack == Spec => []SlotFreed
<1>1. Shape /\ SlotInv => SlotFreed
  BY DEF SlotInv, Holds, SlotFreed
<1> QED
  BY <1>1, SlotAlways, PTL

\* A verified session has its claims (store_claims, mark_session_verified and
\* cleanup_expired), wherever handlers are interrupted.
THEOREM ClaimsBehindVerified == Spec => []VerifiedHasClaims
<1>1. Init => Shape /\ ClaimsInv
  BY DEF Init, Shape, ClaimsInv, Pcs
<1>2. Shape /\ ClaimsInv /\ [Next]_vars => (Shape /\ ClaimsInv)'
  BY ShapeKept, ClaimsKept
<1>3. Shape /\ ClaimsInv => VerifiedHasClaims
  BY DEF ClaimsInv, VerifiedHasClaims
<1> QED
  BY <1>1, <1>2, <1>3, PTL DEF Spec
-----------------------------------------------------------------------------
(* The holder's store.                                                     *)

Fields == {"op", "step", "card", "next", "todo", "all", "seen", "seal", "got"}

\* What the tab of an operation knows when it is about to issue, while it revokes
\* and when the export has been opened.
TabOK(r, revoked) ==
    /\ r = [f \in Fields |-> r[f]]
    /\ r.step = "issue" => r.seal # None
    /\ r.step = "revoke" => r.all \ r.todo \subseteq revoked
    /\ r.step = "open" => r.all = r.todo

WalletInv ==
    /\ passkeys \subseteq Passkeys
    /\ tab = [t \in Tabs |-> tab[t]]
    /\ \A t \in Tabs : TabOK(tab[t], revokedCards)

\* An operation ends, or has not come to a step of interest.
LEMMA OtherStep ==
    ASSUME NEW r, r = [f \in Fields |-> r[f]], r.step \notin {"issue", "revoke", "open"}, NEW revoked
    PROVE  TabOK(r, revoked)
  BY DEF TabOK

LEMMA TabMoves ==
    ASSUME WalletInv, NEW t \in Tabs, NEW r, tab' = [tab EXCEPT ![t] = r], TabOK(r, revokedCards'),
           passkeys' \subseteq Passkeys, revokedCards \subseteq revokedCards'
    PROVE  WalletInv'
  <1>1. \A u \in Tabs : tab'[u] = IF u = t THEN r ELSE tab[u]
    BY DEF WalletInv
  <1>2. tab' = [u \in Tabs |-> tab'[u]]
    BY DEF WalletInv
  <1>3. ASSUME NEW u \in Tabs, u # t PROVE TabOK(tab'[u], revokedCards')
    <2>1. tab'[u] = tab[u] /\ TabOK(tab[u], revokedCards)
      BY <1>1, <1>3 DEF WalletInv
    <2> QED BY <2>1 DEF TabOK
  <1> QED BY <1>1, <1>2, <1>3 DEF WalletInv

LEMMA DoneMoves ==
    ASSUME WalletInv, NEW t \in Tabs, NEW got, Done(t, got),
           passkeys' \subseteq Passkeys, revokedCards \subseteq revokedCards'
    PROVE  WalletInv'
  <1> DEFINE r == [Idle EXCEPT !.got = got]
  <1>1. r = [f \in Fields |-> r[f]] /\ r.step = "none"
    BY DEF Idle, Fields
  <1>2. tab' = [tab EXCEPT ![t] = r]
    BY DEF Done, Goes
  <1> HIDE DEF r
  <1>3. TabOK(r, revokedCards')
    BY <1>1, OtherStep
  <1> QED BY <1>2, <1>3, TabMoves

LEMMA RestoreFailsMoves ==
    ASSUME WalletInv, NEW t \in Tabs, RestoreFails(t),
           passkeys' \subseteq Passkeys, revokedCards \subseteq revokedCards'
    PROVE  WalletInv'
  <1> DEFINE r == [Idle EXCEPT !.op = "verify", !.step = IssueFrom, !.card = tab[t].card]
  <1>1. r = [f \in Fields |-> r[f]] /\ r.step = "wrap"
    BY DEF Idle, Fields, IssueFrom
  <1>2. tab' = [tab EXCEPT ![t] = r]
    BY DEF RestoreFails, Goes
  <1> HIDE DEF r
  <1>3. TabOK(r, revokedCards')
    BY <1>1, OtherStep
  <1> QED BY <1>2, <1>3, TabMoves

LEMMA GoesElsewhere ==
    ASSUME WalletInv, NEW t \in Tabs, NEW r, Goes(t, r),
           r = [f \in Fields |-> r[f]], r.step \notin {"issue", "revoke", "open"},
           passkeys' \subseteq Passkeys, revokedCards \subseteq revokedCards'
    PROVE  WalletInv'
  BY OtherStep, TabMoves DEF Goes

\* The operations that restore or issue a card.
LEMMA VerifyMoves ==
    ASSUME WalletInv, NEW t \in Tabs,
           \/ \E c \in Cards : Confirm(t, c)
           \/ ListBackups(t) \/ Decrypt(t) \/ Rewrap(t) \/ ReadIndex(t) \/ Rewrite(t) \/ Restored(t)
           \/ Wrap(t) \/ Issue(t) \/ ReadForStore(t) \/ Store(t) \/ Backup(t)
    PROVE  WalletInv'
  <1>1. tab[t] = [f \in Fields |-> tab[t][f]]
    BY DEF WalletInv, TabOK
  <1>2. passkeys' = passkeys /\ revokedCards' = revokedCards
    BY DEF Confirm, ListBackups, Decrypt, Rewrap, ReadIndex, Rewrite, Restored, Wrap, Issue, ReadForStore,
           Store, Backup, Writes, beyond
  <1>3. passkeys' \subseteq Passkeys /\ revokedCards \subseteq revokedCards'
    BY <1>2 DEF WalletInv
  <1>4. ASSUME \E got : Done(t, got) PROVE WalletInv'
    BY <1>3, <1>4, DoneMoves
  <1>5. CASE RestoreFails(t)
    BY <1>3, <1>5, RestoreFailsMoves
  <1>6. ASSUME NEW c \in Cards, Confirm(t, c) PROVE WalletInv'
    <2> DEFINE r == [Idle EXCEPT !.op = "verify", !.step = "list", !.card = c]
    <2>1. r = [f \in Fields |-> r[f]] /\ r.step = "list" /\ Goes(t, r)
      BY <1>6 DEF Idle, Fields, Confirm
    <2> HIDE DEF r
    <2> QED BY <1>3, <2>1, GoesElsewhere
  <1>7. CASE ListBackups(t)
    <2> DEFINE r == [tab[t] EXCEPT !.step = "decrypt", !.todo = {c \in Cards : backedUp[c] # None}]
    <2>1. RestoreFails(t) \/ Goes(t, r)
      BY <1>7 DEF ListBackups
    <2>2. r = [f \in Fields |-> r[f]] /\ r.step = "decrypt"
      BY <1>1 DEF Fields
    <2> HIDE DEF r
    <2> QED BY <1>3, <1>5, <2>1, <2>2, GoesElsewhere
  <1>8. CASE Decrypt(t)
    <2>1. RestoreFails(t) \/ \E x : Goes(t, [tab[t] EXCEPT !.step = "rewrap", !.todo = x, !.all = x])
      BY <1>8 DEF Decrypt
    <2>2. ASSUME NEW x, Goes(t, [tab[t] EXCEPT !.step = "rewrap", !.todo = x, !.all = x]) PROVE WalletInv'
      <3> DEFINE r == [tab[t] EXCEPT !.step = "rewrap", !.todo = x, !.all = x]
      <3>1. r = [f \in Fields |-> r[f]] /\ r.step = "rewrap" /\ Goes(t, r)
        BY <1>1, <2>2 DEF Fields
      <3> HIDE DEF r
      <3> QED BY <1>3, <3>1, GoesElsewhere
    <2> QED BY <1>5, <2>1, <2>2
  <1>9. CASE Rewrap(t)
    <2> DEFINE r == [tab[t] EXCEPT !.step = "readd", !.seal = hint']
    <2>1. RestoreFails(t) \/ Done(t, None) \/ Goes(t, r)
      BY <1>9 DEF Rewrap
    <2>2. r = [f \in Fields |-> r[f]] /\ r.step = "readd"
      BY <1>1 DEF Fields
    <2> HIDE DEF r
    <2> QED BY <1>3, <1>4, <1>5, <2>1, <2>2, GoesElsewhere
  <1>10. CASE ReadIndex(t)
    <2>1. PICK c \in tab[t].todo :
             Goes(t, [tab[t] EXCEPT !.step = "rewrite", !.seen = index, !.todo = @ \ {c}, !.next = c])
      BY <1>10 DEF ReadIndex
    <2> DEFINE r == [tab[t] EXCEPT !.step = "rewrite", !.seen = index, !.todo = @ \ {c}, !.next = c]
    <2>2. r = [f \in Fields |-> r[f]] /\ r.step = "rewrite" /\ Goes(t, r)
      BY <1>1, <2>1 DEF Fields
    <2> HIDE DEF r
    <2> QED BY <1>3, <2>2, GoesElsewhere
  <1>11. CASE Rewrite(t)
    <2>1. \E x : Goes(t, [tab[t] EXCEPT !.step = "readd", !.next = None, !.seen = {}, !.got = x])
      BY <1>11 DEF Rewrite
    <2>2. PICK x : Goes(t, [tab[t] EXCEPT !.step = "readd", !.next = None, !.seen = {}, !.got = x])
      BY <2>1
    <2> DEFINE r == [tab[t] EXCEPT !.step = "readd", !.next = None, !.seen = {}, !.got = x]
    <2>3. r = [f \in Fields |-> r[f]] /\ r.step = "readd" /\ Goes(t, r)
      BY <1>1, <2>2 DEF Fields
    <2> HIDE DEF r
    <2> QED BY <1>3, <2>3, GoesElsewhere
  <1>12. CASE Restored(t)
    BY <1>4, <1>5, <1>12 DEF Restored
  <1>13. CASE Wrap(t)
    <2> DEFINE r == [tab[t] EXCEPT !.step = "issue", !.seal = hint']
    <2>1. CASE Done(t, None)
      BY <1>4, <2>1
    <2>2. CASE hint # None /\ hint' \in prfSecret(hint) /\ Goes(t, r)
      <3>1. hint' \in Passkeys /\ hint' # None
        BY <2>2, WalletAssumption DEF prfSecret, WalletInv
      <3>2. r = [f \in Fields |-> r[f]] /\ r.step = "issue" /\ r.seal = hint'
        BY <1>1 DEF Fields
      <3>3. tab' = [tab EXCEPT ![t] = r]
        BY <2>2 DEF Goes
      <3> HIDE DEF r
      <3>4. TabOK(r, revokedCards')
        BY <3>1, <3>2 DEF TabOK
      <3> QED BY <1>3, <3>3, <3>4, TabMoves
    <2> QED BY <1>13, <2>1, <2>2 DEF Wrap
  <1>14. CASE Issue(t)
    <2> DEFINE r == [tab[t] EXCEPT !.step = "read"]
    <2>1. Done(t, None) \/ Goes(t, r)
      BY <1>14 DEF Issue
    <2>2. r = [f \in Fields |-> r[f]] /\ r.step = "read"
      BY <1>1 DEF Fields
    <2> HIDE DEF r
    <2> QED BY <1>3, <1>4, <2>1, <2>2, GoesElsewhere
  <1>15. CASE ReadForStore(t)
    <2> DEFINE r == [tab[t] EXCEPT !.step = "store", !.seen = index]
    <2>1. r = [f \in Fields |-> r[f]] /\ r.step = "store" /\ Goes(t, r)
      BY <1>1, <1>15 DEF Fields, ReadForStore
    <2> HIDE DEF r
    <2> QED BY <1>3, <2>1, GoesElsewhere
  <1>16. CASE Store(t)
    <2> DEFINE r == [tab[t] EXCEPT !.step = "backup", !.seen = {}]
    <2>1. Done(t, None) \/ Goes(t, r)
      BY <1>16 DEF Store
    <2>2. r = [f \in Fields |-> r[f]] /\ r.step = "backup"
      BY <1>1 DEF Fields
    <2> HIDE DEF r
    <2> QED BY <1>3, <1>4, <2>1, <2>2, GoesElsewhere
  <1>17. CASE Backup(t)
    BY <1>4, <1>17 DEF Backup
  <1> QED BY <1>6, <1>7, <1>8, <1>9, <1>10, <1>11, <1>12, <1>13, <1>14, <1>15, <1>16, <1>17

\* Removing a card, resetting the wallet, recovery files.
LEMMA ManageMoves ==
    ASSUME WalletInv, NEW t \in Tabs,
           \/ \E c \in Cards : RemoveCard(t, c)
           \/ Remove(t) \/ \E report \in BOOLEAN : Reset(t, report)
           \/ Revoke(t) \/ Wipe(t) \/ Export(t) \/ OpenAll(t) \/ Import(t) \/ Close(t)
    PROVE  WalletInv'
  <1>1. tab[t] = [f \in Fields |-> tab[t][f]] /\ TabOK(tab[t], revokedCards)
    BY DEF WalletInv, TabOK
  <1>2. passkeys' = passkeys /\ revokedCards \subseteq revokedCards'
    BY DEF RemoveCard, Remove, Reset, Revoke, Wipe, Export, OpenAll, Import, Close, beyond
  <1>3. passkeys' \subseteq Passkeys
    BY <1>2 DEF WalletInv
  <1>4. CASE Done(t, None)
    BY <1>2, <1>3, <1>4, DoneMoves
  <1>5. ASSUME NEW c \in Cards, RemoveCard(t, c) PROVE WalletInv'
    <2> DEFINE r == [Idle EXCEPT !.op = "remove", !.step = "remove", !.next = c, !.seen = index]
    <2>1. r = [f \in Fields |-> r[f]] /\ r.step = "remove" /\ Goes(t, r)
      BY <1>5 DEF Idle, Fields, RemoveCard
    <2> HIDE DEF r
    <2> QED BY <1>2, <1>3, <2>1, GoesElsewhere
  <1>6. CASE Remove(t) \/ Wipe(t) \/ OpenAll(t) \/ Close(t)
    BY <1>4, <1>6 DEF Remove, Wipe, OpenAll, Close
  <1>7. ASSUME NEW report \in BOOLEAN, Reset(t, report) PROVE WalletInv'
    <2>1. PICK x : Goes(t, [Idle EXCEPT !.op = "reset", !.step = "revoke", !.todo = x, !.all = x])
      BY <1>7 DEF Reset
    <2> DEFINE r == [Idle EXCEPT !.op = "reset", !.step = "revoke", !.todo = x, !.all = x]
    <2>2. r = [f \in Fields |-> r[f]] /\ r.step = "revoke" /\ r.todo = x /\ r.all = x /\ Goes(t, r)
      BY <2>1 DEF Idle, Fields
    <2> HIDE DEF r
    <2>3. TabOK(r, revokedCards')
      BY <2>2 DEF TabOK
    <2> QED BY <1>2, <1>3, <2>2, <2>3, TabMoves DEF Goes
  <1>8. CASE Revoke(t)
    <2>1. PICK c \in tab[t].todo :
             \/ Done(t, None)
             \/ c \in revokedCards' /\ Goes(t, [tab[t] EXCEPT !.todo = @ \ {c}])
      BY <1>8 DEF Revoke, RevokeFails
    <2>2. CASE c \in revokedCards' /\ Goes(t, [tab[t] EXCEPT !.todo = @ \ {c}])
      <3> DEFINE r == [tab[t] EXCEPT !.todo = @ \ {c}]
      <3>1. r = [f \in Fields |-> r[f]] /\ r.step = tab[t].step /\ r.todo = tab[t].todo \ {c} /\ r.all = tab[t].all
            /\ Goes(t, r)
        BY <1>1, <2>2 DEF Fields
      <3>2. tab[t].step = "revoke"
        BY <1>8 DEF Revoke
      <3> HIDE DEF r
      <3>3. TabOK(r, revokedCards')
        BY <1>1, <1>2, <2>2, <3>1, <3>2 DEF TabOK
      <3> QED BY <1>2, <1>3, <3>1, <3>3, TabMoves DEF Goes
    <2> QED BY <1>4, <2>1, <2>2
  <1>9. CASE Export(t)
    <2>1. PICK p \in openHolderKeys(listCredentials) :
             Goes(t, [Idle EXCEPT !.op = "export", !.step = "open", !.seal = p, !.todo = listCredentials,
                                  !.all = {c \in listCredentials : key[c] = p}])
      BY <1>9 DEF Export
    <2> DEFINE x == {c \in listCredentials : key[c] = p}
               r == [Idle EXCEPT !.op = "export", !.step = "open", !.seal = p, !.todo = listCredentials, !.all = x]
    <2>2. x = listCredentials
      BY <2>1 DEF openHolderKeys
    <2>3. r = [f \in Fields |-> r[f]] /\ r.step = "open" /\ r.todo = listCredentials /\ r.all = x
      BY DEF Idle, Fields
    <2>4. Goes(t, r)
      BY <2>1
    <2> HIDE DEF r, x
    <2>5. TabOK(r, revokedCards')
      BY <2>2, <2>3 DEF TabOK
    <2> QED BY <1>2, <1>3, <2>4, <2>5, TabMoves DEF Goes
  <1>10. CASE Import(t)
    <2> DEFINE r == [Idle EXCEPT !.op = "import", !.step = "rewrap", !.todo = file, !.all = file]
    <2>1. r = [f \in Fields |-> r[f]] /\ r.step = "rewrap" /\ Goes(t, r)
      BY <1>10 DEF Idle, Fields, Import
    <2> HIDE DEF r
    <2> QED BY <1>2, <1>3, <2>1, GoesElsewhere
  <1> QED BY <1>5, <1>6, <1>7, <1>8, <1>9, <1>10

LEMMA WalletStep == WalletInv /\ [WalletNext]_walletVars => WalletInv'
  <1> SUFFICES ASSUME WalletInv, [WalletNext]_walletVars PROVE WalletInv'
    OBVIOUS
  <1>1. ASSUME tab' = tab, revokedCards' = revokedCards, passkeys' \subseteq Passkeys PROVE WalletInv'
    BY <1>1 DEF WalletInv
  <1>2. CASE (\E p \in Passkeys : Register(p) \/ PasskeyLost(p)) \/ Login \/ UNCHANGED walletVars
    <2>1. tab' = tab /\ revokedCards' = revokedCards /\ passkeys' \subseteq Passkeys
      BY <1>2 DEF Register, PasskeyLost, Login, walletVars, beyond, WalletInv
    <2> QED BY <1>1, <2>1
  <1> QED BY <1>2, VerifyMoves, ManageMoves DEF WalletNext

LEMMA WalletAlways == WalletSpec => []WalletInv
  <1>1. WalletInit => WalletInv
    <2>1. Idle = [f \in Fields |-> Idle[f]] /\ Idle.step = "none"
      BY DEF Idle, Fields
    <2>2. TabOK(Idle, {})
      BY <2>1, OtherStep
    <2> QED BY <2>2 DEF WalletInit, WalletInv
  <1> QED BY <1>1, WalletStep, PTL DEF WalletSpec

\* The issuance slot is taken in one step only, and by a tab whose passkey prompt
\* has been answered.
THEOREM SlotAfterSeal == WalletSpec => SlotForSealedSeed
  <1> DEFINE A == \A c \in slotUsed' \ slotUsed : \E t \in Tabs : tab[t].card = c /\ tab[t].seal # None
  <1>1. WalletInv /\ [WalletNext]_walletVars => [A]_walletVars
    <2> SUFFICES ASSUME WalletInv, WalletNext PROVE A
      OBVIOUS
    <2>1. CASE slotUsed' = slotUsed
      BY <2>1
    <2>2. ASSUME NEW t \in Tabs, Issue(t) PROVE A
      <3>1. tab[t].seal # None
        BY <2>2 DEF WalletInv, TabOK, Issue
      <3>2. \A c \in slotUsed' \ slotUsed : c = tab[t].card
        BY <2>2 DEF Issue
      <3> QED BY <3>1, <3>2
    <2>3. ASSUME NEW p \in Passkeys, Register(p) \/ PasskeyLost(p) PROVE slotUsed' = slotUsed
      BY <2>3 DEF Register, PasskeyLost
    <2>4. ASSUME Login PROVE slotUsed' = slotUsed
      BY <2>4 DEF Login, beyond
    <2>5. ASSUME NEW t \in Tabs,
                 \/ \E c \in Cards : Confirm(t, c) \/ RemoveCard(t, c)
                 \/ ListBackups(t) \/ Decrypt(t) \/ Rewrap(t) \/ ReadIndex(t) \/ Rewrite(t) \/ Restored(t)
                 \/ Wrap(t) \/ ReadForStore(t) \/ Store(t) \/ Backup(t)
                 \/ Remove(t) \/ \E report \in BOOLEAN : Reset(t, report)
                 \/ Revoke(t) \/ Wipe(t) \/ Export(t) \/ OpenAll(t) \/ Import(t) \/ Close(t)
          PROVE  slotUsed' = slotUsed
      BY <2>5 DEF Confirm, RemoveCard, ListBackups, Decrypt, Rewrap, ReadIndex, Rewrite, Restored, Wrap,
                  ReadForStore, Store, Backup, Remove, Reset, Revoke, Wipe, Export, OpenAll, Import, Close,
                  Writes, beyond
    <2> QED BY <2>1, <2>2, <2>3, <2>4, <2>5 DEF WalletNext
  <1> QED BY <1>1, WalletAlways, PTL DEF WalletSpec, SlotForSealedSeed

\* The wallet is wiped only when every card the reset listed has been revoked.
THEOREM RevokedBeforeWiped == WalletSpec => WipedIsRevoked
  <1>1. WalletInv => \A t \in Tabs : Wipe(t) => tab[t].all \subseteq revokedCards
    BY DEF WalletInv, TabOK, Wipe
  <1> QED BY <1>1, WalletAlways, PTL DEF WalletSpec, WipedIsRevoked

\* A recovery file is written whole or not at all: a passkey that opens some of
\* the listed cards' keys and not the others writes nothing.
THEOREM FilesAreWhole == WalletSpec => ExportWhole
  <1>1. WalletInv => \A t \in Tabs : OpenAll(t) /\ file' # file => file' = tab[t].todo
    BY DEF WalletInv, TabOK, OpenAll
  <1> QED BY <1>1, WalletAlways, PTL DEF WalletSpec, ExportWhole
===============================================================================
