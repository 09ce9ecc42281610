--------------------------- MODULE PresentationFlow ---------------------------
(***************************************************************************)
(* A presentation from end to end: the wallet's hook (use-presentation.ts),*)
(* the verifier app (App.tsx) and /verify's use of the session nonce, over *)
(* PresentationRelay.  The wallet has created the session and shows its    *)
(* QR; the credential itself is taken to pass every check of /verify.      *)
(***************************************************************************)
EXTENDS PresentationRelay

VARIABLES
    holder,     \* the hook: its state, current socket, request seen, proving
    verifier,   \* the app: its step, current socket, request sent, verdict
    posts       \* its calls of /verify, in order

apps == <<holder, verifier, posts>>
vars == <<relay, apps>>

NonTerminal == {"showing_qr", "waiting", "consent", "generating"}
MutRecoverable == {"connecting"}  \* mutant: no reconnect while waiting for the holder
Recoverable == {"connecting", "waiting"}

Init ==
    /\ RelayInit
    /\ holder = [state |-> "showing_qr", sock |-> 1, seen |-> FALSE, proving |-> FALSE]
    /\ verifier = [step |-> "scanning", sock |-> 0, sent |-> FALSE, verdict |-> "none"]
    /\ posts = <<>>
-----------------------------------------------------------------------------
(* Browser sockets.                                                        *)

IsOpen(s) == s # 0 /\ sock[s].client = "open"

\* ws.send on an open socket; nothing is sent on any other.
Sent(s, m) ==
    IF IsOpen(s) /\ sock[s].link = "ok" /\ sock[s].pc # "done"
      THEN [sock EXCEPT ![s].up = Append(@, m)] ELSE sock
\* ws.close, by which what was sent before is still delivered.
Shut(socks, s) == IF s = 0 THEN socks ELSE [socks EXCEPT ![s].client = "closed", ![s].down = <<>>]

Receives(s, m) == IsOpen(s) /\ sock[s].down # <<>> /\ m = Head(sock[s].down)
Taken(s) == [sock EXCEPT ![s].down = Tail(@)]

\* onclose: the connection broke, or the handler returned.
ClientNotices(s) ==
    /\ IsOpen(s)
    /\ sock[s].link = "cut" \/ (sock[s].pc = "done" /\ sock[s].down = <<>>)
    /\ sock' = Shut(sock, s)
    /\ UNCHANGED <<session, slot, buffer, cuts, apps>>

OnlySock == UNCHANGED <<session, slot, buffer, cuts>>
-----------------------------------------------------------------------------
(* The wallet.                                                             *)

\* cleanup(): abort the proving, forget the session, close the socket.
HolderCleanup(state, socks) ==
    /\ holder' = [holder EXCEPT !.state = state, !.sock = 0, !.seen = FALSE, !.proving = FALSE]
    /\ sock' = Shut(socks, holder.sock)

\* A quick retry after onclose, or a visibility, focus or online event; an
\* upgrade that finds no session is refused and leaves everything as it was.
HolderReconnect ==
    /\ holder.state \in NonTerminal
    /\ holder.sock # 0 /\ ~IsOpen(holder.sock)
    /\ session # "gone"
    /\ sock' = Append(sock, New("holder"))
    /\ holder' = [holder EXCEPT !.sock = Len(sock) + 1]
    /\ OnlySock /\ UNCHANGED <<verifier, posts>>

\* A request is surfaced once.
Consents == ~holder.seen

HolderReceives ==
    \E m \in Messages :
        /\ Receives(holder.sock, m)
        /\ sock' = Taken(holder.sock)
        /\ holder' =
             CASE m = "session_ready" /\ holder.state = "showing_qr" -> [holder EXCEPT !.state = "waiting"]
               [] m = "request" /\ Consents -> [holder EXCEPT !.state = "consent", !.seen = TRUE]
               [] m \in {"busy", "dead"} /\ holder.state \notin {"complete", "idle", "proof_error"} ->
                     [holder EXCEPT !.state = "session_error"]
               [] OTHER -> holder
        /\ OnlySock /\ UNCHANGED <<verifier, posts>>

Approve ==
    /\ holder.state = "consent" /\ ~holder.proving
    /\ holder' = [holder EXCEPT !.state = "generating", !.proving = TRUE]
    /\ UNCHANGED <<relay, verifier, posts>>

\* approve() goes on: the proof is sent if the socket is open, then cleanup().
Proved ==
    /\ holder.proving
    /\ HolderCleanup("complete", Sent(holder.sock, "response"))
    /\ OnlySock /\ UNCHANGED <<verifier, posts>>

\* The proving fails or times out; the socket stays open.
ProofFails ==
    /\ holder.proving
    /\ holder' = [holder EXCEPT !.state = "proof_error", !.proving = FALSE]
    /\ sock' = Sent(holder.sock, "proof_failed")
    /\ OnlySock /\ UNCHANGED <<verifier, posts>>

Deny ==
    /\ holder.state = "consent"
    /\ HolderCleanup("denied", Sent(holder.sock, "consent_denied"))
    /\ OnlySock /\ UNCHANGED <<verifier, posts>>

MutCancelNotice == "consent_denied"  \* mutant: a cancelled presentation is told as a denial
CancelNotice == "proof_failed"

\* The modal's Cancel, or Close on an error.
HolderCancel ==
    /\ holder.state \in {"showing_qr", "waiting", "generating", "proof_error", "session_error"}
    /\ HolderCleanup("idle", Sent(holder.sock, CancelNotice))
    /\ OnlySock /\ UNCHANGED <<verifier, posts>>

\* "Try again" goes on with a new session.
TryAgain ==
    /\ holder.state \in {"proof_error", "session_error"}
    /\ HolderCleanup("idle", sock)
    /\ OnlySock /\ UNCHANGED <<verifier, posts>>
-----------------------------------------------------------------------------
(* The verifier app.                                                       *)

\* closeWs(): forget the engagement, close the socket.
CloseWs(step, verdict, socks) ==
    /\ verifier' = [step |-> step, sock |-> 0, sent |-> FALSE, verdict |-> verdict]
    /\ sock' = Shut(socks, verifier.sock)

Scan ==
    /\ verifier.step = "scanning" /\ session # "gone"
    /\ sock' = Append(sock, New("verifier"))
    /\ verifier' = [verifier EXCEPT !.step = "connecting", !.sock = Len(sock) + 1]
    /\ OnlySock /\ UNCHANGED <<holder, posts>>

VerifierReconnect ==
    /\ verifier.step \in Recoverable
    /\ verifier.sock # 0 /\ ~IsOpen(verifier.sock)
    /\ session # "gone"
    /\ sock' = Append(sock, New("verifier"))
    /\ verifier' = [verifier EXCEPT !.sock = Len(sock) + 1]
    /\ OnlySock /\ UNCHANGED <<holder, posts>>

VerifierReceives ==
    /\ \E m \in Messages :
        /\ Receives(verifier.sock, m)
        /\ CASE m = "session_ready" /\ ~verifier.sent ->
                  /\ verifier' = [verifier EXCEPT !.sent = TRUE, !.step = "waiting"]
                  /\ sock' = [Sent(verifier.sock, "request") EXCEPT ![verifier.sock].down = Tail(@)]
                  /\ UNCHANGED posts
             [] m = "response" ->
                  /\ verifier' = [verifier EXCEPT !.step = "verifying"]
                  /\ posts' = Append(posts, "sent")
                  /\ sock' = Taken(verifier.sock)
             [] m = "consent_denied" -> CloseWs("result", "denied", sock) /\ UNCHANGED posts
             [] m = "proof_failed" -> CloseWs("result", "failed", sock) /\ UNCHANGED posts
             [] m \in {"busy", "dead"} /\ verifier.step \notin {"verifying", "result", "error"} ->
                  /\ verifier' = [verifier EXCEPT !.step = "error"]
                  /\ sock' = Taken(verifier.sock) /\ UNCHANGED posts
             [] OTHER -> sock' = Taken(verifier.sock) /\ UNCHANGED <<verifier, posts>>
    /\ OnlySock /\ UNCHANGED holder

MutConsumed == UNCHANGED <<session, slot, buffer>>  \* mutant: the session outlives its nonce
\* consume_nonce removes the session.
Consumed == Removed

\* /verify takes the nonce of a session that is there and not expired.
ServePost(i) ==
    /\ posts[i] = "sent"
    /\ IF session = "open"
         THEN posts' = [posts EXCEPT ![i] = "valid"] /\ Consumed
         ELSE posts' = [posts EXCEPT ![i] = "invalid"] /\ UNCHANGED <<session, slot, buffer>>
    /\ UNCHANGED <<sock, cuts, holder, verifier>>

\* The answer, or the failure of the call, is the result shown.
AnswerPost(i) ==
    /\ \/ posts[i] \in {"valid", "invalid"} /\ CloseWs("result", posts[i], sock)
       \/ posts[i] \in {"sent", "valid", "invalid"} /\ CloseWs("result", "unreachable", sock)
    /\ posts' = [posts EXCEPT ![i] = IF @ = "valid" THEN "accepted" ELSE "over"]
    /\ OnlySock /\ UNCHANGED holder

VerifierCancel ==
    /\ verifier.step \in {"connecting", "waiting", "verifying"}
    /\ CloseWs("idle", verifier.verdict, sock)
    /\ OnlySock /\ UNCHANGED <<holder, posts>>
-----------------------------------------------------------------------------
Relay == \E s \in Sockets : Handler(s) /\ UNCHANGED apps
Notice == \E s \in Sockets : ClientNotices(s)
Post == \E i \in DOMAIN posts : ServePost(i) \/ AnswerPost(i)

Next ==
    \/ Relay
    \/ \E s \in Sockets : Cut(s) /\ UNCHANGED apps
    \/ (Expire \/ Cleanup) /\ UNCHANGED apps
    \/ Notice
    \/ HolderReconnect \/ HolderReceives \/ Approve \/ Proved \/ ProofFails \/ Deny \/ HolderCancel \/ TryAgain
    \/ Scan \/ VerifierReconnect \/ VerifierReceives \/ VerifierCancel
    \/ Post

Spec == Init /\ [][Next]_vars

\* The service runs its tasks and select! is fair, a broken connection is noticed,
\* apps handle what they receive, calls of /verify end, and the user comes back
\* to an app whose socket closed.  No decision of a user is assumed.
FairSpec ==
    /\ Spec
    /\ \A s \in 1..(MaxCuts + 2) :
          /\ WF_vars(s \in Sockets /\ Handler(s) /\ UNCHANGED apps)
          /\ WF_vars(s \in Sockets /\ ClientNotices(s))
    /\ WF_vars(HolderReceives) /\ WF_vars(HolderReconnect)
    /\ WF_vars(VerifierReceives) /\ WF_vars(VerifierReconnect) /\ WF_vars(Post)
-----------------------------------------------------------------------------

\* A role's slot and the handlers of that role agree: the slot names a handler
\* that has connected and not left, and every such handler holds its role's
\* slot, so no disconnect frees the slot of a socket that rejoined.
SlotOwned ==
    session # "gone" => \A r \in Roles, s \in Sockets :
        slot[r] = s <=> sock[s].role = r /\ sock[s].pc \notin {"connect", "done"}

\* The peer of role r is not in the middle of passing a message on.
PeerQuiet(r) ==
    \A s \in Sockets : sock[s].role = Peer(r) => sock[s].pc \notin {"lookup", "send"}

\* Buffered before the peer is looked up, replayed on connect: a socket that is
\* past its replay with an empty channel was written the last message meant for
\* its role, however the peer's send and this rejoin interleaved.
HandoverComplete ==
    \A r \in Roles : LET h == sock[slot[r]] IN
        slot[r] # 0 /\ PeerQuiet(r) /\ h.pc = "loop" /\ h.chan = <<>> /\ buffer[r] # None
            => h.last = buffer[r]

Accepted == {i \in DOMAIN posts : posts[i] \in {"valid", "accepted"}}

\* consume_nonce: however often a response is delivered and posted, /verify takes
\* the session's nonce once.
NonceOnce == \A i, j \in Accepted : i = j

\* The result the verifier shows is the holder's doing: a valid one follows a
\* proof, a denial follows a denial.
VerdictFromHolder ==
    /\ verifier.verdict = "valid" => holder.state = "complete"
    /\ verifier.verdict = "denied" => holder.state = "denied"

Ended == verifier.step \in {"result", "error", "idle"} \/ session # "open"

\* Once the service has the holder's last word, a verifier that was away when it
\* came reaches a result, or an error, or the session ends.
TerminalReachesVerifier == buffer["verifier"] # None /\ verifier.sock # 0 ~> Ended

\* A socket its browser has closed does not keep its handler: handlers that send
\* to each other's channels, and leave, do not block each other for ever.  It
\* needs room in the channels: two handlers that send into full channels of each
\* other wait for ever.
HandlersReturn == <>[](\A s \in Sockets : sock[s].client = "closed" => sock[s].pc = "done")

\* use-presentation.ts says that when the socket is mid-reconnect "the
\* relay-buffered copy plus the `onopen` re-send cover delivery": a proof made
\* while the socket was away, and complete for good, reaches the verifier.
ProofDelivered ==
    [](holder.proving /\ ~IsOpen(holder.sock) => <>Ended \/ <>[](holder.state # "complete"))
===============================================================================
