-------------------------- MODULE PresentationRelay --------------------------
(***************************************************************************)
(* One presentation session of the verification service and the WebSocket  *)
(* relay between its two roles (presentation.rs).  A handler's await       *)
(* points are its steps: each lock of the session store, each send to the  *)
(* peer's channel.  What the apps do with a socket is PresentationFlow.    *)
(***************************************************************************)
EXTENDS Integers, Sequences

CONSTANTS
    ChannelCap,   \* capacity of a handler's channel; 32 in the code
    MaxCuts       \* bound: connections the network breaks

ASSUME RelayAssumption == ChannelCap \in Nat \ {0} /\ MaxCuts \in Nat

Roles == {"holder", "verifier"}
Peer(role) == IF role = "holder" THEN "verifier" ELSE "holder"
Resumable == {"request", "response", "proof_failed", "consent_denied"}
Notices == {"session_ready", "peer_disconnected", "busy", "dead"}
Messages == Resumable \cup Notices
None == "none"

VARIABLES
    session,   \* "open", "expired", or "gone": removed from the store
    slot,      \* holder_tx and verifier_tx: a socket, or 0
    buffer,    \* what is replayed to a role: buffered_request, buffered_terminal
    sock,      \* the sockets opened so far, each with its handler
    cuts

relay == <<session, slot, buffer, sock, cuts>>

\* A socket as the browser opens it: the upgrade has checked that the session exists.
New(role) ==
    [role |-> role, pc |-> "connect", chan |-> <<>>, out |-> None, peer |-> 0,
     replay |-> None, last |-> None, up |-> <<>>, down |-> <<>>,
     client |-> "open", link |-> "ok"]

RelayInit ==
    /\ session = "open" /\ cuts = 0
    /\ slot = [r \in Roles |-> 0]
    /\ buffer = [r \in Roles |-> None]
    /\ sock = <<New("holder")>>

Step(s, handler) == sock' = [sock EXCEPT ![s] = handler]
Reachable(h) == h.client = "open" /\ h.link = "ok"

\* socket.send; what goes to a broken connection is lost.
Written(h, m) ==
    [h EXCEPT !.down = IF Reachable(h) THEN Append(@, m) ELSE @,
              !.last = IF m \in Resumable THEN m ELSE @]

Finished(h) == [h EXCEPT !.pc = "done", !.chan = <<>>, !.up = <<>>, !.out = None, !.peer = 0]

MutRefusal(role) == IF session = "open" THEN None ELSE "dead"  \* mutant: a taken slot is overwritten
\* Why connect turns a socket away.
Refusal(role) ==
    IF session # "open" THEN "dead" ELSE IF slot[role] # 0 THEN "busy" ELSE None

\* store.connect, under the write lock.
Connect(s) ==
    LET h == sock[s] IN
    /\ h.pc = "connect"
    /\ IF Refusal(h.role) # None
         THEN Step(s, Finished(Written(h, Refusal(h.role)))) /\ UNCHANGED slot
         ELSE /\ slot' = [slot EXCEPT ![h.role] = s]
              /\ Step(s, IF slot[Peer(h.role)] # 0
                           THEN [h EXCEPT !.pc = "lookup", !.out = "session_ready", !.replay = buffer[h.role]]
                           ELSE [h EXCEPT !.pc = "replay", !.replay = buffer[h.role]])
    /\ UNCHANGED <<session, buffer, cuts>>

\* What a handler does when its message is in the peer's channel, or has no peer.
AfterSend(h) ==
    LET g == [h EXCEPT !.out = None, !.peer = 0] IN
    CASE h.out = "session_ready" -> [Written(g, "session_ready") EXCEPT !.pc = "replay"]
      [] h.out = "peer_disconnected" -> [g EXCEPT !.pc = "leave"]
      [] OTHER -> [g EXCEPT !.pc = "loop"]

\* store.get_peer_tx, under the read lock.
Lookup(s) ==
    LET h == sock[s]
        t == slot[Peer(h.role)] IN
    /\ h.pc = "lookup"
    /\ Step(s, IF t = 0 THEN AfterSend(h) ELSE [h EXCEPT !.pc = "send", !.peer = t])
    /\ UNCHANGED <<session, slot, buffer, cuts>>

HasRoom(t) == Len(sock[t].chan) < ChannelCap

\* peer_tx.send: waits for room, fails at once if the peer's handler has returned.
Send(s) ==
    LET h == sock[s]
        t == h.peer IN
    /\ h.pc = "send"
    /\ IF sock[t].pc = "done"
         THEN Step(s, AfterSend(h))
         ELSE /\ HasRoom(t)
              /\ sock' = [sock EXCEPT ![s] = AfterSend(h), ![t].chan = Append(@, h.out)]
    /\ UNCHANGED <<session, slot, buffer, cuts>>

Replayed(h) == IF h.replay = None THEN h ELSE Written(h, h.replay)

Replay(s) ==
    LET h == sock[s] IN
    /\ h.pc = "replay"
    /\ Step(s, [Replayed(h) EXCEPT !.pc = "loop", !.replay = None])
    /\ UNCHANGED <<session, slot, buffer, cuts>>

Stored(role, m) == IF session = "gone" THEN buffer ELSE [buffer EXCEPT ![Peer(role)] = m]

MutRecvClient(s) ==  \* mutant: the peer is looked up first, the message buffered after
    LET h == sock[s]
        g == [h EXCEPT !.out = Head(h.up), !.up = Tail(@), !.replay = None] IN
    /\ h.pc = "loop" /\ h.up # <<>>
    /\ IF h.replay = None
         THEN Step(s, [h EXCEPT !.replay = Head(h.up), !.peer = slot[Peer(h.role)]]) /\ UNCHANGED buffer
         ELSE /\ buffer' = Stored(h.role, Head(h.up))
              /\ Step(s, IF h.peer = 0 THEN AfterSend(g) ELSE [g EXCEPT !.pc = "send"])
    /\ UNCHANGED <<session, slot, cuts>>
\* A message of this client: store.buffer_message, then the peer is looked up.
RecvClient(s) ==
    LET h == sock[s] IN
    /\ h.pc = "loop" /\ h.up # <<>>
    /\ buffer' = Stored(h.role, Head(h.up))
    /\ Step(s, [h EXCEPT !.pc = "lookup", !.out = Head(h.up), !.up = Tail(@)])
    /\ UNCHANGED <<session, slot, cuts>>

Leaving(h) == [h EXCEPT !.pc = "lookup", !.out = "peer_disconnected"]

\* A message from the peer; the write to a broken connection may fail.
RecvPeer(s) ==
    LET h == sock[s]
        g == [Written(h, Head(h.chan)) EXCEPT !.chan = Tail(@)] IN
    /\ h.pc = "loop" /\ h.chan # <<>>
    /\ \/ Step(s, g)
       \/ h.link = "cut" /\ Step(s, Leaving(g))
    /\ UNCHANGED <<session, slot, buffer, cuts>>

MutHungUp(h) == h.link = "cut"  \* mutant: a close frame does not end the loop
\* A close frame, or the end of a broken connection once it is noticed.
HungUp(h) == ~Reachable(h)

HangUp(s) ==
    LET h == sock[s] IN
    /\ h.pc = "loop" /\ h.up = <<>> /\ HungUp(h)
    /\ Step(s, Leaving(h))
    /\ UNCHANGED <<session, slot, buffer, cuts>>

\* store.disconnect; the handler returns and its channel is dropped.
Leave(s) ==
    LET h == sock[s] IN
    /\ h.pc = "leave"
    /\ slot' = [slot EXCEPT ![h.role] = 0]
    /\ Step(s, Finished(h))
    /\ UNCHANGED <<session, buffer, cuts>>

Handler(s) ==
    Connect(s) \/ Lookup(s) \/ Send(s) \/ Replay(s) \/ RecvClient(s) \/ RecvPeer(s) \/ HangUp(s) \/ Leave(s)

\* The TTL passes; the cleanup task removes the session within a minute.
Expire ==
    /\ session = "open"
    /\ session' = "expired"
    /\ UNCHANGED <<slot, buffer, sock, cuts>>

Removed == session' = "gone" /\ slot' = [r \in Roles |-> 0] /\ buffer' = [r \in Roles |-> None]

Cleanup ==
    /\ session = "expired"
    /\ Removed
    /\ UNCHANGED <<sock, cuts>>

\* The network breaks a connection: what is under way to the browser is lost,
\* and all but some first messages of what is under way to the handler.
Cut(s) ==
    /\ cuts < MaxCuts
    /\ sock[s].link = "ok" /\ sock[s].pc # "done"
    /\ \E n \in 0..Len(sock[s].up) :
          Step(s, [sock[s] EXCEPT !.link = "cut", !.down = <<>>, !.up = SubSeq(@, 1, n)])
    /\ cuts' = cuts + 1
    /\ UNCHANGED <<session, slot, buffer>>

Sockets == DOMAIN sock

===============================================================================
