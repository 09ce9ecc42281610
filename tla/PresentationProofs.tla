-------------------------- MODULE PresentationProofs --------------------------
(***************************************************************************)
(* The safety of a presentation, for every channel capacity and any number *)
(* of broken connections.                                                  *)
(***************************************************************************)
EXTENDS PresentationFlow, TLAPS

PCs == {"connect", "lookup", "send", "replay", "loop", "leave", "done"}

HandlerShapes ==
    [role : Roles, pc : PCs, chan : Seq(Messages), out : Messages \cup {None}, peer : Nat,
     replay : Resumable \cup {None}, last : Resumable \cup {None},
     up : Seq(Resumable), down : Seq(Messages), client : {"open", "closed"}, link : {"ok", "cut"}]

\* What a handler's position says of the rest of it: nothing is in the channel
\* before connect, a message is under way in a send, and nothing is left to replay
\* in the loop.
Placed(h) ==
    /\ h.pc = "connect" => h.chan = <<>>
    /\ h.pc \in {"lookup", "send"} => h.out \in Resumable \cup {"session_ready", "peer_disconnected"}
    /\ h.pc = "loop" \/ (h.pc \in {"lookup", "send"} /\ h.out # "session_ready") => h.replay = None

Handlers == {h \in HandlerShapes : Placed(h)}

RelayType ==
    /\ session \in {"open", "expired", "gone"}
    /\ slot \in [Roles -> Nat]
    /\ buffer \in [Roles -> Resumable \cup {None}]
    /\ sock \in Seq(Handlers)

Active(h) == h.pc \notin {"connect", "done"}

\* SlotOwned, with what it needs to be inductive: a slot that is taken names a
\* socket, and a session that is gone has no slots and no buffers.
Slots ==
    /\ session = "gone" => \A r \in Roles : slot[r] = 0 /\ buffer[r] = None
    /\ \A r \in Roles : slot[r] # 0 => slot[r] \in Sockets /\ sock[slot[r]].role = r /\ Active(sock[slot[r]])
    /\ session # "gone" => \A s \in Sockets : Active(sock[s]) => slot[sock[s].role] = s

\* A send goes to a handler of the other role that has connected.
Links ==
    \A s \in Sockets : sock[s].pc = "send" =>
        /\ sock[s].peer \in Sockets
        /\ sock[sock[s].peer].role = Peer(sock[s].role)
        /\ sock[sock[s].peer].pc # "connect"

\* A handler passes on what it has buffered last.
Passing(h) == h.pc \in {"lookup", "send"} /\ h.out \in Resumable
Buffered ==
    session # "gone" => \A s \in Sockets : Passing(sock[s]) => buffer[Peer(sock[s].role)] = sock[s].out

\* A message for role r is on its way to the socket that now holds the slot.
Underway(r) ==
    \E s \in Sockets :
        /\ sock[s].role = Peer(r) /\ Passing(sock[s])
        /\ sock[s].pc = "send" => sock[s].peer = slot[r]

\* The last resumable message a handler has written, or will once it has replayed
\* and emptied its channel.
Silent(chan) == \A i \in DOMAIN chan : chan[i] \notin Resumable
LastIn(chan, m) == \E i \in DOMAIN chan : chan[i] = m /\ \A j \in DOMAIN chan : j > i => chan[j] \notin Resumable
Latest(h) == IF h.replay # None THEN h.replay ELSE h.last
Holds(h, m) == LastIn(h.chan, m) \/ (Silent(h.chan) /\ Latest(h) = m)

Handed ==
    \A r \in Roles : slot[r] # 0 /\ buffer[r] # None => Underway(r) \/ Holds(sock[slot[r]], buffer[r])

RelayInv == RelayType /\ Slots /\ Links /\ Buffered /\ Handed
-----------------------------------------------------------------------------
(* The record operations of the handlers.                                  *)

LEMMA ShapeFields ==
    ASSUME NEW h \in HandlerShapes
    PROVE  /\ h.role \in Roles /\ h.pc \in PCs /\ h.chan \in Seq(Messages)
           /\ h.out \in Messages \cup {None} /\ h.peer \in Nat
           /\ h.replay \in Resumable \cup {None} /\ h.last \in Resumable \cup {None}
           /\ h.up \in Seq(Resumable) /\ h.down \in Seq(Messages)
  BY DEF HandlerShapes

\* The fields only the relay reads and writes.
SameInside(g, h) ==
    /\ g.role = h.role /\ g.pc = h.pc /\ g.chan = h.chan /\ g.out = h.out
    /\ g.peer = h.peer /\ g.replay = h.replay /\ g.last = h.last

LEMMA SameInsidePlaced ==
    ASSUME NEW h \in Handlers, NEW g \in HandlerShapes, SameInside(g, h)
    PROVE  g \in Handlers
  BY DEF Handlers, Placed, SameInside

LEMMA WrittenFacts ==
    ASSUME NEW h \in HandlerShapes, NEW m \in Messages
    PROVE  LET g == Written(h, m) IN
           /\ g \in HandlerShapes
           /\ g.role = h.role /\ g.pc = h.pc /\ g.chan = h.chan /\ g.out = h.out
           /\ g.peer = h.peer /\ g.replay = h.replay /\ g.up = h.up
           /\ g.last = IF m \in Resumable THEN m ELSE h.last
  <1> DEFINE d == IF Reachable(h) THEN Append(h.down, m) ELSE h.down
             l == IF m \in Resumable THEN m ELSE h.last
             g == [h EXCEPT !.down = d, !.last = l]
  <1>1. d \in Seq(Messages) /\ l \in Resumable \cup {None}
    BY ShapeFields
  <1>2. Written(h, m) = g
    BY DEF Written
  <1> HIDE DEF d
  <1>3. /\ g.role = h.role /\ g.pc = h.pc /\ g.chan = h.chan /\ g.out = h.out
        /\ g.peer = h.peer /\ g.replay = h.replay /\ g.up = h.up /\ g.last = l
    BY DEF HandlerShapes
  <1>4. g \in HandlerShapes
    <2> HIDE DEF l
    <2> QED BY <1>1 DEF HandlerShapes
  <1> QED BY <1>2, <1>3, <1>4

LEMMA FinishedFacts ==
    ASSUME NEW h \in HandlerShapes
    PROVE  /\ Finished(h) \in Handlers
           /\ Finished(h).role = h.role /\ Finished(h).pc = "done"
  <1> DEFINE a == "done"
             b == <<>>
             c == None
             d == 0
             g == [h EXCEPT !.pc = a, !.chan = b, !.up = b, !.out = c, !.peer = d]
  <1>1. a \in PCs /\ b \in Seq(Messages) /\ b \in Seq(Resumable) /\ c \in Messages \cup {None} /\ d \in Nat
    BY DEF PCs
  <1>2. Finished(h) = g
    BY DEF Finished
  <1>3. g.pc = "done" /\ g.role = h.role
    BY DEF HandlerShapes
  <1>4. g \in HandlerShapes
    <2> HIDE DEF a, b, c, d
    <2> QED BY <1>1 DEF HandlerShapes
  <1> HIDE DEF g
  <1> QED BY <1>2, <1>3, <1>4 DEF Handlers, Placed

\* What AfterSend makes of a handler that has sent, or had nobody to send to.
LEMMA AfterSendFacts ==
    ASSUME NEW h \in Handlers, h.pc \in {"lookup", "send"}
    PROVE  LET g == AfterSend(h) IN
           /\ g \in Handlers /\ g.pc \in {"replay", "leave", "loop"}
           /\ g.role = h.role /\ g.chan = h.chan /\ g.replay = h.replay /\ g.last = h.last
  <1> DEFINE e == [h EXCEPT !.out = None, !.peer = 0]
  <1>0. h \in HandlerShapes /\ Placed(h)
    BY DEF Handlers
  <1>1. /\ e \in HandlerShapes /\ e.role = h.role /\ e.chan = h.chan /\ e.replay = h.replay /\ e.last = h.last
    BY <1>0 DEF HandlerShapes
  <1> HIDE DEF e
  <1>2. CASE h.out = "session_ready"
    <2> DEFINE w == Written(e, "session_ready")
               g == [w EXCEPT !.pc = "replay"]
    <2>1. /\ w \in HandlerShapes /\ w.role = e.role /\ w.chan = e.chan /\ w.replay = e.replay /\ w.last = e.last
      BY <1>1, WrittenFacts DEF Messages, Notices, Resumable
    <2> HIDE DEF w
    <2>2. /\ g \in HandlerShapes /\ g.pc = "replay" /\ g.role = w.role /\ g.chan = w.chan
          /\ g.replay = w.replay /\ g.last = w.last
      BY <2>1 DEF HandlerShapes, PCs
    <2>3. AfterSend(h) = g
      BY <1>2 DEF AfterSend, e, w
    <2> HIDE DEF g
    <2> QED BY <1>1, <2>1, <2>2, <2>3 DEF Handlers, Placed
  <1>3. CASE h.out = "peer_disconnected"
    <2> DEFINE g == [e EXCEPT !.pc = "leave"]
    <2>1. /\ g \in HandlerShapes /\ g.pc = "leave" /\ g.role = e.role /\ g.chan = e.chan
          /\ g.replay = e.replay /\ g.last = e.last
      BY <1>1 DEF HandlerShapes, PCs
    <2>2. AfterSend(h) = g
      BY <1>3 DEF AfterSend, e
    <2> HIDE DEF g
    <2> QED BY <1>1, <2>1, <2>2 DEF Handlers, Placed
  <1>4. CASE h.out \notin {"session_ready", "peer_disconnected"}
    <2> DEFINE g == [e EXCEPT !.pc = "loop"]
    <2>1. /\ g \in HandlerShapes /\ g.pc = "loop" /\ g.role = e.role /\ g.chan = e.chan
          /\ g.replay = e.replay /\ g.last = e.last
      BY <1>1 DEF HandlerShapes, PCs
    <2>2. AfterSend(h) = g
      BY <1>4 DEF AfterSend, e
    <2>3. h.replay = None
      BY <1>0, <1>4 DEF Placed
    <2> HIDE DEF g
    <2> QED BY <1>1, <2>1, <2>2, <2>3 DEF Handlers, Placed
  <1> QED BY <1>2, <1>3, <1>4
-----------------------------------------------------------------------------
(* Which message a handler holds for its role.                             *)

LEMMA HoldsSame ==
    ASSUME NEW g, NEW h, NEW m, g.chan = h.chan, Latest(g) = Latest(h), Holds(h, m)
    PROVE  Holds(g, m)
  BY DEF Holds

LEMMA HoldsNotice ==
    ASSUME NEW g \in HandlerShapes, NEW h \in HandlerShapes, NEW m, NEW n \in Messages \ Resumable,
           g.chan = Append(h.chan, n), g.replay = h.replay, g.last = h.last, Holds(h, m)
    PROVE  Holds(g, m)
  <1> DEFINE c == h.chan
             d == g.chan
  <1>1. c \in Seq(Messages) /\ d = Append(c, n)
    BY ShapeFields
  <1>2. DOMAIN c = 1..Len(c) /\ DOMAIN d = 1..(Len(c) + 1) /\ d[Len(c) + 1] = n
        /\ Len(c) \in Nat /\ \A i \in 1..Len(c) : d[i] = c[i]
    BY <1>1
  <1>3. LastIn(c, m) => LastIn(d, m)
    <2> HIDE DEF c, d
    <2> QED BY <1>2 DEF LastIn
  <1>4. Silent(c) => Silent(d)
    <2> HIDE DEF c, d
    <2> QED BY <1>2 DEF Silent
  <1> QED BY <1>3, <1>4 DEF Holds, Latest

LEMMA HoldsSent ==
    ASSUME NEW g \in HandlerShapes, NEW h \in HandlerShapes, NEW m \in Resumable,
           g.chan = Append(h.chan, m)
    PROVE  Holds(g, m)
  <1>1. h.chan \in Seq(Messages) /\ m \in Messages
    BY ShapeFields DEF Messages
  <1>2. Len(h.chan) + 1 \in DOMAIN g.chan /\ g.chan[Len(h.chan) + 1] = m
        /\ \A j \in DOMAIN g.chan : ~(j > Len(h.chan) + 1)
    BY <1>1
  <1> QED BY <1>2 DEF Holds, LastIn

LEMMA HoldsReceived ==
    ASSUME NEW g \in HandlerShapes, NEW h \in HandlerShapes, NEW m \in Resumable, h.chan # <<>>,
           g.chan = Tail(h.chan), g.replay = None, h.replay = None,
           g.last = IF Head(h.chan) \in Resumable THEN Head(h.chan) ELSE h.last, Holds(h, m)
    PROVE  Holds(g, m)
  <1> DEFINE c == h.chan
             d == g.chan
  <1>1. c \in Seq(Messages) /\ c # <<>> /\ d = Tail(c)
    BY ShapeFields
  <1>2. DOMAIN c = 1..Len(c) /\ DOMAIN d = 1..(Len(c) - 1) /\ Head(c) = c[1]
        /\ Len(c) \in Nat /\ Len(c) # 0 /\ \A i \in 1..(Len(c) - 1) : d[i] = c[i + 1]
    BY <1>1
  <1>3. g.last = IF c[1] \in Resumable THEN c[1] ELSE h.last
    BY <1>2
  <1> HIDE DEF c, d
  <1>4. CASE LastIn(c, m)
    <2>1. PICK i \in DOMAIN c : c[i] = m /\ \A j \in DOMAIN c : j > i => c[j] \notin Resumable
      BY <1>4 DEF LastIn
    <2>2. CASE i = 1
      <3>1. Silent(d)
        BY <1>2, <2>1, <2>2 DEF Silent
      <3>2. g.last = m
        BY <1>3, <2>1, <2>2
      <3> QED BY <3>1, <3>2 DEF Holds, Latest, d
    <2>3. CASE i # 1
      <3>1. i - 1 \in DOMAIN d /\ d[i - 1] = m
        BY <1>2, <2>1, <2>3
      <3>2. \A j \in DOMAIN d : j > i - 1 => d[j] \notin Resumable
        BY <1>2, <2>1, <2>3
      <3> QED BY <3>1, <3>2 DEF Holds, LastIn, d
    <2> QED BY <2>2, <2>3
  <1>5. CASE Silent(c) /\ Latest(h) = m
    <2>1. Silent(d) /\ c[1] \notin Resumable
      BY <1>2, <1>5 DEF Silent
    <2> QED BY <1>3, <1>5, <2>1 DEF Holds, Latest, d
  <1> QED BY <1>4, <1>5 DEF Holds, c
-----------------------------------------------------------------------------
(* What a step that leaves the slots alone keeps.                          *)

LEMMA StepFacts ==
    ASSUME sock \in Seq(Handlers), NEW s \in Sockets, NEW q \in Handlers, Step(s, q)
    PROVE  /\ sock' \in Seq(Handlers) /\ Sockets' = Sockets /\ sock'[s] = q
           /\ \A i \in Sockets : i # s => sock'[i] = sock[i]
  BY DEF Step, Sockets

LEMMA SocketFacts ==
    ASSUME sock \in Seq(Handlers)
    PROVE  /\ Sockets = 1..Len(sock) /\ Len(sock) \in Nat /\ Sockets \subseteq Nat \ {0}
           /\ \A s \in Sockets : sock[s] \in Handlers /\ sock[s] \in HandlerShapes
  BY DEF Sockets, Handlers

\* What a step may do to socket i that neither joins nor leaves.
Moved(i) ==
    /\ sock'[i].role = sock[i].role
    /\ Active(sock'[i]) <=> Active(sock[i])
    /\ sock'[i].pc = "connect" => sock[i].pc = "connect"
    /\ sock'[i].pc = "send" =>
          \/ sock[i].pc = "send" /\ sock'[i].peer = sock[i].peer
          \/ sock'[i].peer = slot[Peer(sock[i].role)] /\ sock'[i].peer # 0

\* New sockets have not connected.
Grown ==
    /\ Sockets \subseteq Sockets'
    /\ \A i \in Sockets' \ Sockets : sock'[i].pc = "connect"

LEMMA PeerFacts ==
    ASSUME NEW r \in Roles
    PROVE  Peer(r) \in Roles /\ Peer(r) # r /\ Peer(Peer(r)) = r /\ \A p \in Roles : p = r \/ p = Peer(r)
  BY DEF Peer, Roles

LEMMA KeepsSlots ==
    ASSUME RelayType, RelayType', Slots, Links, slot' = slot,
           session = "gone" => buffer' = buffer, session' = "gone" <=> session = "gone",
           Grown, \A i \in Sockets : Moved(i)
    PROVE  Slots' /\ Links'
  <1> USE SocketFacts, PeerFacts
  <1>1. sock \in Seq(Handlers) /\ sock' \in Seq(Handlers)
    BY DEF RelayType
  <1>2. \A i \in Sockets : sock[i].role \in Roles /\ sock'[i].role = sock[i].role
    BY <1>1, ShapeFields DEF Moved
  <1>3. Slots'
    <2>1. session' = "gone" => \A r \in Roles : slot'[r] = 0 /\ buffer'[r] = None
      BY DEF Slots
    <2>2. \A r \in Roles : slot'[r] # 0 =>
             slot'[r] \in Sockets' /\ sock'[slot'[r]].role = r /\ Active(sock'[slot'[r]])
      BY <1>2 DEF Slots, Grown, Moved
    <2>3. session' # "gone" => \A s \in Sockets' : Active(sock'[s]) => slot'[sock'[s].role] = s
      BY <1>2 DEF Slots, Grown, Moved, Active
    <2> QED BY <2>1, <2>2, <2>3 DEF Slots, Active
  <1>4. ASSUME NEW s \in Sockets', sock'[s].pc = "send"
        PROVE  /\ sock'[s].peer \in Sockets'
               /\ sock'[sock'[s].peer].role = Peer(sock'[s].role)
               /\ sock'[sock'[s].peer].pc # "connect"
    <2>1. s \in Sockets
      BY <1>4 DEF Grown
    <2>2. sock'[s].peer \in Sockets /\ sock[sock'[s].peer].role = Peer(sock[s].role)
          /\ sock[sock'[s].peer].pc # "connect"
      BY <1>2, <1>4, <2>1 DEF Moved, Links, Slots, Active
    <2> QED BY <1>2, <2>1, <2>2 DEF Grown, Moved
  <1> QED BY <1>3, <1>4 DEF Links
LEMMA KeepsHanded ==
    ASSUME RelayType, Slots, Buffered, Handed, slot' = slot, buffer' = buffer,
           session' = "gone" <=> session = "gone", Grown,
           \A i \in Sockets : Moved(i) /\ (Passing(sock'[i]) => Passing(sock[i]) /\ sock'[i].out = sock[i].out),
           \A r \in Roles : slot[r] # 0 =>
              /\ buffer[r] # None /\ Holds(sock[slot[r]], buffer[r]) => Holds(sock'[slot[r]], buffer[r])
              /\ Underway(r) => Underway(r)' \/ Holds(sock'[slot[r]], buffer[r])
    PROVE  Buffered' /\ Handed'
  <1>1. Buffered'
    <2> SUFFICES ASSUME session # "gone", NEW s \in Sockets', Passing(sock'[s])
                 PROVE  buffer'[Peer(sock'[s].role)] = sock'[s].out
      BY DEF Buffered, Passing
    <2>1. s \in Sockets
      BY DEF Grown, Passing
    <2> QED BY <2>1 DEF Buffered, Moved
  <1>2. Handed'
    <2> SUFFICES ASSUME NEW r \in Roles, slot'[r] # 0, buffer'[r] # None
                 PROVE  Underway(r)' \/ Holds(sock'[slot'[r]], buffer'[r])
      BY DEF Handed, Holds, LastIn, Silent, Latest
    <2> QED BY DEF Handed
  <1> QED BY <1>1, <1>2

\* What the apps and the network do to the sockets is outside of the relay's part.
Outside ==
    /\ slot' = slot /\ buffer' = buffer /\ session' = session
    /\ sock' \in Seq(Handlers) /\ Grown
    /\ \A i \in Sockets : SameInside(sock'[i], sock[i])

LEMMA OutsideKeeps ==
    ASSUME RelayInv, Outside
    PROVE  RelayInv'
  <1> USE DEF RelayInv
  <1>1. RelayType'
    BY DEF RelayType, Outside
  <1>2. \A i \in Sockets : Moved(i) /\ (Passing(sock'[i]) => Passing(sock[i]) /\ sock'[i].out = sock[i].out)
    BY DEF Outside, SameInside, Moved, Active, Passing
  <1>3. Slots' /\ Links'
    BY <1>1, <1>2, KeepsSlots DEF Outside
  <1>4. ASSUME NEW r \in Roles, slot[r] # 0
        PROVE  /\ Holds(sock[slot[r]], buffer[r]) => Holds(sock'[slot[r]], buffer[r])
               /\ Underway(r) => Underway(r)'
    <2>1. slot[r] \in Sockets
      BY <1>4 DEF Slots
    <2>2. Holds(sock[slot[r]], buffer[r]) => Holds(sock'[slot[r]], buffer[r])
      BY <2>1, HoldsSame DEF Outside, SameInside, Latest
    <2>3. ASSUME Underway(r) PROVE Underway(r)'
      <3>1. PICK s \in Sockets : sock[s].role = Peer(r) /\ Passing(sock[s])
                                 /\ (sock[s].pc = "send" => sock[s].peer = slot[r])
        BY <2>3 DEF Underway
      <3>2. s \in Sockets' /\ sock'[s].role = Peer(r) /\ Passing(sock'[s])
            /\ (sock'[s].pc = "send" => sock'[s].peer = slot'[r])
        BY <3>1 DEF Outside, Grown, SameInside, Passing
      <3> QED BY <3>2 DEF Underway, Passing
    <2> QED BY <2>2, <2>3
  <1>5. Buffered' /\ Handed'
    BY <1>2, <1>4, KeepsHanded DEF Outside
  <1> QED BY <1>1, <1>3, <1>5
-----------------------------------------------------------------------------
(* The handlers' steps.                                                    *)

LEMMA LookupKeeps ==
    ASSUME RelayInv, NEW s \in Sockets, Lookup(s)
    PROVE  RelayInv'
  <1> USE SocketFacts, PeerFacts DEF RelayInv
  <1> DEFINE h == sock[s]
             t == slot[Peer(h.role)]
             q == IF t = 0 THEN AfterSend(h) ELSE [h EXCEPT !.pc = "send", !.peer = t]
  <1>1. h \in Handlers /\ h \in HandlerShapes /\ h.pc = "lookup" /\ h.role \in Roles /\ t \in Nat
    BY ShapeFields DEF RelayType, Lookup
  <1>2. /\ q \in Handlers /\ q.role = h.role /\ q.chan = h.chan /\ q.replay = h.replay /\ q.last = h.last
        /\ t = 0 => q.pc \in {"replay", "leave", "loop"}
        /\ t # 0 => q.pc = "send" /\ q.peer = t /\ q.out = h.out
    <2>1. CASE t = 0
      BY <1>1, <2>1, AfterSendFacts
    <2>2. CASE t # 0
      <3> DEFINE g == [h EXCEPT !.pc = "send", !.peer = t]
      <3>1. /\ g \in HandlerShapes /\ g.role = h.role /\ g.chan = h.chan /\ g.replay = h.replay
            /\ g.last = h.last /\ g.pc = "send" /\ g.peer = t /\ g.out = h.out
        <4> HIDE DEF h, t
        <4> QED BY <1>1 DEF HandlerShapes, PCs
      <3>2. q = g
        BY <2>2
      <3> HIDE DEF g, q
      <3> QED BY <1>1, <2>2, <3>1, <3>2 DEF Handlers, Placed
    <2> QED BY <2>1, <2>2
  <1>3. Step(s, q) /\ slot' = slot /\ buffer' = buffer /\ session' = session
    BY DEF Lookup
  <1> HIDE DEF q
  <1>4. /\ sock' \in Seq(Handlers) /\ Sockets' = Sockets /\ sock'[s] = q
        /\ \A i \in Sockets : i # s => sock'[i] = sock[i]
    BY <1>2, <1>3, StepFacts DEF RelayType
  <1>5. RelayType' /\ Grown
    BY <1>3, <1>4 DEF RelayType, Grown
  <1>6. \A i \in Sockets : Moved(i) /\ (Passing(sock'[i]) => Passing(sock[i]) /\ sock'[i].out = sock[i].out)
    BY <1>1, <1>2, <1>4 DEF Moved, Active, Passing
  <1>7. Slots' /\ Links'
    BY <1>3, <1>5, <1>6, KeepsSlots
  <1>8. ASSUME NEW r \in Roles, slot[r] # 0
        PROVE  /\ Holds(sock[slot[r]], buffer[r]) => Holds(sock'[slot[r]], buffer[r])
               /\ Underway(r) => Underway(r)'
    <2>1. Holds(sock[slot[r]], buffer[r]) => Holds(sock'[slot[r]], buffer[r])
      <3>1. slot[r] \in Sockets
        BY <1>8 DEF Slots
      <3>2. CASE slot[r] = s
        BY <1>2, <1>4, <3>2, HoldsSame DEF Latest
      <3>3. CASE slot[r] # s
        BY <1>4, <3>1, <3>3
      <3> QED BY <3>2, <3>3
    <2>2. ASSUME Underway(r) PROVE Underway(r)'
      <3>1. PICK i \in Sockets : sock[i].role = Peer(r) /\ Passing(sock[i])
                                 /\ (sock[i].pc = "send" => sock[i].peer = slot[r])
        BY <2>2 DEF Underway
      <3>2. i = s => t = slot[r] /\ q.pc = "send" /\ q.peer = slot[r] /\ q.out = h.out
        BY <1>1, <1>2, <1>8, <3>1
      <3>3. i \in Sockets' /\ sock'[i].role = Peer(r) /\ Passing(sock'[i])
            /\ (sock'[i].pc = "send" => sock'[i].peer = slot'[r])
        BY <1>2, <1>3, <1>4, <3>1, <3>2 DEF Passing
      <3> QED BY <3>3 DEF Underway, Passing
    <2> QED BY <2>1, <2>2
  <1>9. Buffered' /\ Handed'
    BY <1>3, <1>5, <1>6, <1>8, KeepsHanded
  <1> QED BY <1>5, <1>7, <1>9

\* While the session is there, a role has at most one active handler.
LEMMA OneActive ==
    ASSUME RelayInv, session # "gone", NEW i \in Sockets, NEW j \in Sockets,
           Active(sock[i]), Active(sock[j]), sock[i].role = sock[j].role
    PROVE  i = j
  BY DEF RelayInv, Slots

\* A message under way stays under way when the handlers that pass one do not move.
LEMMA StaysUnderway ==
    ASSUME NEW r \in Roles, Underway(r), slot' = slot, Sockets \subseteq Sockets',
           \A i \in Sockets : sock[i].role = Peer(r) /\ Passing(sock[i]) => 
              /\ sock'[i].role = sock[i].role /\ sock'[i].pc = sock[i].pc
              /\ sock'[i].out = sock[i].out /\ sock'[i].peer = sock[i].peer
    PROVE  Underway(r)'
  <1>1. PICK i \in Sockets : sock[i].role = Peer(r) /\ Passing(sock[i])
                             /\ (sock[i].pc = "send" => sock[i].peer = slot[r])
    BY DEF Underway
  <1>2. i \in Sockets' /\ sock'[i].role = Peer(r) /\ Passing(sock'[i])
        /\ (sock'[i].pc = "send" => sock'[i].peer = slot'[r])
    BY <1>1 DEF Passing
  <1> QED BY <1>2 DEF Underway, Passing

LEMMA SendKeeps ==
    ASSUME RelayInv, NEW s \in Sockets, Send(s)
    PROVE  RelayInv'
  <1> USE SocketFacts, PeerFacts DEF RelayInv
  <1> DEFINE h == sock[s]
             t == h.peer
             q == AfterSend(h)
  <1>1. h \in Handlers /\ h \in HandlerShapes /\ h.pc = "send" /\ h.role \in Roles
    BY ShapeFields DEF RelayType, Send
  <1>2. /\ q \in Handlers /\ q.role = h.role /\ q.chan = h.chan /\ q.replay = h.replay /\ q.last = h.last
        /\ q.pc \in {"replay", "leave", "loop"}
    BY <1>1, AfterSendFacts
  <1>3. slot' = slot /\ buffer' = buffer /\ session' = session
    BY DEF Send
  <1>4. /\ t \in Sockets /\ t # s /\ sock[t] \in Handlers /\ sock[t] \in HandlerShapes
        /\ sock[t].role = Peer(h.role) /\ sock[t].pc # "connect"
    BY <1>1 DEF Links, RelayType
  <1>5. h.out \in Messages /\ (h.out \in Resumable \/ h.out \notin Resumable)
    BY <1>1 DEF Handlers, Placed, Messages, Notices
  <1> DEFINE g == [sock[t] EXCEPT !.chan = Append(@, h.out)]
  <1>6. /\ g \in HandlerShapes /\ g.role = sock[t].role /\ g.pc = sock[t].pc /\ g.out = sock[t].out
        /\ g.peer = sock[t].peer /\ g.replay = sock[t].replay /\ g.last = sock[t].last
        /\ g.chan = Append(sock[t].chan, h.out)
    <2> DEFINE c == Append(sock[t].chan, h.out)
    <2>1. c \in Seq(Messages) /\ g = [sock[t] EXCEPT !.chan = c]
      BY <1>4, <1>5, ShapeFields
    <2> HIDE DEF c
    <2> QED BY <1>4, <2>1 DEF HandlerShapes, c
  <1>7. g \in Handlers
    <2> HIDE DEF g
    <2> QED BY <1>4, <1>6 DEF Handlers, Placed
  <1>8. /\ sock' \in Seq(Handlers) /\ Sockets' = Sockets /\ sock'[s] = q
        /\ \A i \in Sockets : i \notin {s, t} => sock'[i] = sock[i]
        /\ IF sock[t].pc = "done" THEN sock'[t] = sock[t] ELSE sock'[t] = g
    <2> HIDE DEF q
    <2>1. CASE sock[t].pc = "done"
      <3>1. Step(s, q)
        BY <2>1 DEF Send, q
      <3> QED BY <1>2, <1>4, <2>1, <3>1, StepFacts DEF RelayType
    <2>2. CASE sock[t].pc # "done"
      <3>1. sock' = [sock EXCEPT ![s] = q, ![t].chan = Append(@, h.out)]
        BY <2>2 DEF Send, q
      <3>2. sock' = [[sock EXCEPT ![s] = q] EXCEPT ![t] = g]
        BY <1>4, <3>1
      <3> HIDE DEF g
      <3> QED BY <1>2, <1>4, <1>7, <2>2, <3>2 DEF RelayType, Sockets
    <2> QED BY <2>1, <2>2
  <1> HIDE DEF q, g
  <1>9. RelayType' /\ Grown
    BY <1>3, <1>8 DEF RelayType, Grown
  <1>10. \A i \in Sockets : Moved(i) /\ (Passing(sock'[i]) => Passing(sock[i]) /\ sock'[i].out = sock[i].out)
    BY <1>1, <1>2, <1>4, <1>6, <1>8 DEF Moved, Active, Passing
  <1>11. Slots' /\ Links'
    BY <1>3, <1>9, <1>10, KeepsSlots
  <1>12. ASSUME NEW r \in Roles, slot[r] # 0
         PROVE  /\ buffer[r] # None /\ Holds(sock[slot[r]], buffer[r]) => Holds(sock'[slot[r]], buffer[r])
                /\ Underway(r) => Underway(r)' \/ Holds(sock'[slot[r]], buffer[r])
    <2>1. session # "gone" /\ slot[r] \in Sockets /\ sock[slot[r]].role = r /\ Active(sock[slot[r]])
      BY <1>12 DEF Slots
    <2>2. CASE sock[t].pc = "done"
      <3>1. slot[r] # t
        BY <2>1, <2>2 DEF Active
      <3>2. Holds(sock[slot[r]], buffer[r]) => Holds(sock'[slot[r]], buffer[r])
        BY <1>2, <1>8, <2>1, <3>1, HoldsSame DEF Latest
      <3>3. ASSUME Underway(r) PROVE Underway(r)'
        <4>1. PICK i \in Sockets : sock[i].role = Peer(r) /\ Passing(sock[i])
                                   /\ (sock[i].pc = "send" => sock[i].peer = slot[r])
          BY <3>3 DEF Underway
        <4>2. i # s /\ i # t
          BY <1>1, <2>2, <3>1, <4>1 DEF Passing
        <4>3. i \in Sockets' /\ sock'[i] = sock[i]
          BY <1>8, <4>2
        <4> QED BY <1>3, <4>1, <4>3 DEF Underway, Passing
      <3> QED BY <3>2, <3>3
    <2>3. CASE sock[t].pc # "done"
      <3>1. Active(sock[t]) /\ Active(sock[s])
        BY <1>1, <1>4, <2>3 DEF Active
      <3>2. CASE r = h.role
        <4>1. slot[r] = s
          BY <2>1, <3>1, <3>2 DEF Slots
        <4>2. Holds(sock[slot[r]], buffer[r]) => Holds(sock'[slot[r]], buffer[r])
          BY <1>2, <1>8, <4>1, HoldsSame DEF Latest
        <4>3. Underway(r) => Underway(r)'
          BY <1>1, <1>3, <1>6, <1>8, <2>3, <3>2, StaysUnderway
        <4> QED BY <4>2, <4>3
      <3>3. CASE r = Peer(h.role)
        <4>1. slot[r] = t
          BY <1>4, <2>1, <3>1, <3>3 DEF Slots
        <4>2. CASE h.out \in Resumable
          <5>1. buffer[r] = h.out
            BY <1>1, <2>1, <3>3, <4>2 DEF Buffered, Passing
          <5>2. Holds(g, h.out)
            BY <1>4, <1>6, <4>2, HoldsSent
          <5> QED BY <1>8, <2>3, <4>1, <5>1, <5>2
        <4>3. CASE h.out \notin Resumable
          <5>1. Holds(sock[t], buffer[r]) => Holds(g, buffer[r])
            BY <1>4, <1>5, <1>6, <4>3, HoldsNotice
          <5>2. ~Underway(r)
            <6> SUFFICES ASSUME NEW i \in Sockets, sock[i].role = Peer(r), Passing(sock[i])
                         PROVE  FALSE
              BY DEF Underway
            <6>1. i = s
              BY <1>1, <2>1, <3>1, <3>3, OneActive DEF Passing, Active
            <6> QED BY <4>3, <6>1 DEF Passing
          <5> QED BY <1>8, <2>3, <4>1, <5>1, <5>2
        <4> QED BY <4>2, <4>3
      <3> QED BY <1>1, <3>2, <3>3
    <2> QED BY <2>2, <2>3
  <1>13. Buffered' /\ Handed'
    BY <1>3, <1>9, <1>10, <1>12, KeepsHanded
  <1> QED BY <1>9, <1>11, <1>13

\* A step of one connected handler that passes no message on, before or after, and
\* goes on holding what it held for its role.
LEMMA TurnKeeps ==
    ASSUME RelayInv, NEW s \in Sockets, NEW q \in Handlers, Step(s, q),
           slot' = slot, buffer' = buffer, session' = session,
           q.role = sock[s].role, Active(sock[s]), Active(q), q.pc # "send",
           ~Passing(sock[s]), ~Passing(q),
           \A m \in Resumable : Holds(sock[s], m) => Holds(q, m)
    PROVE  RelayInv'
  <1> USE SocketFacts, PeerFacts DEF RelayInv
  <1>1. /\ sock' \in Seq(Handlers) /\ Sockets' = Sockets /\ sock'[s] = q
        /\ \A i \in Sockets : i # s => sock'[i] = sock[i]
    BY StepFacts DEF RelayType
  <1>2. RelayType' /\ Grown
    BY <1>1 DEF RelayType, Grown
  <1>3. \A i \in Sockets : Moved(i) /\ (Passing(sock'[i]) => Passing(sock[i]) /\ sock'[i].out = sock[i].out)
    BY <1>1 DEF Moved, Active
  <1>4. Slots' /\ Links'
    BY <1>2, <1>3, KeepsSlots
  <1>5. ASSUME NEW r \in Roles, slot[r] # 0
        PROVE  /\ buffer[r] # None /\ Holds(sock[slot[r]], buffer[r]) => Holds(sock'[slot[r]], buffer[r])
               /\ Underway(r) => Underway(r)'
    <2>1. slot[r] \in Sockets /\ (buffer[r] # None => buffer[r] \in Resumable)
      BY <1>5 DEF Slots, RelayType
    <2>2. buffer[r] # None /\ Holds(sock[slot[r]], buffer[r]) => Holds(sock'[slot[r]], buffer[r])
      BY <1>1, <2>1
    <2>3. Underway(r) => Underway(r)'
      BY <1>1, StaysUnderway
    <2> QED BY <2>2, <2>3
  <1>6. Buffered' /\ Handed'
    BY <1>2, <1>3, <1>5, KeepsHanded
  <1> QED BY <1>2, <1>4, <1>6

LEMMA ReplayKeeps ==
    ASSUME RelayInv, NEW s \in Sockets, Replay(s)
    PROVE  RelayInv'
  <1> DEFINE h == sock[s]
             w == Replayed(h)
             q == [w EXCEPT !.pc = "loop", !.replay = None]
  <1>1. h \in Handlers /\ h \in HandlerShapes /\ h.pc = "replay"
    BY SocketFacts DEF RelayInv, RelayType, Replay
  <1>2. h.replay \in Resumable \cup {None} /\ None \notin Resumable
    BY <1>1, ShapeFields DEF None, Resumable
  <1>3. /\ w \in HandlerShapes /\ w.role = h.role /\ w.chan = h.chan /\ w.last = Latest(h)
    <2>1. CASE h.replay = None
      BY <1>1, <2>1 DEF Replayed, Latest
    <2>2. CASE h.replay # None
      BY <1>1, <1>2, <2>2, WrittenFacts DEF Replayed, Latest, Messages
    <2> QED BY <2>1, <2>2
  <1>4. /\ q \in HandlerShapes /\ q.role = w.role /\ q.chan = w.chan /\ q.last = w.last
        /\ q.pc = "loop" /\ q.replay = None
    <2> HIDE DEF w
    <2> QED BY <1>3 DEF HandlerShapes, PCs
  <1>5. Step(s, q) /\ slot' = slot /\ buffer' = buffer /\ session' = session
    BY DEF Replay
  <1> HIDE DEF q, w
  <1>6. q \in Handlers
    BY <1>4 DEF Handlers, Placed
  <1>7. \A m : Holds(h, m) => Holds(q, m)
    BY <1>3, <1>4, HoldsSame DEF Latest
  <1> QED BY <1>1, <1>3, <1>4, <1>5, <1>6, <1>7, TurnKeeps DEF Active, Passing

LEMMA LeavingFacts ==
    ASSUME NEW h \in HandlerShapes, h.replay = None
    PROVE  LET g == Leaving(h) IN
           /\ g \in Handlers /\ g.pc = "lookup" /\ ~Passing(g)
           /\ g.role = h.role /\ g.chan = h.chan /\ g.replay = None /\ g.last = h.last
  <1> DEFINE g == Leaving(h)
  <1>1. /\ g \in HandlerShapes /\ g.pc = "lookup" /\ g.out = "peer_disconnected"
        /\ g.role = h.role /\ g.chan = h.chan /\ g.replay = h.replay /\ g.last = h.last
    BY DEF Leaving, HandlerShapes, PCs, Messages, Notices
  <1> HIDE DEF g
  <1>2. g \in Handlers /\ ~Passing(g)
    BY <1>1 DEF Handlers, Placed, Passing, Resumable
  <1> QED BY <1>1, <1>2 DEF g

LEMMA RecvPeerKeeps ==
    ASSUME RelayInv, NEW s \in Sockets, RecvPeer(s)
    PROVE  RelayInv'
  <1> DEFINE h == sock[s]
             w == Written(h, Head(h.chan))
             g == [w EXCEPT !.chan = Tail(@)]
  <1>1. h \in Handlers /\ h \in HandlerShapes /\ h.pc = "loop" /\ h.chan # <<>> /\ h.replay = None
    BY SocketFacts DEF RelayInv, RelayType, RecvPeer, Handlers, Placed
  <1>2. h.chan \in Seq(Messages) /\ Head(h.chan) \in Messages /\ Tail(h.chan) \in Seq(Messages)
    BY <1>1, ShapeFields
  <1>3. /\ w \in HandlerShapes /\ w.role = h.role /\ w.pc = h.pc /\ w.chan = h.chan /\ w.replay = h.replay
        /\ w.last = IF Head(h.chan) \in Resumable THEN Head(h.chan) ELSE h.last
    BY <1>1, <1>2, WrittenFacts
  <1>4. /\ g \in HandlerShapes /\ g.role = h.role /\ g.pc = "loop" /\ g.chan = Tail(h.chan)
        /\ g.replay = None /\ g.last = w.last
    <2> HIDE DEF w
    <2>1. g = [w EXCEPT !.chan = Tail(h.chan)]
      BY <1>3
    <2> QED BY <1>1, <1>2, <1>3, <2>1 DEF HandlerShapes
  <1>5. slot' = slot /\ buffer' = buffer /\ session' = session /\ (Step(s, g) \/ Step(s, Leaving(g)))
    BY DEF RecvPeer
  <1> HIDE DEF g, w
  <1>6. \A m \in Resumable : Holds(h, m) => Holds(g, m)
    BY <1>1, <1>3, <1>4, HoldsReceived
  <1>7. CASE Step(s, g)
    <2>1. g \in Handlers
      BY <1>4 DEF Handlers, Placed
    <2> QED BY <1>1, <1>4, <1>5, <1>6, <1>7, <2>1, TurnKeeps DEF Active, Passing
  <1>8. CASE Step(s, Leaving(g))
    <2> DEFINE q == Leaving(g)
    <2>1. /\ q \in Handlers /\ q.pc = "lookup" /\ ~Passing(q)
          /\ q.role = g.role /\ q.chan = g.chan /\ q.replay = g.replay /\ q.last = g.last
      BY <1>4, LeavingFacts
    <2>2. Step(s, q)
      BY <1>8
    <2> HIDE DEF q
    <2>3. \A m \in Resumable : Holds(h, m) => Holds(q, m)
      BY <1>6, <2>1, HoldsSame DEF Latest
    <2> QED BY <1>1, <1>4, <1>5, <2>1, <2>2, <2>3, TurnKeeps DEF Active, Passing
  <1> QED BY <1>5, <1>7, <1>8

LEMMA HangUpKeeps ==
    ASSUME RelayInv, NEW s \in Sockets, HangUp(s)
    PROVE  RelayInv'
  <1> DEFINE h == sock[s]
             q == Leaving(h)
  <1>1. h \in Handlers /\ h \in HandlerShapes /\ h.pc = "loop" /\ h.replay = None
    BY SocketFacts DEF RelayInv, RelayType, HangUp, Handlers, Placed
  <1>2. /\ q \in Handlers /\ q.pc = "lookup" /\ ~Passing(q)
        /\ q.role = h.role /\ q.chan = h.chan /\ q.replay = h.replay /\ q.last = h.last
    BY <1>1, LeavingFacts
  <1>3. Step(s, q) /\ slot' = slot /\ buffer' = buffer /\ session' = session
    BY DEF HangUp
  <1> HIDE DEF q
  <1>4. \A m : Holds(h, m) => Holds(q, m)
    BY <1>2, HoldsSame DEF Latest
  <1> QED BY <1>1, <1>2, <1>3, <1>4, TurnKeeps DEF Active, Passing

LEMMA RecvClientKeeps ==
    ASSUME RelayInv, NEW s \in Sockets, RecvClient(s)
    PROVE  RelayInv'
  <1> USE SocketFacts, PeerFacts DEF RelayInv
  <1> DEFINE h == sock[s]
             m == Head(h.up)
             p == Peer(h.role)
             q == [h EXCEPT !.pc = "lookup", !.out = m, !.up = Tail(@)]
  <1>1. h \in Handlers /\ h \in HandlerShapes /\ h.pc = "loop" /\ h.replay = None /\ h.role \in Roles
    BY ShapeFields DEF RelayType, RecvClient, Handlers, Placed
  <1>2. m \in Resumable /\ m \in Messages /\ Tail(h.up) \in Seq(Resumable) /\ m # None
    <2>1. h.up \in Seq(Resumable) /\ h.up # <<>>
      BY <1>1, ShapeFields DEF RecvClient
    <2> QED BY <2>1 DEF Messages, Resumable, None
  <1>3. /\ q \in HandlerShapes /\ q.role = h.role /\ q.chan = h.chan /\ q.replay = None /\ q.last = h.last
        /\ q.pc = "lookup" /\ q.out = m
    <2>1. q = [h EXCEPT !.pc = "lookup", !.out = m, !.up = Tail(h.up)]
      BY <1>1
    <2> HIDE DEF m
    <2> QED BY <1>1, <1>2, <2>1 DEF HandlerShapes, PCs
  <1>4. Step(s, q) /\ slot' = slot /\ session' = session /\ buffer' = Stored(h.role, m)
    BY DEF RecvClient
  <1> HIDE DEF q, m
  <1>5. q \in Handlers
    BY <1>2, <1>3 DEF Handlers, Placed
  <1>6. /\ sock' \in Seq(Handlers) /\ Sockets' = Sockets /\ sock'[s] = q
        /\ \A i \in Sockets : i # s => sock'[i] = sock[i]
    BY <1>4, <1>5, StepFacts DEF RelayType
  <1>7. /\ buffer' \in [Roles -> Resumable \cup {None}] /\ buffer'[h.role] = buffer[h.role]
        /\ IF session = "gone" THEN buffer' = buffer ELSE buffer'[p] = m
    BY <1>1, <1>2, <1>4 DEF Stored, RelayType
  <1>8. RelayType' /\ Grown
    BY <1>4, <1>6, <1>7 DEF RelayType, Grown
  <1>9. \A i \in Sockets : Moved(i)
    BY <1>1, <1>3, <1>6 DEF Moved, Active
  <1>10. Slots' /\ Links'
    BY <1>4, <1>7, <1>8, <1>9, KeepsSlots
  <1>11. Buffered'
    <2> SUFFICES ASSUME session # "gone", NEW i \in Sockets, Passing(sock'[i])
                 PROVE  buffer'[Peer(sock'[i].role)] = sock'[i].out
      BY <1>4, <1>6 DEF Buffered, Passing
    <2>1. CASE i = s
      BY <1>3, <1>6, <1>7, <2>1
    <2>2. CASE i # s
      <3>1. sock'[i] = sock[i] /\ Passing(sock[i]) /\ sock[i].role \in Roles
        BY <1>6, <2>2, ShapeFields DEF RelayType
      <3>2. sock[i].role # h.role
        BY <1>1, <2>2, <3>1, OneActive DEF Active, Passing
      <3>3. Peer(sock[i].role) = h.role
        BY <1>1, <3>1, <3>2
      <3> QED BY <1>7, <3>1, <3>3 DEF Buffered
    <2> QED BY <2>1, <2>2
  <1>12. ASSUME NEW r \in Roles, slot'[r] # 0, buffer'[r] # None
         PROVE  Underway(r)' \/ Holds(sock'[slot'[r]], buffer'[r])
    <2>1. slot[r] # 0 /\ slot[r] \in Sockets /\ session # "gone"
      BY <1>4, <1>12 DEF Slots
    <2>2. CASE r = p
      <3>1. s \in Sockets' /\ sock'[s].role = Peer(r) /\ Passing(sock'[s]) /\ sock'[s].pc = "lookup"
        BY <1>1, <1>2, <1>3, <1>6, <2>2 DEF Passing
      <3> QED BY <3>1 DEF Underway, Passing
    <2>3. CASE r = h.role
      <3>1. Underway(r) => Underway(r)'
        BY <1>1, <1>4, <1>6, StaysUnderway DEF Passing
      <3>2. Holds(sock[slot[r]], buffer[r]) => Holds(sock'[slot[r]], buffer[r])
        BY <1>1, <1>3, <1>6, <2>1, HoldsSame DEF Latest
      <3>3. Underway(r) \/ Holds(sock[slot[r]], buffer[r])
        BY <1>7, <1>12, <2>1, <2>3 DEF Handed
      <3> QED BY <1>4, <1>7, <2>3, <3>1, <3>2, <3>3
    <2> QED BY <1>1, <2>2, <2>3
  <1>13. Handed'
    BY <1>12 DEF Handed, Holds, LastIn, Silent, Latest
  <1> QED BY <1>8, <1>10, <1>11, <1>13

\* A handler that takes its role's slot has the buffered message to replay.
LEMMA JoinKeeps ==
    ASSUME RelayInv, NEW s \in Sockets, NEW q \in Handlers, Step(s, q), sock[s].pc = "connect",
           session = "open", slot[sock[s].role] = 0, slot' = [slot EXCEPT ![sock[s].role] = s],
           buffer' = buffer, session' = session,
           q.role = sock[s].role, q.chan = <<>>, q.replay = buffer[q.role],
           q.pc = "replay" \/ (q.pc = "lookup" /\ q.out = "session_ready")
    PROVE  RelayInv'
  <1> USE SocketFacts, PeerFacts DEF RelayInv
  <1> DEFINE h == sock[s]
             p == Peer(h.role)
  <1>1. h \in Handlers /\ h \in HandlerShapes /\ h.role \in Roles /\ s \in Nat \ {0}
    BY ShapeFields DEF RelayType
  <1>2. /\ sock' \in Seq(Handlers) /\ Sockets' = Sockets /\ sock'[s] = q
        /\ \A i \in Sockets : i # s => sock'[i] = sock[i]
    BY StepFacts DEF RelayType
  <1>3. slot' \in [Roles -> Nat] /\ slot'[h.role] = s /\ slot'[p] = slot[p]
    BY <1>1 DEF RelayType
  <1>4. RelayType'
    BY <1>2, <1>3 DEF RelayType
  <1>5. Active(q) /\ ~Active(h) /\ ~Passing(q) /\ ~Passing(h)
    BY DEF Active, Passing, Resumable
  <1>6. slot[p] # s
    BY <1>1, <1>5 DEF Slots
  <1>7. Slots'
    <2>1. session' # "gone"
      OBVIOUS
    <2>2. ASSUME NEW r \in Roles, slot'[r] # 0
          PROVE  slot'[r] \in Sockets' /\ sock'[slot'[r]].role = r /\ Active(sock'[slot'[r]])
      <3>1. CASE r = h.role
        BY <1>2, <1>3, <1>5, <3>1
      <3>2. CASE r = p
        BY <1>1, <1>2, <1>3, <1>6, <2>2, <3>2 DEF Slots
      <3> QED BY <1>1, <3>1, <3>2
    <2>3. ASSUME NEW i \in Sockets', Active(sock'[i]) PROVE slot'[sock'[i].role] = i
      <3>1. CASE i = s
        BY <1>2, <1>3, <3>1
      <3>2. CASE i # s
        <4>1. sock'[i] = sock[i] /\ sock[i].role \in Roles /\ slot[sock[i].role] = i /\ i # 0
          BY <1>2, <2>3, <3>2, ShapeFields DEF Slots, RelayType
        <4>2. sock[i].role = p
          BY <1>1, <4>1
        <4> QED BY <1>3, <4>1, <4>2
      <3> QED BY <3>1, <3>2
    <2> QED BY <2>1, <2>2, <2>3 DEF Slots, Active
  <1>8. Links'
    <2> SUFFICES ASSUME NEW i \in Sockets', sock'[i].pc = "send"
                 PROVE  /\ sock'[i].peer \in Sockets'
                        /\ sock'[sock'[i].peer].role = Peer(sock'[i].role)
                        /\ sock'[sock'[i].peer].pc # "connect"
      BY DEF Links
    <2> QED BY <1>2 DEF Links
  <1>9. Buffered'
    <2> SUFFICES ASSUME NEW i \in Sockets', Passing(sock'[i])
                 PROVE  buffer'[Peer(sock'[i].role)] = sock'[i].out
      BY DEF Buffered, Passing
    <2> QED BY <1>2, <1>5 DEF Buffered
  <1>10. ASSUME NEW r \in Roles, slot'[r] # 0, buffer'[r] # None
         PROVE  Underway(r)' \/ Holds(sock'[slot'[r]], buffer'[r])
    <2>1. CASE r = h.role
      <3>1. Silent(q.chan) /\ Latest(q) = buffer[r]
        BY <1>10, <2>1 DEF Silent, Latest
      <3> QED BY <1>2, <1>3, <2>1, <3>1 DEF Holds
    <2>2. CASE r = p
      <3>1. slot[r] # 0 /\ slot[r] \in Sockets /\ slot[r] # s /\ slot'[r] = slot[r]
        BY <1>1, <1>3, <1>6, <1>10, <2>2 DEF Slots
      <3>2. Holds(sock[slot[r]], buffer[r]) => Holds(sock'[slot[r]], buffer[r])
        BY <1>2, <3>1
      <3>3. ASSUME Underway(r) PROVE Underway(r)'
        <4>1. PICK i \in Sockets : sock[i].role = Peer(r) /\ Passing(sock[i])
                                   /\ (sock[i].pc = "send" => sock[i].peer = slot[r])
          BY <3>3 DEF Underway
        <4>2. i \in Sockets' /\ sock'[i] = sock[i]
          BY <1>2, <1>5, <4>1
        <4> QED BY <3>1, <4>1, <4>2 DEF Underway, Passing
      <3> QED BY <1>10, <3>1, <3>2, <3>3 DEF Handed
    <2> QED BY <1>1, <2>1, <2>2
  <1>11. Handed'
    BY <1>10 DEF Handed, Holds, LastIn, Silent, Latest
  <1> QED BY <1>4, <1>7, <1>8, <1>9, <1>11

LEMMA ConnectKeeps ==
    ASSUME RelayInv, NEW s \in Sockets, Connect(s)
    PROVE  RelayInv'
  <1> USE SocketFacts, PeerFacts DEF RelayInv
  <1> DEFINE h == sock[s]
             b == buffer[h.role]
  <1>1. h \in Handlers /\ h \in HandlerShapes /\ h.pc = "connect" /\ h.role \in Roles /\ h.chan = <<>>
        /\ b \in Resumable \cup {None}
    BY ShapeFields DEF RelayType, Connect, Handlers, Placed
  <1>2. buffer' = buffer /\ session' = session
    BY DEF Connect
  <1>3. CASE Refusal(h.role) # None
    <2> DEFINE q == Finished(Written(h, Refusal(h.role)))
    <2>1. Refusal(h.role) \in Messages
      BY <1>3 DEF Refusal, Messages, Notices
    <2>2. q \in Handlers /\ q.role = h.role /\ q.pc = "done"
      BY <1>1, <2>1, WrittenFacts, FinishedFacts
    <2>3. Step(s, q) /\ slot' = slot
      BY <1>3 DEF Connect
    <2> HIDE DEF q
    <2>4. /\ sock' \in Seq(Handlers) /\ Sockets' = Sockets /\ sock'[s] = q
          /\ \A i \in Sockets : i # s => sock'[i] = sock[i]
      BY <2>2, <2>3, StepFacts DEF RelayType
    <2>5. RelayType' /\ Grown
      BY <1>2, <2>3, <2>4 DEF RelayType, Grown
    <2>6. \A i \in Sockets : Moved(i) /\ (Passing(sock'[i]) => Passing(sock[i]) /\ sock'[i].out = sock[i].out)
      BY <1>1, <2>2, <2>4 DEF Moved, Active, Passing
    <2>7. Slots' /\ Links'
      BY <1>2, <2>3, <2>5, <2>6, KeepsSlots
    <2>8. ASSUME NEW r \in Roles, slot[r] # 0
          PROVE  /\ Holds(sock[slot[r]], buffer[r]) => Holds(sock'[slot[r]], buffer[r])
                 /\ Underway(r) => Underway(r)'
      <3>1. slot[r] \in Sockets /\ slot[r] # s
        BY <1>1, <2>8 DEF Slots, Active
      <3>2. Underway(r) => Underway(r)'
        BY <1>1, <2>3, <2>4, StaysUnderway DEF Passing
      <3> QED BY <2>4, <3>1, <3>2
    <2>9. Buffered' /\ Handed'
      BY <1>2, <2>3, <2>5, <2>6, <2>8, KeepsHanded
    <2> QED BY <2>5, <2>7, <2>9
  <1>4. CASE Refusal(h.role) = None
    <2> DEFINE q1 == [h EXCEPT !.pc = "lookup", !.out = "session_ready", !.replay = b]
               q2 == [h EXCEPT !.pc = "replay", !.replay = b]
    <2>1. session = "open" /\ slot[h.role] = 0 /\ slot' = [slot EXCEPT ![h.role] = s]
          /\ (Step(s, q1) \/ Step(s, q2))
      BY <1>4 DEF Connect, Refusal, None
    <2>2. /\ q1 \in HandlerShapes /\ q1.role = h.role /\ q1.chan = <<>> /\ q1.replay = b
          /\ q1.pc = "lookup" /\ q1.out = "session_ready"
      <3> HIDE DEF b
      <3> QED BY <1>1 DEF HandlerShapes, PCs, Messages, Notices
    <2>3. /\ q2 \in HandlerShapes /\ q2.role = h.role /\ q2.chan = <<>> /\ q2.replay = b /\ q2.pc = "replay"
      <3> HIDE DEF b
      <3> QED BY <1>1 DEF HandlerShapes, PCs
    <2> HIDE DEF q1, q2
    <2>4. q1 \in Handlers /\ q2 \in Handlers
      BY <2>2, <2>3 DEF Handlers, Placed
    <2>5. CASE Step(s, q1)
      BY <1>1, <1>2, <2>1, <2>2, <2>4, <2>5, JoinKeeps
    <2>6. CASE Step(s, q2)
      BY <1>1, <1>2, <2>1, <2>3, <2>4, <2>6, JoinKeeps
    <2> QED BY <2>1, <2>5, <2>6
  <1> QED BY <1>3, <1>4

LEMMA LeaveKeeps ==
    ASSUME RelayInv, NEW s \in Sockets, Leave(s)
    PROVE  RelayInv'
  <1> USE SocketFacts, PeerFacts DEF RelayInv
  <1> DEFINE h == sock[s]
             p == Peer(h.role)
             q == Finished(h)
  <1>1. h \in Handlers /\ h \in HandlerShapes /\ h.pc = "leave" /\ h.role \in Roles
    BY ShapeFields DEF RelayType, Leave
  <1>2. q \in Handlers /\ q.role = h.role /\ q.pc = "done"
    BY <1>1, FinishedFacts
  <1>3. Step(s, q) /\ buffer' = buffer /\ session' = session /\ slot' = [slot EXCEPT ![h.role] = 0]
    BY DEF Leave
  <1> HIDE DEF q
  <1>4. /\ sock' \in Seq(Handlers) /\ Sockets' = Sockets /\ sock'[s] = q
        /\ \A i \in Sockets : i # s => sock'[i] = sock[i]
    BY <1>2, <1>3, StepFacts DEF RelayType
  <1>5. slot' \in [Roles -> Nat] /\ slot'[h.role] = 0 /\ slot'[p] = slot[p]
    BY <1>1, <1>3 DEF RelayType
  <1>6. RelayType'
    BY <1>3, <1>4, <1>5 DEF RelayType
  <1>7. slot[p] # 0 => slot[p] \in Sockets /\ slot[p] # s
    BY <1>1 DEF Slots
  <1>8. Slots'
    <2>1. session' = "gone" => \A r \in Roles : slot'[r] = 0 /\ buffer'[r] = None
      BY <1>1, <1>3, <1>5 DEF Slots
    <2>2. ASSUME NEW r \in Roles, slot'[r] # 0
          PROVE  slot'[r] \in Sockets' /\ sock'[slot'[r]].role = r /\ Active(sock'[slot'[r]])
      <3>1. r = p
        BY <1>1, <1>5, <2>2
      <3> QED BY <1>1, <1>4, <1>5, <1>7, <2>2, <3>1 DEF Slots
    <2>3. ASSUME session' # "gone", NEW i \in Sockets', Active(sock'[i]) PROVE slot'[sock'[i].role] = i
      <3>1. i # s /\ sock'[i] = sock[i] /\ sock[i].role \in Roles
        BY <1>2, <1>4, <2>3, ShapeFields DEF Active, RelayType
      <3>2. sock[i].role # h.role
        BY <1>1, <1>3, <1>4, <2>3, <3>1, OneActive DEF Active
      <3>3. sock[i].role = p
        BY <1>1, <3>1, <3>2
      <3> QED BY <1>3, <1>4, <1>5, <2>3, <3>1, <3>3 DEF Slots
    <2> QED BY <2>1, <2>2, <2>3 DEF Slots, Active
  <1>9. Links'
    <2> SUFFICES ASSUME NEW i \in Sockets', sock'[i].pc = "send"
                 PROVE  /\ sock'[i].peer \in Sockets'
                        /\ sock'[sock'[i].peer].role = Peer(sock'[i].role)
                        /\ sock'[sock'[i].peer].pc # "connect"
      BY DEF Links
    <2> QED BY <1>1, <1>2, <1>4 DEF Links
  <1>10. Buffered'
    <2> SUFFICES ASSUME session' # "gone", NEW i \in Sockets', Passing(sock'[i])
                 PROVE  buffer'[Peer(sock'[i].role)] = sock'[i].out
      BY DEF Buffered, Passing
    <2> QED BY <1>2, <1>3, <1>4 DEF Buffered, Passing
  <1>11. ASSUME NEW r \in Roles, slot'[r] # 0, buffer'[r] # None
         PROVE  Underway(r)' \/ Holds(sock'[slot'[r]], buffer'[r])
    <2>1. r = p /\ slot'[r] = slot[r]
      BY <1>1, <1>5, <1>11
    <2>2. Holds(sock[slot[r]], buffer[r]) => Holds(sock'[slot[r]], buffer[r])
      BY <1>4, <1>7, <1>11, <2>1
    <2>3. ASSUME Underway(r) PROVE Underway(r)'
      <3>1. PICK i \in Sockets : sock[i].role = Peer(r) /\ Passing(sock[i])
                                 /\ (sock[i].pc = "send" => sock[i].peer = slot[r])
        BY <2>3 DEF Underway
      <3>2. i \in Sockets' /\ sock'[i] = sock[i]
        BY <1>1, <1>4, <3>1 DEF Passing
      <3> QED BY <2>1, <3>1, <3>2 DEF Underway, Passing
    <2> QED BY <1>3, <1>11, <2>1, <2>2, <2>3 DEF Handed
  <1>12. Handed'
    BY <1>11 DEF Handed, Holds, LastIn, Silent, Latest
  <1> QED BY <1>6, <1>8, <1>9, <1>10, <1>12

LEMMA HandlerKeeps ==
    ASSUME RelayInv, NEW s \in Sockets, Handler(s)
    PROVE  RelayInv'
  BY ConnectKeeps, LookupKeeps, SendKeeps, ReplayKeeps, RecvClientKeeps, RecvPeerKeeps, HangUpKeeps,
     LeaveKeeps DEF Handler

LEMMA ExpireKeeps ==
    ASSUME RelayInv, Expire
    PROVE  RelayInv'
  <1>1. session' # "gone" /\ session # "gone" /\ slot' = slot /\ buffer' = buffer /\ sock' = sock
        /\ Sockets' = Sockets /\ session' = "expired"
    BY DEF Expire, Sockets
  <1>2. RelayType'
    BY <1>1 DEF RelayInv, RelayType
  <1>3. Slots' /\ Links' /\ Buffered'
    BY <1>1 DEF RelayInv, Slots, Links, Buffered, Active, Passing
  <1>4. Handed'
    BY <1>1 DEF RelayInv, Handed, Underway, Passing, Holds, LastIn, Silent, Latest
  <1> QED BY <1>2, <1>3, <1>4 DEF RelayInv

LEMMA RemovedKeeps ==
    ASSUME RelayInv, Removed, sock' = sock
    PROVE  RelayInv'
  <1>1. session' = "gone" /\ \A r \in Roles : slot'[r] = 0 /\ buffer'[r] = None
    BY DEF Removed
  <1>2. RelayType' /\ Sockets' = Sockets
    BY DEF RelayInv, RelayType, Removed, Sockets
  <1>3. Slots' /\ Links' /\ Buffered' /\ Handed'
    BY <1>1, <1>2 DEF RelayInv, Slots, Links, Buffered, Handed
  <1> QED BY <1>2, <1>3 DEF RelayInv
-----------------------------------------------------------------------------
(* The apps.                                                               *)

\* The messages that may be about: a response once the holder has completed, a
\* denial once the holder has denied.
Told ==
    {m \in Messages : /\ m = "response" => holder.state = "complete"
                      /\ m = "consent_denied" => holder.state = "denied"}

\* Every message in the hands of a handler, or on its connection, is one of S.
Carries(h, S) ==
    /\ h.up \in Seq(S) /\ h.chan \in Seq(S) /\ h.down \in Seq(S)
    /\ h.out \in S \cup {None} /\ h.replay \in S \cup {None}

AllTold ==
    /\ \A s \in Sockets : Carries(sock[s], Told)
    /\ \A r \in Roles : buffer[r] \in Told \cup {None}

PostStates == {"sent", "valid", "invalid", "accepted", "over"}

\* Both apps hold sockets that were opened; a holder that has completed or denied
\* has closed its socket for good.
AppsOK ==
    /\ DOMAIN holder = {"state", "sock", "seen", "proving"} /\ holder.sock \in {0} \cup Sockets
    /\ DOMAIN verifier = {"step", "sock", "sent", "verdict"} /\ verifier.sock \in {0} \cup Sockets
    /\ holder.state \in {"complete", "denied"} => holder.sock = 0 /\ holder.proving = FALSE
    /\ posts \in Seq(PostStates)

FlowInv ==
    /\ RelayInv /\ AppsOK /\ AllTold
    /\ posts # <<>> => holder.state = "complete"
    /\ VerdictFromHolder
    /\ Accepted # {} => session = "gone"
    /\ NonceOnce

LEMMA CarriesMore ==
    ASSUME NEW h, NEW S, NEW T, S \subseteq T, Carries(h, S)
    PROVE  Carries(h, T)
  BY DEF Carries

\* Sockets K that differ from sock in what the apps and the network do only.
Apart(K, S) ==
    /\ K \in Seq(Handlers) /\ DOMAIN K = Sockets
    /\ \A i \in Sockets : SameInside(K[i], sock[i]) /\ Carries(K[i], S)

LEMMA ApartAt ==
    ASSUME sock \in Seq(Handlers), NEW S, NEW K, Apart(K, S), NEW s \in Sockets, NEW g \in HandlerShapes,
           SameInside(g, K[s]), Carries(g, S)
    PROVE  Apart([K EXCEPT ![s] = g], S)
  <1>1. K[s] \in Handlers /\ s \in DOMAIN K
    BY DEF Apart
  <1>2. g \in Handlers
    BY <1>1, SameInsidePlaced
  <1>3. SameInside(g, sock[s])
    BY DEF Apart, SameInside
  <1>4. [K EXCEPT ![s] = g] \in Seq(Handlers) /\ DOMAIN [K EXCEPT ![s] = g] = Sockets
    BY <1>1, <1>2 DEF Apart
  <1> QED BY <1>1, <1>3, <1>4 DEF Apart

LEMMA ApartSame ==
    ASSUME sock \in Seq(Handlers), NEW S, \A i \in Sockets : Carries(sock[i], S)
    PROVE  Apart(sock, S)
  BY DEF Apart, SameInside, Sockets

LEMMA SentApart ==
    ASSUME sock \in Seq(Handlers), NEW S, \A i \in Sockets : Carries(sock[i], S),
           NEW s, s = 0 \/ s \in Sockets, NEW m \in Resumable, m \in S
    PROVE  Apart(Sent(s, m), S)
  <1>1. CASE s # 0 /\ Sent(s, m) = [sock EXCEPT ![s].up = Append(@, m)]
    <2> DEFINE u == Append(sock[s].up, m)
               g == [sock[s] EXCEPT !.up = u]
    <2>1. s \in Sockets /\ sock[s] \in HandlerShapes /\ sock[s].up \in Seq(Resumable) /\ sock[s].up \in Seq(S)
      BY <1>1, SocketFacts, ShapeFields DEF Carries
    <2>2. u \in Seq(Resumable) /\ u \in Seq(S)
      BY <2>1
    <2> HIDE DEF u
    <2>3. g \in HandlerShapes /\ SameInside(g, sock[s]) /\ g.up = u /\ g.down = sock[s].down
      BY <2>1, <2>2 DEF HandlerShapes, SameInside
    <2>4. Sent(s, m) = [sock EXCEPT ![s] = g]
      BY <1>1, <2>1 DEF u
    <2> HIDE DEF g
    <2>5. Carries(g, S)
      BY <2>1, <2>2, <2>3 DEF Carries, SameInside
    <2>6. Apart([sock EXCEPT ![s] = g], S)
      BY <2>1, <2>3, <2>5, ApartSame, ApartAt
    <2> QED BY <2>4, <2>6
  <1>2. CASE Sent(s, m) = sock
    BY <1>2, ApartSame
  <1> QED BY <1>1, <1>2 DEF Sent, IsOpen

LEMMA ShutApart ==
    ASSUME sock \in Seq(Handlers), NEW S, NEW K, Apart(K, S), NEW s, s = 0 \/ s \in Sockets
    PROVE  Apart(Shut(K, s), S)
  <1>1. CASE s = 0
    BY <1>1 DEF Shut
  <1>2. CASE s # 0
    <2> DEFINE a == "closed"
               b == <<>>
               g == [K[s] EXCEPT !.client = a, !.down = b]
    <2>1. s \in Sockets /\ K[s] \in HandlerShapes /\ s \in DOMAIN K /\ Carries(K[s], S)
      BY <1>2, SocketFacts DEF Apart, Handlers
    <2>2. a \in {"open", "closed"} /\ b \in Seq(Messages) /\ b \in Seq(S)
      OBVIOUS
    <2>3. Shut(K, s) = [K EXCEPT ![s] = g]
      BY <1>2, <2>1 DEF Shut
    <2> HIDE DEF a, b
    <2>4. g \in HandlerShapes /\ SameInside(g, K[s]) /\ g.up = K[s].up /\ g.down = b
      BY <2>1, <2>2 DEF HandlerShapes, SameInside
    <2> HIDE DEF g
    <2>5. Carries(g, S)
      BY <2>1, <2>2, <2>4 DEF Carries, SameInside
    <2>6. Apart([K EXCEPT ![s] = g], S)
      BY <2>1, <2>4, <2>5, ApartAt
    <2> QED BY <2>3, <2>6
  <1> QED BY <1>1, <1>2

LEMMA TakenApart ==
    ASSUME sock \in Seq(Handlers), NEW S, NEW K, Apart(K, S), NEW s \in Sockets, K[s].down # <<>>
    PROVE  Apart([K EXCEPT ![s].down = Tail(@)], S)
  <1> DEFINE d == Tail(K[s].down)
             g == [K[s] EXCEPT !.down = d]
  <1>1. K[s] \in HandlerShapes /\ s \in DOMAIN K /\ Carries(K[s], S)
    BY DEF Apart, Handlers
  <1>2. d \in Seq(Messages) /\ d \in Seq(S)
    <2>1. K[s].down \in Seq(Messages) /\ K[s].down \in Seq(S)
      BY <1>1, ShapeFields DEF Carries
    <2> QED BY <2>1
  <1>3. [K EXCEPT ![s].down = Tail(@)] = [K EXCEPT ![s] = g]
    BY <1>1
  <1> HIDE DEF d
  <1>4. g \in HandlerShapes /\ SameInside(g, K[s]) /\ g.up = K[s].up /\ g.down = d
    BY <1>1, <1>2 DEF HandlerShapes, SameInside
  <1> HIDE DEF g
  <1>5. Carries(g, S)
    BY <1>1, <1>2, <1>4 DEF Carries, SameInside
  <1> QED BY <1>1, <1>3, <1>4, <1>5, ApartAt

\* What the relay's invariant needs of a step of the apps.
LEMMA ApartKeeps ==
    ASSUME RelayInv, NEW S, Apart(sock', S), slot' = slot, buffer' = buffer, session' = session
    PROVE  /\ RelayInv' /\ Sockets' = Sockets /\ \A i \in Sockets' : Carries(sock'[i], S)
  <1>1. sock \in Seq(Handlers) /\ sock' \in Seq(Handlers) /\ Sockets' = Sockets
    BY DEF RelayInv, RelayType, Apart, Sockets
  <1>2. Outside
    BY <1>1 DEF Outside, Apart, Grown
  <1> QED BY <1>1, <1>2, OutsideKeeps, SocketFacts DEF Apart, Sockets

LEMMA NewSocketKeeps ==
    ASSUME RelayInv, NEW S, \A i \in Sockets : Carries(sock[i], S), NEW r \in Roles,
           sock' = Append(sock, New(r)), slot' = slot, buffer' = buffer, session' = session
    PROVE  /\ RelayInv' /\ Sockets' = Sockets \cup {Len(sock) + 1} /\ \A i \in Sockets' : Carries(sock'[i], S)
  <1> DEFINE g == New(r)
  <1>1. g \in HandlerShapes /\ g.pc = "connect" /\ g.chan = <<>>
    BY DEF New, HandlerShapes, PCs
  <1>2. Carries(g, S)
    BY DEF New, Carries
  <1>3. sock' = Append(sock, g)
    OBVIOUS
  <1> HIDE DEF g
  <1>4. g \in Handlers
    BY <1>1 DEF Handlers, Placed
  <1>5. sock \in Seq(Handlers)
    BY DEF RelayInv, RelayType
  <1>6. /\ sock' \in Seq(Handlers) /\ Len(sock') = Len(sock) + 1 /\ sock'[Len(sock) + 1] = g
        /\ Sockets' = Sockets \cup {Len(sock) + 1} /\ \A i \in Sockets : sock'[i] = sock[i]
    BY <1>3, <1>4, <1>5 DEF Sockets
  <1>7. Outside
    BY <1>1, <1>6 DEF Outside, Grown, SameInside
  <1> QED BY <1>2, <1>6, <1>7, OutsideKeeps
-----------------------------------------------------------------------------
(* The relay makes up no message.                                          *)

LEMMA CarriesWritten ==
    ASSUME NEW h \in HandlerShapes, NEW S, Carries(h, S), NEW m, m \in S
    PROVE  Carries(Written(h, m), S)
  <1> DEFINE d == IF Reachable(h) THEN Append(h.down, m) ELSE h.down
             l == IF m \in Resumable THEN m ELSE h.last
             g == [h EXCEPT !.down = d, !.last = l]
  <1>1. d \in Seq(S)
    BY DEF Carries
  <1>2. Written(h, m) = g
    BY DEF Written
  <1> HIDE DEF d, l
  <1>3. g.up = h.up /\ g.chan = h.chan /\ g.down = d /\ g.out = h.out /\ g.replay = h.replay
    BY DEF HandlerShapes
  <1> QED BY <1>1, <1>2, <1>3 DEF Carries

LEMMA CarriesFinished ==
    ASSUME NEW h \in HandlerShapes, NEW S, Carries(h, S)
    PROVE  Carries(Finished(h), S)
  <1> DEFINE g == Finished(h)
  <1>1. g.up = <<>> /\ g.chan = <<>> /\ g.down = h.down /\ g.out = None /\ g.replay = h.replay
    BY DEF Finished, HandlerShapes
  <1> HIDE DEF g
  <1>2. Carries(g, S)
    BY <1>1 DEF Carries
  <1> QED BY <1>2 DEF g

LEMMA CarriesAfterSend ==
    ASSUME NEW h \in HandlerShapes, NEW S, Carries(h, S), "session_ready" \in S
    PROVE  Carries(AfterSend(h), S)
  <1> DEFINE e == [h EXCEPT !.out = None, !.peer = 0]
             w == Written(e, "session_ready")
  <1>1. /\ e \in HandlerShapes /\ e.up = h.up /\ e.chan = h.chan /\ e.down = h.down
        /\ e.out = None /\ e.replay = h.replay
    BY DEF HandlerShapes
  <1>2. AfterSend(h) = [w EXCEPT !.pc = "replay"] \/ \E p \in PCs : AfterSend(h) = [e EXCEPT !.pc = p]
    BY DEF AfterSend, PCs
  <1> HIDE DEF e
  <1>3. Carries(e, S)
    BY <1>1 DEF Carries
  <1>4. w \in HandlerShapes /\ Carries(w, S)
    BY <1>1, <1>3, CarriesWritten, WrittenFacts DEF Messages, Notices
  <1> HIDE DEF w
  <1>5. ASSUME NEW k \in HandlerShapes, Carries(k, S), NEW p \in PCs
        PROVE  Carries([k EXCEPT !.pc = p], S)
    BY <1>5 DEF Carries, HandlerShapes
  <1> QED BY <1>1, <1>2, <1>3, <1>4, <1>5 DEF PCs

LEMMA CarriesLeaving ==
    ASSUME NEW h \in HandlerShapes, NEW S, Carries(h, S), "peer_disconnected" \in S
    PROVE  Carries(Leaving(h), S)
  <1> DEFINE g == Leaving(h)
  <1>1. g.up = h.up /\ g.chan = h.chan /\ g.down = h.down /\ g.out = "peer_disconnected" /\ g.replay = h.replay
    BY DEF Leaving, HandlerShapes
  <1> HIDE DEF g
  <1>2. Carries(g, S)
    BY <1>1 DEF Carries
  <1> QED BY <1>2 DEF g

LEMMA StepCarries ==
    ASSUME sock \in Seq(Handlers), NEW S, \A i \in Sockets : Carries(sock[i], S),
           NEW s \in Sockets, NEW q, Step(s, q), Carries(q, S)
    PROVE  \A i \in Sockets' : Carries(sock'[i], S)
  BY DEF Step, Sockets

LEMMA HandlerCarries ==
    ASSUME RelayInv, NEW S, \A i \in Sockets : Carries(sock[i], S), \A r \in Roles : buffer[r] \in S \cup {None},
           Notices \subseteq S, NEW s \in Sockets, Handler(s)
    PROVE  /\ \A i \in Sockets' : Carries(sock'[i], S)
           /\ \A r \in Roles : buffer'[r] \in S \cup {None}
  <1> USE SocketFacts, PeerFacts
  <1> DEFINE h == sock[s]
  <1>0. sock \in Seq(Handlers) /\ h \in HandlerShapes /\ h \in Handlers /\ Carries(h, S) /\ h.role \in Roles
        /\ buffer \in [Roles -> Resumable \cup {None}]
    BY ShapeFields DEF RelayInv, RelayType
  <1>1. "session_ready" \in S /\ "peer_disconnected" \in S /\ "busy" \in S /\ "dead" \in S
    BY DEF Notices
  <1>2. CASE Connect(s)
    <2> DEFINE b == buffer[h.role]
               q0 == Finished(Written(h, Refusal(h.role)))
               q1 == [h EXCEPT !.pc = "lookup", !.out = "session_ready", !.replay = b]
               q2 == [h EXCEPT !.pc = "replay", !.replay = b]
    <2>1. (Refusal(h.role) # None /\ Step(s, q0)) \/ Step(s, q1) \/ Step(s, q2)
      BY <1>2 DEF Connect
    <2>2. Refusal(h.role) # None => Carries(q0, S)
      <3>1. Refusal(h.role) # None => Refusal(h.role) \in S /\ Refusal(h.role) \in Messages
        BY <1>1 DEF Refusal, Messages, Notices
      <3> QED BY <1>0, <3>1, CarriesWritten, WrittenFacts, CarriesFinished
    <2>3. b \in S \cup {None}
      BY <1>0
    <2>4. Carries(q1, S) /\ Carries(q2, S)
      <3> HIDE DEF b
      <3> QED BY <1>0, <1>1, <2>3 DEF Carries, HandlerShapes
    <2> HIDE DEF q0, q1, q2
    <2>5. \A i \in Sockets' : Carries(sock'[i], S)
      BY <1>0, <2>1, <2>2, <2>4, StepCarries
    <2> QED BY <1>2, <2>5 DEF Connect
  <1>3. CASE Lookup(s)
    <2> DEFINE t == slot[Peer(h.role)]
               q == [h EXCEPT !.pc = "send", !.peer = t]
    <2>1. Step(s, AfterSend(h)) \/ Step(s, q)
      BY <1>3 DEF Lookup
    <2>2. Carries(q, S)
      <3> HIDE DEF t
      <3> QED BY <1>0 DEF Carries, HandlerShapes
    <2> HIDE DEF q
    <2>3. \A i \in Sockets' : Carries(sock'[i], S)
      BY <1>0, <1>1, <2>1, <2>2, StepCarries, CarriesAfterSend
    <2> QED BY <1>3, <2>3 DEF Lookup
  <1>4. CASE Send(s)
    <2> DEFINE t == h.peer
               q == AfterSend(h)
               g == [sock[t] EXCEPT !.chan = Append(@, h.out)]
    <2>1. t \in Sockets /\ t # s /\ sock[t] \in HandlerShapes /\ Carries(sock[t], S)
      BY <1>0, <1>4 DEF RelayInv, Links, Send
    <2>2. Carries(q, S)
      BY <1>0, <1>1, CarriesAfterSend
    <2>3. h.out \in S
      BY <1>0, <1>4 DEF Handlers, Placed, Carries, Send, Resumable, None
    <2>4. Carries(g, S)
      <3> DEFINE c == Append(sock[t].chan, h.out)
      <3>1. c \in Seq(S) /\ g = [sock[t] EXCEPT !.chan = c]
        BY <2>1, <2>3 DEF Carries
      <3> HIDE DEF c
      <3> QED BY <2>1, <3>1 DEF Carries, HandlerShapes
    <2>5. Step(s, q) \/ sock' = [[sock EXCEPT ![s] = q] EXCEPT ![t] = g]
      <3>1. CASE sock[t].pc = "done"
        BY <1>4, <3>1 DEF Send
      <3>2. CASE sock[t].pc # "done"
        <4>1. sock' = [sock EXCEPT ![s] = q, ![t].chan = Append(@, h.out)]
          BY <1>4, <3>2 DEF Send
        <4> HIDE DEF q
        <4> QED BY <1>0, <2>1, <4>1
      <3> QED BY <3>1, <3>2
    <2> HIDE DEF q, g
    <2>6. \A i \in Sockets' : Carries(sock'[i], S)
      <3>1. CASE Step(s, q)
        BY <1>0, <2>2, <3>1, StepCarries
      <3>2. CASE sock' = [[sock EXCEPT ![s] = q] EXCEPT ![t] = g]
        BY <1>0, <2>1, <2>2, <2>4, <3>2 DEF Sockets
      <3> QED BY <2>5, <3>1, <3>2
    <2> QED BY <1>4, <2>6 DEF Send
  <1>5. CASE Replay(s)
    <2> DEFINE w == Replayed(h)
               q == [w EXCEPT !.pc = "loop", !.replay = None]
    <2>1. w \in HandlerShapes /\ Carries(w, S)
      <3>1. CASE h.replay = None
        BY <1>0, <3>1 DEF Replayed
      <3>2. CASE h.replay # None
        <4>1. h.replay \in S /\ h.replay \in Messages
          BY <1>0, <3>2, ShapeFields DEF Carries, Messages
        <4> QED BY <1>0, <3>2, <4>1, CarriesWritten, WrittenFacts DEF Replayed
      <3> QED BY <3>1, <3>2
    <2>2. Step(s, q)
      BY <1>5 DEF Replay
    <2>3. Carries(q, S)
      <3> HIDE DEF w
      <3> QED BY <2>1 DEF Carries, HandlerShapes
    <2> HIDE DEF q
    <2>4. \A i \in Sockets' : Carries(sock'[i], S)
      BY <1>0, <2>2, <2>3, StepCarries
    <2> QED BY <1>5, <2>4 DEF Replay
  <1>6. CASE RecvClient(s)
    <2> DEFINE m == Head(h.up)
               u == Tail(h.up)
               q == [h EXCEPT !.pc = "lookup", !.out = m, !.up = u]
    <2>1. m \in S /\ u \in Seq(S)
      BY <1>0, <1>6 DEF Carries, RecvClient
    <2>2. Step(s, q) /\ buffer' = Stored(h.role, m)
      BY <1>0, <1>6 DEF RecvClient
    <2> HIDE DEF m, u
    <2>3. Carries(q, S)
      BY <1>0, <2>1 DEF Carries, HandlerShapes
    <2> HIDE DEF q
    <2>4. \A i \in Sockets' : Carries(sock'[i], S)
      BY <1>0, <2>2, <2>3, StepCarries
    <2>5. \A r \in Roles : buffer'[r] \in S \cup {None}
      BY <1>0, <2>1, <2>2 DEF Stored
    <2> QED BY <2>4, <2>5
  <1>7. CASE RecvPeer(s)
    <2> DEFINE m == Head(h.chan)
               c == Tail(h.chan)
               w == Written(h, m)
               g == [w EXCEPT !.chan = c]
    <2>1. m \in S /\ m \in Messages /\ c \in Seq(S) /\ c \in Seq(Messages)
      <3>1. h.chan \in Seq(S) /\ h.chan \in Seq(Messages) /\ h.chan # <<>>
        BY <1>0, <1>7, ShapeFields DEF Carries, RecvPeer
      <3> QED BY <3>1
    <2>2. w \in HandlerShapes /\ Carries(w, S) /\ w.chan = h.chan
      BY <1>0, <2>1, CarriesWritten, WrittenFacts
    <2>3. Step(s, g) \/ Step(s, Leaving(g))
      BY <1>7, <2>2 DEF RecvPeer
    <2> HIDE DEF m, c, w
    <2>4. Carries(g, S) /\ g \in HandlerShapes
      BY <2>1, <2>2 DEF Carries, HandlerShapes
    <2> HIDE DEF g
    <2>5. \A i \in Sockets' : Carries(sock'[i], S)
      BY <1>0, <1>1, <2>3, <2>4, StepCarries, CarriesLeaving
    <2> QED BY <1>7, <2>5 DEF RecvPeer
  <1>8. CASE HangUp(s)
    BY <1>0, <1>1, <1>8, StepCarries, CarriesLeaving DEF HangUp
  <1>9. CASE Leave(s)
    BY <1>0, <1>9, StepCarries, CarriesFinished DEF Leave
  <1> QED BY <1>2, <1>3, <1>4, <1>5, <1>6, <1>7, <1>8, <1>9 DEF Handler
-----------------------------------------------------------------------------
(* The steps of the flow.                                                  *)

LEMMA HandlerSockets ==
    ASSUME RelayInv, NEW s \in Sockets, Handler(s)
    PROVE  Sockets' = Sockets /\ session' = session
  BY DEF Handler, Connect, Lookup, Send, Replay, RecvClient, RecvPeer, HangUp, Leave, Step, Sockets

LEMMA ToldGrows ==
    ASSUME holder.state \in {"complete", "denied"} => holder'.state = holder.state
    PROVE  Told \subseteq Told' /\ Notices \subseteq Told
  BY DEF Told, Messages, Notices

\* A step that is none of the apps'.
LEMMA AppsUnmoved ==
    ASSUME FlowInv, UNCHANGED apps, RelayInv', Sockets \subseteq Sockets', session = "gone" => session' = "gone",
           \A i \in Sockets' : Carries(sock'[i], Told), \A r \in Roles : buffer'[r] \in Told \cup {None}
    PROVE  FlowInv'
  <1>1. holder' = holder /\ verifier' = verifier /\ posts' = posts
    BY DEF apps
  <1>2. Told' = Told /\ Accepted' = Accepted
    BY <1>1 DEF Told, Accepted
  <1>3. AllTold'
    BY <1>2 DEF AllTold, Carries
  <1>4. AppsOK'
    BY <1>1 DEF FlowInv, AppsOK
  <1> QED BY <1>1, <1>2, <1>3, <1>4 DEF FlowInv, VerdictFromHolder, NonceOnce

\* A step of the holder, who has neither completed nor denied.
LEMMA HolderMoves ==
    ASSUME FlowInv, UNCHANGED <<verifier, posts, session, buffer>>, holder.state \notin {"complete", "denied"},
           DOMAIN holder' = {"state", "sock", "seen", "proving"}, holder'.sock \in {0} \cup Sockets',
           holder'.state \in {"complete", "denied"} => holder'.sock = 0 /\ holder'.proving = FALSE,
           RelayInv', Sockets \subseteq Sockets', \A i \in Sockets' : Carries(sock'[i], Told')
    PROVE  FlowInv'
  <1>1. Told \subseteq Told'
    BY ToldGrows
  <1>2. AllTold'
    BY <1>1 DEF FlowInv, AllTold, Carries
  <1>3. AppsOK'
    BY DEF FlowInv, AppsOK
  <1>4. posts = <<>> /\ verifier.verdict \notin {"valid", "denied"}
    BY DEF FlowInv, VerdictFromHolder
  <1>5. Accepted' = Accepted
    BY DEF Accepted
  <1> QED BY <1>2, <1>3, <1>4, <1>5 DEF FlowInv, VerdictFromHolder, NonceOnce

\* A step of the verifier app.
LEMMA VerifierMoves ==
    ASSUME FlowInv, UNCHANGED <<holder, session, buffer>>,
           DOMAIN verifier' = {"step", "sock", "sent", "verdict"}, verifier'.sock \in {0} \cup Sockets',
           verifier'.verdict = "valid" => holder.state = "complete",
           verifier'.verdict = "denied" => holder.state = "denied",
           posts' \in Seq(PostStates), posts' # <<>> => holder.state = "complete", Accepted' \subseteq Accepted,
           RelayInv', Sockets \subseteq Sockets', \A i \in Sockets' : Carries(sock'[i], Told)
    PROVE  FlowInv'
  <1>1. Told' = Told
    BY DEF Told
  <1>2. AllTold'
    BY <1>1 DEF FlowInv, AllTold, Carries
  <1>3. AppsOK'
    BY DEF FlowInv, AppsOK
  <1>4. VerdictFromHolder'
    BY DEF VerdictFromHolder
  <1>5. NonceOnce' /\ (Accepted' # {} => session' = "gone")
    BY DEF FlowInv, NonceOnce
  <1> QED BY <1>2, <1>3, <1>4, <1>5 DEF FlowInv

LEMMA RelayMoves ==
    ASSUME FlowInv, Relay
    PROVE  FlowInv'
  <1>1. PICK s \in Sockets : Handler(s) /\ UNCHANGED apps
    BY DEF Relay
  <1>2. RelayInv' /\ Sockets' = Sockets /\ session' = session
    BY <1>1, HandlerKeeps, HandlerSockets DEF FlowInv
  <1>3. /\ \A i \in Sockets' : Carries(sock'[i], Told)
        /\ \A r \in Roles : buffer'[r] \in Told \cup {None}
    BY <1>1, HandlerCarries, ToldGrows DEF FlowInv, AllTold, apps
  <1> QED BY <1>1, <1>2, <1>3, AppsUnmoved

LEMMA CutMoves ==
    ASSUME FlowInv, NEW s \in Sockets, Cut(s), UNCHANGED apps
    PROVE  FlowInv'
  <1> DEFINE h == sock[s]
  <1>1. PICK n \in 0..Len(h.up) : Step(s, [h EXCEPT !.link = "cut", !.down = <<>>, !.up = SubSeq(@, 1, n)])
    BY DEF Cut
  <1>2. sock \in Seq(Handlers) /\ h \in HandlerShapes /\ Carries(h, Told)
    BY SocketFacts DEF FlowInv, RelayInv, RelayType, AllTold
  <1> DEFINE a == "cut"
             b == <<>>
             c == SubSeq(h.up, 1, n)
             g == [h EXCEPT !.link = a, !.down = b, !.up = c]
  <1>3. a \in {"ok", "cut"} /\ b \in Seq(Messages) /\ b \in Seq(Told) /\ c \in Seq(Resumable) /\ c \in Seq(Told)
    <2>1. h.up \in Seq(Resumable) /\ h.up \in Seq(Told)
      BY <1>2, ShapeFields DEF Carries
    <2>2. \A i \in 1..n : i \in 1..Len(h.up)
      BY <2>1
    <2> QED BY <2>1, <2>2
  <1>4. sock' = [sock EXCEPT ![s] = g]
    BY <1>1, <1>2 DEF Step
  <1> HIDE DEF a, b, c
  <1>5. g \in HandlerShapes /\ SameInside(g, h) /\ g.up = c /\ g.down = b
    BY <1>2, <1>3 DEF HandlerShapes, SameInside
  <1> HIDE DEF g
  <1>6. Carries(g, Told)
    BY <1>2, <1>3, <1>5 DEF Carries, SameInside
  <1>7. Apart([sock EXCEPT ![s] = g], Told)
    BY <1>2, <1>5, <1>6, ApartSame, ApartAt DEF FlowInv, AllTold
  <1>8. slot' = slot /\ buffer' = buffer /\ session' = session
    BY DEF Cut
  <1>9. RelayInv' /\ Sockets' = Sockets /\ \A i \in Sockets' : Carries(sock'[i], Told)
    BY <1>4, <1>7, <1>8, ApartKeeps DEF FlowInv
  <1> QED BY <1>8, <1>9, AppsUnmoved DEF FlowInv, AllTold

LEMMA SessionMoves ==
    ASSUME FlowInv, Expire \/ Cleanup, UNCHANGED apps
    PROVE  FlowInv'
  <1>1. RelayInv' /\ sock' = sock
    BY ExpireKeeps, RemovedKeeps DEF FlowInv, Expire, Cleanup
  <1>2. Sockets' = Sockets /\ (session = "gone" => session' = "gone")
    BY <1>1 DEF Expire, Cleanup, Sockets
  <1>3. \A r \in Roles : buffer'[r] \in Told \cup {None}
    BY DEF FlowInv, AllTold, Expire, Cleanup, Removed
  <1> QED BY <1>1, <1>2, <1>3, AppsUnmoved DEF FlowInv, AllTold

LEMMA NoticeMoves ==
    ASSUME FlowInv, Notice
    PROVE  FlowInv'
  <1>1. PICK s \in Sockets : ClientNotices(s)
    BY DEF Notice
  <1>2. sock' = Shut(sock, s) /\ slot' = slot /\ buffer' = buffer /\ session' = session /\ UNCHANGED apps
    BY <1>1 DEF ClientNotices
  <1>3. Apart(sock', Told)
    BY <1>2, ApartSame, ShutApart DEF FlowInv, RelayInv, RelayType, AllTold
  <1>4. RelayInv' /\ Sockets' = Sockets /\ \A i \in Sockets' : Carries(sock'[i], Told)
    BY <1>2, <1>3, ApartKeeps DEF FlowInv
  <1> QED BY <1>2, <1>4, AppsUnmoved DEF FlowInv, AllTold

\* cleanup(), after a last message or none.
LEMMA CleanupMoves ==
    ASSUME FlowInv, NEW state, NEW K, HolderCleanup(state, K), OnlySock, UNCHANGED <<verifier, posts>>,
           holder.state \notin {"complete", "denied"},
           K = sock \/ \E m \in Resumable : m \in Told' /\ K = Sent(holder.sock, m)
    PROVE  FlowInv'
  <1>1. /\ DOMAIN holder' = {"state", "sock", "seen", "proving"} /\ holder'.sock = 0
        /\ holder'.proving = FALSE /\ holder'.state = state
    BY DEF HolderCleanup, FlowInv, AppsOK
  <1>2. Told \subseteq Told'
    BY ToldGrows
  <1>3. sock \in Seq(Handlers) /\ \A i \in Sockets : Carries(sock[i], Told')
    BY <1>2, CarriesMore DEF FlowInv, RelayInv, RelayType, AllTold
  <1>4. holder.sock = 0 \/ holder.sock \in Sockets
    BY DEF FlowInv, AppsOK
  <1>5. Apart(K, Told')
    BY <1>3, <1>4, ApartSame, SentApart
  <1>6. Apart(sock', Told')
    BY <1>3, <1>4, <1>5, ShutApart DEF HolderCleanup
  <1>7. RelayInv' /\ Sockets' = Sockets /\ \A i \in Sockets' : Carries(sock'[i], Told')
    BY <1>6, ApartKeeps DEF FlowInv, OnlySock
  <1> QED BY <1>1, <1>7, HolderMoves DEF OnlySock

LEMMA HolderKeeps ==
    ASSUME FlowInv,
           HolderReconnect \/ HolderReceives \/ Approve \/ Proved \/ ProofFails \/ Deny \/ HolderCancel \/ TryAgain
    PROVE  FlowInv'
  <1> DEFINE Names == {"state", "sock", "seen", "proving"}
  <1>0. /\ sock \in Seq(Handlers) /\ \A i \in Sockets : Carries(sock[i], Told)
        /\ DOMAIN holder = Names /\ (holder.sock = 0 \/ holder.sock \in Sockets)
        /\ holder.state \in {"complete", "denied"} => holder.sock = 0 /\ holder.proving = FALSE
        /\ RelayInv
    BY DEF FlowInv, RelayInv, RelayType, AllTold, AppsOK
  <1>1. CASE HolderReconnect
    <2>1. holder.state \notin {"complete", "denied"}
      BY <1>1 DEF HolderReconnect, NonTerminal
    <2>2. /\ RelayInv' /\ Sockets' = Sockets \cup {Len(sock) + 1}
          /\ \A i \in Sockets' : Carries(sock'[i], Told)
      BY <1>0, <1>1, NewSocketKeeps DEF HolderReconnect, OnlySock, Roles
    <2>3. DOMAIN holder' = Names /\ holder'.sock = Len(sock) + 1 /\ holder'.state = holder.state
      BY <1>0, <1>1 DEF HolderReconnect
    <2>4. Told' = Told
      BY <2>3 DEF Told
    <2> QED BY <1>1, <2>1, <2>2, <2>3, <2>4, HolderMoves DEF HolderReconnect, OnlySock
  <1>2. CASE HolderReceives
    <2>1. PICK m \in Messages :
             /\ Receives(holder.sock, m)
             /\ sock' = Taken(holder.sock)
             /\ holder' =
                  CASE m = "session_ready" /\ holder.state = "showing_qr" -> [holder EXCEPT !.state = "waiting"]
                    [] m = "request" /\ Consents -> [holder EXCEPT !.state = "consent", !.seen = TRUE]
                    [] m \in {"busy", "dead"} /\ holder.state \notin {"complete", "idle", "proof_error"} ->
                          [holder EXCEPT !.state = "session_error"]
                    [] OTHER -> holder
      BY <1>2 DEF HolderReceives
    <2>2. holder.sock \in Sockets /\ sock[holder.sock].down # <<>> /\ holder.state \notin {"complete", "denied"}
      BY <1>0, <2>1 DEF Receives, IsOpen
    <2>3. /\ DOMAIN holder' = Names /\ holder'.sock = holder.sock
          /\ holder'.state \in {"waiting", "consent", "session_error", holder.state}
      BY <1>0, <2>1
    <2>4. Told' = Told
      BY <2>2, <2>3 DEF Told
    <2>5. Apart(sock', Told)
      BY <1>0, <2>1, <2>2, ApartSame, TakenApart DEF Taken
    <2>6. RelayInv' /\ Sockets' = Sockets /\ \A i \in Sockets' : Carries(sock'[i], Told)
      BY <1>0, <1>2, <2>5, ApartKeeps DEF HolderReceives, OnlySock
    <2> QED BY <1>2, <2>2, <2>3, <2>4, <2>6, HolderMoves DEF HolderReceives, OnlySock
  <1>3. CASE Approve
    <2>1. holder.state = "consent" /\ UNCHANGED <<relay, verifier, posts>>
      BY <1>3 DEF Approve
    <2>2. DOMAIN holder' = Names /\ holder'.sock = holder.sock /\ holder'.state = "generating"
      BY <1>0, <1>3 DEF Approve
    <2>3. Told' = Told
      BY <2>1, <2>2 DEF Told
    <2>4. Apart(sock', Told) /\ slot' = slot /\ buffer' = buffer /\ session' = session
      BY <1>0, <2>1, ApartSame DEF relay
    <2>5. RelayInv' /\ Sockets' = Sockets /\ \A i \in Sockets' : Carries(sock'[i], Told)
      BY <1>0, <2>4, ApartKeeps
    <2> QED BY <1>0, <2>1, <2>2, <2>3, <2>4, <2>5, HolderMoves
  <1>4. CASE Proved
    <2>1. HolderCleanup("complete", Sent(holder.sock, "response"))
      BY <1>4 DEF Proved
    <2>2. "response" \in Resumable /\ "response" \in Told'
      BY <1>0, <2>1 DEF HolderCleanup, Told, Messages, Resumable
    <2>3. holder.state \notin {"complete", "denied"}
      BY <1>0, <1>4 DEF Proved
    <2> QED BY <1>4, <2>1, <2>2, <2>3, CleanupMoves DEF Proved
  <1>5. CASE ProofFails
    <2>1. holder.state \notin {"complete", "denied"}
      BY <1>0, <1>5 DEF ProofFails
    <2>2. DOMAIN holder' = Names /\ holder'.sock = holder.sock /\ holder'.state = "proof_error"
      BY <1>0, <1>5 DEF ProofFails
    <2>3. Told' = Told /\ "proof_failed" \in Resumable /\ "proof_failed" \in Told
      BY <2>1, <2>2 DEF Told, Messages, Resumable
    <2>4. Apart(sock', Told)
      BY <1>0, <1>5, <2>3, SentApart DEF ProofFails
    <2>5. RelayInv' /\ Sockets' = Sockets /\ \A i \in Sockets' : Carries(sock'[i], Told)
      BY <1>0, <1>5, <2>4, ApartKeeps DEF ProofFails, OnlySock
    <2> QED BY <1>0, <1>5, <2>1, <2>2, <2>3, <2>5, HolderMoves DEF ProofFails, OnlySock
  <1>6. CASE Deny
    <2>1. HolderCleanup("denied", Sent(holder.sock, "consent_denied")) /\ holder.state = "consent"
      BY <1>6 DEF Deny
    <2>2. "consent_denied" \in Resumable /\ "consent_denied" \in Told'
      BY <1>0, <2>1 DEF HolderCleanup, Told, Messages, Resumable
    <2> QED BY <1>6, <2>1, <2>2, CleanupMoves DEF Deny
  <1>7. CASE HolderCancel
    <2>1. HolderCleanup("idle", Sent(holder.sock, "proof_failed")) /\ holder.state \notin {"complete", "denied"}
      BY <1>7 DEF HolderCancel, CancelNotice
    <2>2. "proof_failed" \in Resumable /\ "proof_failed" \in Told'
      BY DEF Told, Messages, Resumable
    <2> QED BY <1>7, <2>1, <2>2, CleanupMoves DEF HolderCancel
  <1>8. CASE TryAgain
    BY <1>8, CleanupMoves DEF TryAgain
  <1> QED BY <1>1, <1>2, <1>3, <1>4, <1>5, <1>6, <1>7, <1>8

\* closeWs(), with a verdict the holder stands for.
LEMMA CloseMoves ==
    ASSUME FlowInv, NEW step, NEW verdict, CloseWs(step, verdict, sock), OnlySock, holder' = holder,
           posts' \in Seq(PostStates), posts' # <<>> => holder.state = "complete", Accepted' \subseteq Accepted,
           verdict = "valid" => holder.state = "complete", verdict = "denied" => holder.state = "denied"
    PROVE  FlowInv'
  <1>1. sock \in Seq(Handlers) /\ (verifier.sock = 0 \/ verifier.sock \in Sockets)
        /\ \A i \in Sockets : Carries(sock[i], Told)
    BY DEF FlowInv, RelayInv, RelayType, AppsOK, AllTold
  <1>2. /\ DOMAIN verifier' = {"step", "sock", "sent", "verdict"} /\ verifier'.sock = 0
        /\ verifier'.verdict = verdict
    BY DEF CloseWs
  <1>3. Apart(sock', Told)
    BY <1>1, ApartSame, ShutApart DEF CloseWs
  <1>4. RelayInv' /\ Sockets' = Sockets /\ \A i \in Sockets' : Carries(sock'[i], Told)
    BY <1>3, ApartKeeps DEF FlowInv, OnlySock
  <1> QED BY <1>2, <1>4, VerifierMoves DEF OnlySock

LEMMA VerifierKeeps ==
    ASSUME FlowInv, Scan \/ VerifierReconnect \/ VerifierReceives \/ VerifierCancel
    PROVE  FlowInv'
  <1> DEFINE Names == {"step", "sock", "sent", "verdict"}
             v == verifier.sock
  <1>0. /\ sock \in Seq(Handlers) /\ \A i \in Sockets : Carries(sock[i], Told)
        /\ DOMAIN verifier = Names /\ (v = 0 \/ v \in Sockets) /\ posts \in Seq(PostStates)
        /\ posts # <<>> => holder.state = "complete"
        /\ verifier.verdict = "valid" => holder.state = "complete"
        /\ verifier.verdict = "denied" => holder.state = "denied"
        /\ RelayInv
    BY DEF FlowInv, RelayInv, RelayType, AllTold, AppsOK, VerdictFromHolder
  <1>1. ASSUME UNCHANGED posts PROVE Accepted' = Accepted
    BY <1>1 DEF Accepted
  <1>2. CASE Scan \/ VerifierReconnect
    <2>1. sock' = Append(sock, New("verifier")) /\ OnlySock /\ UNCHANGED <<holder, posts>>
      BY <1>2 DEF Scan, VerifierReconnect
    <2>2. /\ RelayInv' /\ Sockets' = Sockets \cup {Len(sock) + 1}
          /\ \A i \in Sockets' : Carries(sock'[i], Told)
      BY <1>0, <2>1, NewSocketKeeps DEF OnlySock, Roles
    <2>3. DOMAIN verifier' = Names /\ verifier'.sock = Len(sock) + 1 /\ verifier'.verdict = verifier.verdict
      BY <1>0, <1>2 DEF Scan, VerifierReconnect
    <2> QED BY <1>0, <1>1, <2>1, <2>2, <2>3, VerifierMoves DEF OnlySock
  <1>3. CASE VerifierCancel
    BY <1>0, <1>1, <1>3, CloseMoves DEF VerifierCancel
  <1>4. CASE VerifierReceives
    <2>1. PICK m \in Messages :
             /\ Receives(v, m)
             /\ CASE m = "session_ready" /\ ~verifier.sent ->
                       /\ verifier' = [verifier EXCEPT !.sent = TRUE, !.step = "waiting"]
                       /\ sock' = [Sent(v, "request") EXCEPT ![v].down = Tail(@)]
                       /\ UNCHANGED posts
                  [] m = "response" ->
                       /\ verifier' = [verifier EXCEPT !.step = "verifying"]
                       /\ posts' = Append(posts, "sent")
                       /\ sock' = Taken(v)
                  [] m = "consent_denied" -> CloseWs("result", "denied", sock) /\ UNCHANGED posts
                  [] m = "proof_failed" -> CloseWs("result", "failed", sock) /\ UNCHANGED posts
                  [] m \in {"busy", "dead"} /\ verifier.step \notin {"verifying", "result", "error"} ->
                       /\ verifier' = [verifier EXCEPT !.step = "error"]
                       /\ sock' = Taken(v) /\ UNCHANGED posts
                  [] OTHER -> sock' = Taken(v) /\ UNCHANGED <<verifier, posts>>
      BY <1>4 DEF VerifierReceives
    <2>2. OnlySock /\ holder' = holder
      BY <1>4 DEF VerifierReceives
    <2>3. v \in Sockets /\ sock[v].down # <<>> /\ m = Head(sock[v].down)
      BY <1>0, <2>1 DEF Receives, IsOpen
    <2>4. m \in Told
      BY <1>0, <2>3 DEF Carries
    <2>5. Apart(Taken(v), Told)
      BY <1>0, <2>3, ApartSame, TakenApart DEF Taken
    <2>6. ASSUME Apart(sock', Told), DOMAIN verifier' = Names, verifier'.sock = v,
                 verifier'.verdict = verifier.verdict, posts' \in Seq(PostStates),
                 posts' # <<>> => holder.state = "complete", Accepted' \subseteq Accepted
          PROVE  FlowInv'
      <3>1. RelayInv' /\ Sockets' = Sockets /\ \A i \in Sockets' : Carries(sock'[i], Told)
        BY <1>0, <2>2, <2>6, ApartKeeps DEF OnlySock
      <3> QED BY <1>0, <2>2, <2>3, <2>6, <3>1, VerifierMoves DEF OnlySock
    <2>7. CASE m = "session_ready" /\ ~verifier.sent
      <3>1. /\ DOMAIN verifier' = Names /\ verifier'.sock = v /\ verifier'.verdict = verifier.verdict
            /\ UNCHANGED posts /\ sock' = [Sent(v, "request") EXCEPT ![v].down = Tail(@)]
        BY <1>0, <2>1, <2>7
      <3>2. "request" \in Resumable /\ "request" \in Told
        BY DEF Told, Messages, Resumable
      <3> DEFINE K == Sent(v, "request")
      <3>3. Apart(K, Told)
        BY <1>0, <2>3, <3>2, SentApart
      <3>4. K[v].down # <<>>
        <4>1. sock[v] \in HandlerShapes /\ v \in DOMAIN sock
          BY <1>0, <2>3, SocketFacts DEF Sockets
        <4> QED BY <2>3, <4>1 DEF Sent, HandlerShapes
      <3> HIDE DEF K
      <3>5. Apart([K EXCEPT ![v].down = Tail(@)], Told)
        BY <1>0, <2>3, <3>3, <3>4, TakenApart
      <3> QED BY <1>0, <1>1, <2>6, <3>1, <3>5 DEF K
    <2>8. CASE m = "response"
      <3>1. /\ DOMAIN verifier' = Names /\ verifier'.sock = v /\ verifier'.verdict = verifier.verdict
            /\ posts' = Append(posts, "sent") /\ sock' = Taken(v)
        BY <1>0, <2>1, <2>8
      <3>2. holder.state = "complete"
        BY <2>4, <2>8 DEF Told
      <3>3. posts' \in Seq(PostStates) /\ Accepted' \subseteq Accepted
        <4> DEFINE n == Len(posts) + 1
        <4>1. posts \in Seq(PostStates) /\ "sent" \in PostStates
          BY <1>0 DEF PostStates
        <4>2. /\ posts' \in Seq(PostStates) /\ DOMAIN posts' = DOMAIN posts \cup {n} /\ posts'[n] = "sent"
              /\ \A i \in DOMAIN posts : posts'[i] = posts[i]
          BY <3>1, <4>1
        <4> QED BY <4>2 DEF Accepted
      <3> QED BY <2>5, <2>6, <3>1, <3>2, <3>3
    <2>9. CASE m = "consent_denied"
      <3>1. CloseWs("result", "denied", sock) /\ UNCHANGED posts /\ holder.state = "denied"
        BY <2>1, <2>4, <2>9 DEF Told
      <3> QED BY <1>0, <1>1, <2>2, <3>1, CloseMoves
    <2>10. CASE m = "proof_failed"
      <3>1. CloseWs("result", "failed", sock) /\ UNCHANGED posts
        BY <2>1, <2>10
      <3> QED BY <1>0, <1>1, <2>2, <3>1, CloseMoves
    <2>11. CASE m \notin {"response", "consent_denied", "proof_failed"} /\ ~(m = "session_ready" /\ ~verifier.sent)
      <3>1. /\ DOMAIN verifier' = Names /\ verifier'.sock = v /\ verifier'.verdict = verifier.verdict
            /\ UNCHANGED posts /\ sock' = Taken(v)
        BY <1>0, <2>1, <2>11
      <3> QED BY <1>0, <1>1, <2>5, <2>6, <3>1
    <2> QED BY <2>7, <2>8, <2>9, <2>10, <2>11
  <1> QED BY <1>2, <1>3, <1>4

LEMMA ServeKeeps ==
    ASSUME FlowInv, NEW i \in DOMAIN posts, ServePost(i)
    PROVE  FlowInv'
  <1>1. posts \in Seq(PostStates) /\ posts # <<>> /\ posts[i] = "sent"
    BY DEF FlowInv, AppsOK, ServePost
  <1>2. holder' = holder /\ verifier' = verifier /\ sock' = sock /\ Sockets' = Sockets /\ Told' = Told
    BY DEF ServePost, Sockets, Told
  <1>3. AppsOK' /\ holder.state = "complete"
    <2>1. posts' \in Seq(PostStates)
      BY <1>1 DEF ServePost, PostStates
    <2> QED BY <1>1, <1>2, <2>1 DEF FlowInv, AppsOK
  <1>4. CASE session = "open"
    <2>1. posts' = [posts EXCEPT ![i] = "valid"] /\ Removed
      BY <1>4 DEF ServePost, Consumed
    <2>2. RelayInv'
      BY <1>2, <2>1, RemovedKeeps DEF FlowInv
    <2>3. Accepted = {}
      BY <1>4 DEF FlowInv
    <2>4. Accepted' \subseteq {i}
      BY <1>1, <2>1, <2>3 DEF Accepted
    <2>5. AllTold'
      BY <1>2, <2>1 DEF FlowInv, AllTold, Removed, Carries
    <2> QED BY <1>2, <1>3, <2>1, <2>2, <2>4, <2>5 DEF FlowInv, VerdictFromHolder, NonceOnce, Removed
  <1>5. CASE session # "open"
    <2>1. posts' = [posts EXCEPT ![i] = "invalid"] /\ UNCHANGED <<session, slot, buffer>>
      BY <1>5 DEF ServePost
    <2>2. Apart(sock', Told)
      BY <1>2, ApartSame DEF FlowInv, RelayInv, RelayType, AllTold
    <2>3. RelayInv'
      BY <2>1, <2>2, ApartKeeps DEF FlowInv
    <2>4. Accepted' \subseteq Accepted
      BY <1>1, <2>1 DEF Accepted
    <2>5. AllTold'
      BY <1>2, <2>1 DEF FlowInv, AllTold, Carries
    <2> QED BY <1>2, <1>3, <2>1, <2>3, <2>4, <2>5 DEF FlowInv, VerdictFromHolder, NonceOnce
  <1> QED BY <1>4, <1>5

LEMMA AnswerKeeps ==
    ASSUME FlowInv, NEW i \in DOMAIN posts, AnswerPost(i)
    PROVE  FlowInv'
  <1> DEFINE x == IF posts[i] = "valid" THEN "accepted" ELSE "over"
  <1>1. posts \in Seq(PostStates) /\ posts # <<>> /\ x \in PostStates /\ posts' = [posts EXCEPT ![i] = x]
    BY DEF FlowInv, AppsOK, AnswerPost, PostStates
  <1>2. holder.state = "complete"
    BY <1>1 DEF FlowInv
  <1>3. Accepted' \subseteq Accepted
    BY <1>1 DEF Accepted
  <1> HIDE DEF x
  <1>4. posts' \in Seq(PostStates)
    BY <1>1
  <1>5. PICK verdict : CloseWs("result", verdict, sock) /\ verdict \in {"valid", "invalid", "unreachable"}
    BY DEF AnswerPost
  <1> QED BY <1>2, <1>3, <1>4, <1>5, CloseMoves DEF AnswerPost

LEMMA FlowInit ==
    ASSUME Init
    PROVE  FlowInv
  <1> DEFINE g == New("holder")
  <1>1. /\ sock = <<g>> /\ session = "open" /\ slot = [r \in Roles |-> 0] /\ buffer = [r \in Roles |-> None]
        /\ posts = <<>>
    BY DEF Init, RelayInit
  <1>2. g \in HandlerShapes /\ g.pc = "connect" /\ g.chan = <<>> /\ Carries(g, Told)
    BY DEF New, HandlerShapes, PCs, Roles, Carries
  <1> HIDE DEF g
  <1>3. g \in Handlers
    BY <1>2 DEF Handlers, Placed
  <1>4. sock \in Seq(Handlers) /\ Sockets = {1} /\ sock[1] = g
    BY <1>1, <1>3 DEF Sockets
  <1>5. RelayInv
    BY <1>1, <1>2, <1>4 DEF RelayInv, RelayType, Slots, Links, Buffered, Handed, Passing, Active
  <1>6. AppsOK
    BY <1>1, <1>4 DEF Init, AppsOK
  <1>7. AllTold
    BY <1>1, <1>2, <1>4 DEF AllTold
  <1>8. VerdictFromHolder /\ Accepted = {}
    BY <1>1 DEF Init, VerdictFromHolder, Accepted
  <1> QED BY <1>1, <1>5, <1>6, <1>7, <1>8 DEF FlowInv, NonceOnce

\* FlowInv is inductive.
THEOREM FlowInductive == Spec => []FlowInv
  <1>1. Init => FlowInv
    BY FlowInit
  <1>2. FlowInv /\ [Next]_vars => FlowInv'
    <2> SUFFICES ASSUME FlowInv, [Next]_vars PROVE FlowInv'
      OBVIOUS
    <2>1. CASE Relay
      BY <2>1, RelayMoves
    <2>2. CASE \E s \in Sockets : Cut(s) /\ UNCHANGED apps
      BY <2>2, CutMoves
    <2>3. CASE (Expire \/ Cleanup) /\ UNCHANGED apps
      BY <2>3, SessionMoves
    <2>4. CASE Notice
      BY <2>4, NoticeMoves
    <2>5. CASE HolderReconnect \/ HolderReceives \/ Approve \/ Proved \/ ProofFails \/ Deny \/ HolderCancel \/ TryAgain
      BY <2>5, HolderKeeps
    <2>6. CASE Scan \/ VerifierReconnect \/ VerifierReceives \/ VerifierCancel
      BY <2>6, VerifierKeeps
    <2>7. CASE Post
      BY <2>7, ServeKeeps, AnswerKeeps DEF Post
    <2>8. CASE UNCHANGED vars
      <3>1. UNCHANGED <<session, slot, buffer, sock, holder, verifier, posts>> /\ Sockets' = Sockets /\ UNCHANGED apps
        BY <2>8 DEF vars, relay, apps, Sockets
      <3>2. Apart(sock', Told)
        BY <3>1, ApartSame DEF FlowInv, RelayInv, RelayType, AllTold
      <3>3. RelayInv' /\ \A i \in Sockets' : Carries(sock'[i], Told)
        BY <3>1, <3>2, ApartKeeps DEF FlowInv
      <3> QED BY <3>1, <3>3, AppsUnmoved DEF FlowInv, AllTold
    <2> QED BY <2>1, <2>2, <2>3, <2>4, <2>5, <2>6, <2>7, <2>8 DEF Next
  <1> QED BY <1>1, <1>2, PTL DEF Spec

\* A role's slot and its connected handlers agree, however connects, rejoins and
\* disconnects interleave.
THEOREM SlotsAreOwned == Spec => []SlotOwned
  <1>1. FlowInv => SlotOwned
    <2> SUFFICES ASSUME FlowInv, session # "gone", NEW r \in Roles, NEW s \in Sockets
                 PROVE  slot[r] = s <=> sock[s].role = r /\ sock[s].pc \notin {"connect", "done"}
      BY DEF SlotOwned
    <2>1. s # 0
      BY SocketFacts DEF FlowInv, RelayInv, RelayType
    <2> QED BY <2>1 DEF FlowInv, RelayInv, Slots, Active
  <1> QED BY <1>1, FlowInductive, PTL

\* A socket past its replay with an empty channel was written the last message
\* meant for its role.
THEOREM NoMessageLostOnRejoin == Spec => []HandoverComplete
  <1>1. FlowInv => HandoverComplete
    <2> SUFFICES ASSUME FlowInv, NEW r \in Roles, slot[r] # 0, PeerQuiet(r), sock[slot[r]].pc = "loop",
                        sock[slot[r]].chan = <<>>, buffer[r] # None
                 PROVE  sock[slot[r]].last = buffer[r]
      BY DEF HandoverComplete
    <2>1. sock[slot[r]].replay = None
      BY SocketFacts DEF FlowInv, RelayInv, RelayType, Slots, Handlers, Placed
    <2>2. ~Underway(r)
      BY DEF Underway, PeerQuiet, Passing
    <2>3. Holds(sock[slot[r]], buffer[r])
      BY <2>2 DEF FlowInv, RelayInv, Handed
    <2>4. ~LastIn(sock[slot[r]].chan, buffer[r])
      BY DEF LastIn
    <2> QED BY <2>1, <2>3, <2>4 DEF Holds, Latest
  <1> QED BY <1>1, FlowInductive, PTL

\* /verify takes the nonce of a session once.
THEOREM NonceTakenOnce == Spec => []NonceOnce
  <1>1. FlowInv => NonceOnce
    BY DEF FlowInv
  <1> QED BY <1>1, FlowInductive, PTL

\* A valid result follows the holder's proof, a denial the holder's denial.
THEOREM VerdictIsTheHolders == Spec => []VerdictFromHolder
  <1>1. FlowInv => VerdictFromHolder
    BY DEF FlowInv
  <1> QED BY <1>1, FlowInductive, PTL
=============================================================================
