------------------------------- MODULE Fanout -------------------------------
(***************************************************************************)
(* The event fanout (cmd/fanout): a subscriber forwards the events Redis   *)
(* publishes to the hub, one goroutine that keeps the connections of each  *)
(* user and puts every event of a user into the send channel of each of    *)
(* the user's connections.  A connection has two more goroutines:          *)
(* writePump takes from the channel and writes frames, readPump notices    *)
(* that the peer is gone and has the connection unregistered.              *)
(*                                                                         *)
(* A send on a closed channel, or a second close, is a panic that nobody   *)
(* recovers: the process ends.                                             *)
(***************************************************************************)
EXTENDS Integers, Sequences, FiniteSets

CONSTANTS
    Client,     \* connections
    User,
    Username,   \* the user of each connection
    SendCap,    \* capacity of a send channel (512)
    QueueCap,   \* capacity of the broadcast channel (256)
    MaxEvents   \* bound on the events published

ASSUME FanoutAssumption ==
    /\ Username \in [Client -> User]
    /\ {SendCap, QueueCap, MaxEvents} \subseteq Nat

VARIABLES
    published,    \* events published so far
    broadcast,    \* channel hub.broadcast
    connections,  \* the clients of each user, in order
    client,       \* per connection: see ClientState
    panicked,
    sent,         \* history: the events of each user the hub has handled
    from          \* history: how many of them when the client was registered

vars == <<published, broadcast, connections, client, panicked, sent, from>>

Message == [username: User, data: Nat]

\* send, closed: the channel; conn: "none" before the upgrade, "open", then
\* "closed" by the peer or by a pump; reader, writer: the two pumps; burst:
\* what writePump still has to write of what it found queued; got: the frames
\* the peer was sent; overflowed: the hub has found the channel full.
ClientState ==
    [send: Seq(Nat), closed: BOOLEAN, conn: {"none", "open", "closed"},
     reader: {"none", "registering", "reading", "leaving", "closing", "done"},
     writer: {"none", "running", "done"}, burst: Nat, got: Seq(Nat), overflowed: BOOLEAN]

NoClient ==
    [send |-> <<>>, closed |-> FALSE, conn |-> "none", reader |-> "none", writer |-> "none",
     burst |-> 0, got |-> <<>>, overflowed |-> FALSE]

Init ==
    /\ published = 0
    /\ broadcast = <<>>
    /\ connections = [u \in User |-> <<>>]
    /\ client = [c \in Client |-> NoClient]
    /\ panicked = FALSE
    /\ sent = [u \in User |-> <<>>]
    /\ from = [c \in Client |-> 0]

Registered(c) == \E i \in DOMAIN connections[Username[c]] : connections[Username[c]][i] = c

-----------------------------------------------------------------------------
(* The subscriber. *)

\* An event on channel workflow:events:<user>; the send waits while the
\* broadcast channel is full.  A channel name of another form is skipped.
Forward(u) ==
    /\ published < MaxEvents
    /\ Len(broadcast) < QueueCap
    /\ published' = published + 1
    /\ broadcast' = Append(broadcast, [username |-> u, data |-> published + 1])
    /\ UNCHANGED <<connections, client, panicked, sent, from>>

-----------------------------------------------------------------------------
(* The hub. *)

\* HandleWebSocket upgrades the connection and waits for the hub.
HandleWebSocket(c) ==
    /\ client[c].conn = "none"
    /\ client' = [client EXCEPT ![c].conn = "open", ![c].reader = "registering"]
    /\ UNCHANGED <<published, broadcast, connections, panicked, sent, from>>

\* The hub takes it; HandleWebSocket starts the two pumps.
registerClient(c) ==
    /\ client[c].reader = "registering"
    /\ connections' = [connections EXCEPT ![Username[c]] = Append(@, c)]
    /\ client' = [client EXCEPT ![c].reader = "reading", ![c].writer = "running"]
    /\ from' = [from EXCEPT ![c] = Len(sent[Username[c]])]
    /\ UNCHANGED <<published, broadcast, panicked, sent>>

\* The list without the first entry that is c.
Without(s, c) ==
    LET at == {i \in DOMAIN s : s[i] = c}
        first == CHOOSE i \in at : \A j \in at : i <= j
    IN  IF at = {} THEN s ELSE SubSeq(s, 1, first - 1) \o SubSeq(s, first + 1, Len(s))

\* The client is taken out of the list and its channel closed, if it is there.
unregisterClient(c) ==
    /\ client[c].reader = "leaving"
    /\ connections' = [connections EXCEPT ![Username[c]] = Without(@, c)]
    /\ panicked' = (Registered(c) /\ client[c].closed)
    /\ client' = [client EXCEPT ![c].reader = "closing", ![c].closed = @ \/ Registered(c)]
    /\ UNCHANGED <<published, broadcast, sent, from>>

\* Mutant: a full channel skips the event.
DeliverDropping(c, data) ==
    IF Len(client[c].send) < SendCap THEN [client[c] EXCEPT !.send = Append(@, data)]
    ELSE client[c]

\* Mutant: the event is queued beyond the capacity.
DeliverUnbounded(c, data) == [client[c] EXCEPT !.send = Append(@, data)]

\* The non-blocking send: into the channel, or, if it is full, the channel is
\* closed; the client stays in the list.
Deliver(c, data) ==
    IF Len(client[c].send) < SendCap THEN [client[c] EXCEPT !.send = Append(@, data)]
    ELSE [client[c] EXCEPT !.closed = TRUE, !.overflowed = TRUE]

\* To every connection of the user.  The channels are apart from each other, so
\* it does not matter that writePumps take from them during the loop.
broadcastToUsername ==
    LET m == Head(broadcast)
        to == {c \in Client : Username[c] = m.username /\ Registered(c)}
    IN  /\ broadcast # <<>>
        /\ broadcast' = Tail(broadcast)
        /\ panicked' = \E c \in to : client[c].closed
        /\ client' = [c \in Client |-> IF c \in to THEN Deliver(c, m.data) ELSE client[c]]
        /\ sent' = [sent EXCEPT ![m.username] = Append(@, m.data)]
        /\ UNCHANGED <<published, connections, from>>

-----------------------------------------------------------------------------
(* The pumps. *)

\* Mutant: the channel is closed here, too.
ExitClosing(c) ==
    [client[c] EXCEPT !.writer = "done", !.burst = 0, !.closed = TRUE,
                      !.conn = "closed"]

\* Mutant: the connection is left open.
ExitLeavingOpen(c) == [client[c] EXCEPT !.writer = "done", !.burst = 0]

\* The pump ends: the connection is closed, the channel is not.
Exit(c) ==
    [client[c] EXCEPT !.writer = "done", !.burst = 0,
                      !.conn = "closed"]

\* Mutant: the burst is counted before the first frame is taken.
BurstCountedEarly(c) ==
    IF client[c].burst > 0 THEN client[c].burst - 1 ELSE Len(client[c].send)

\* After the first frame, as many as are queued by then; then back to select.
Burst(c) == IF client[c].burst > 0 THEN client[c].burst - 1 ELSE Len(client[c].send) - 1

\* A queued event is written as a frame, or the write fails and the pump ends.
\* In a burst nothing else is looked at.
WriteFrame(c) ==
    /\ client[c].writer = "running"
    /\ client[c].send # <<>>
    /\ \/ /\ client[c].conn = "open"
          /\ client' = [client EXCEPT ![c].send = Tail(@), ![c].got = Append(@, Head(client[c].send)),
                                      ![c].burst = Burst(c)]
       \/ client' = [client EXCEPT ![c] = [Exit(c) EXCEPT !.send = Tail(@)]]
    /\ UNCHANGED <<published, broadcast, connections, panicked, sent, from>>

\* The channel is closed and empty: a close frame, and the pump ends.
WriteClose(c) ==
    /\ client[c].writer = "running"
    /\ client[c].closed /\ client[c].send = <<>>
    /\ client' = [client EXCEPT ![c] = Exit(c)]
    /\ UNCHANGED <<published, broadcast, connections, panicked, sent, from>>

\* A ping cannot be written.
PingFails(c) ==
    /\ client[c].writer = "running"
    /\ client[c].burst = 0
    /\ client[c].conn # "open"
    /\ client' = [client EXCEPT ![c] = Exit(c)]
    /\ UNCHANGED <<published, broadcast, connections, panicked, sent, from>>

\* Mutant: the client is not unregistered.
ReadFailsOnly(c) ==
    /\ client[c].reader = "reading"
    /\ client' = [client EXCEPT ![c].reader = "done", ![c].conn = "closed"]
    /\ UNCHANGED <<published, broadcast, connections, panicked, sent, from>>

\* ReadMessage fails, on a closed connection or on one that can still be written
\* to (no pong for pongWait, a message that is too long): readPump waits for the
\* hub to unregister the client.
ReadFails(c) ==
    /\ client[c].reader = "reading"
    /\ client' = [client EXCEPT ![c].reader = "leaving"]
    /\ UNCHANGED <<published, broadcast, connections, panicked, sent, from>>

\* Unregistered, readPump closes the connection and ends.
CloseConn(c) ==
    /\ client[c].reader = "closing"
    /\ client' = [client EXCEPT ![c].reader = "done", ![c].conn = "closed"]
    /\ UNCHANGED <<published, broadcast, connections, panicked, sent, from>>

PeerGone(c) ==
    /\ client[c].conn = "open"
    /\ client' = [client EXCEPT ![c].conn = "closed"]
    /\ UNCHANGED <<published, broadcast, connections, panicked, sent, from>>

-----------------------------------------------------------------------------

Next ==
    /\ ~panicked
    /\ \/ \E u \in User : Forward(u)
       \/ \E c \in Client :
             \/ HandleWebSocket(c)
             \/ registerClient(c)
             \/ unregisterClient(c)
             \/ WriteFrame(c)
             \/ WriteClose(c)
             \/ PingFails(c)
             \/ ReadFails(c)
             \/ CloseConn(c)
             \/ PeerGone(c)
       \/ broadcastToUsername

Spec == Init /\ [][Next]_vars

\* select takes each of its cases again and again; a write and a read end, by
\* their deadlines if not otherwise.
FairSpec ==
    /\ Spec
    /\ WF_vars(~panicked /\ broadcastToUsername)
    /\ \A c \in Client :
          /\ WF_vars(~panicked /\ registerClient(c))
          /\ WF_vars(~panicked /\ unregisterClient(c))
          /\ WF_vars(~panicked /\ (WriteFrame(c) \/ WriteClose(c) \/ PingFails(c)))
          /\ WF_vars(~panicked /\ client[c].conn = "closed" /\ ReadFails(c))
          /\ WF_vars(~panicked /\ CloseConn(c))

-----------------------------------------------------------------------------

\* The channels, the connections and the pumps hold what their types say.
TypeOK ==
    /\ published \in 0..MaxEvents
    /\ broadcast \in Seq(Message) /\ Len(broadcast) <= QueueCap
    /\ connections \in [User -> Seq(Client)]
    /\ client \in [Client -> ClientState]
    /\ \A c \in Client : Len(client[c].send) <= SendCap
    /\ panicked \in BOOLEAN
    /\ sent \in [User -> Seq(Nat)]
    /\ from \in [Client -> Nat]

\* What the hub has handled for the user of c since c was registered.
SinceRegistered(c) == SubSeq(sent[Username[c]], from[c] + 1, Len(sent[Username[c]]))

IsPrefixOf(s, t) == Len(s) <= Len(t) /\ s = SubSeq(t, 1, Len(s))

\* A peer gets its user's events without a gap and in order from the moment it
\* is registered: a slow one is cut off, it never misses an event in between.
\* What it has got is the front of them, and while its channel is open and its
\* writePump runs, what it has got and what is queued are all of them.
Gapless ==
    \A c \in Client : client[c].writer # "none" =>
        /\ IsPrefixOf(client[c].got, SinceRegistered(c))
        /\ ~client[c].closed /\ client[c].writer = "running" =>
              client[c].got \o client[c].send = SinceRegistered(c)

\* Within a burst there is a queued event for every frame to be written: the
\* pump neither waits in there nor writes a frame from a closed channel.
BurstBacked == \A c \in Client : client[c].burst <= Len(client[c].send)

\* The process panics only after a send channel has been full.
PanicsAfterOverflow == panicked => \E c \in Client : client[c].overflowed

\* A connection whose peer is gone is unregistered, unless the process ends.
GoneIsUnregistered ==
    \A c \in Client : (client[c].conn = "closed") ~> (~Registered(c) \/ panicked)

\* An event that the hub has queued is written, or its connection ends.
QueuedIsWritten ==
    \A c \in Client : (client[c].send # <<>>) ~> (client[c].send = <<>> \/ client[c].conn # "open" \/ panicked)

=============================================================================
