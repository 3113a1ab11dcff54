----------------------------- MODULE WsConnection -----------------------------
(***************************************************************************)
(* One WebSocket connection of a protocol server and its subscription to   *)
(* the event bus, bus.rs: a forward client of server/onebot_v11.rs,        *)
(* onebot_v12.rs or satori.rs (in crates/ferroq-gateway/src), or the       *)
(* reverse connection of onebot_v11.rs, which is dialled again after each  *)
(* loss.                                                                   *)
(*                                                                         *)
(* Four kinds of task share a bounded queue: the push task puts events     *)
(* into it or drops them, the API tasks and the reader wait for room, the  *)
(* writer empties it.  The reader runs at most MaxInFlight API tasks and   *)
(* answers the requests beyond itself; while it waits for room it reads    *)
(* nothing, not even the close of the connection.                          *)
(*                                                                         *)
(* An event is its number on the bus; a request is the echo its client     *)
(* chose.  Events on the bus are bounded by MaxEvents.  A v11 request that *)
(* does not parse is skipped and has no step.  The requests of a Satori    *)
(* client are its pings, which the reader answers itself.  The backoff     *)
(* between two dials is left out.                                          *)
(***************************************************************************)
EXTENDS Naturals, Sequences, FiniteSets

CONSTANTS
  Requests,       \* API requests of the client, pings in Satori
  Malformed,      \* those whose action a v12 server cannot parse
  Protocols,      \* the servers: a subset of {"v11", "v12", "satori", "reverse"}
  QueueCapacity,  \* FERROQ_WS_OUTBOUND_QUEUE_CAPACITY
  MaxInFlight,    \* FERROQ_WS_API_MAX_IN_FLIGHT
  BusCapacity,    \* events the bus keeps for a slow subscriber
  MaxEvents,      \* bound on the events published
  AdapterEcho     \* the echo an adapter put on a request it forwarded

ASSUME WsAssumption ==
  /\ {QueueCapacity, MaxInFlight, BusCapacity} \subseteq Nat \ {0}
  /\ MaxEvents \in Nat
  /\ Protocols \subseteq {"v11", "v12", "satori", "reverse"}
  /\ Malformed \subseteq Requests
  /\ AdapterEcho \notin Requests

VARIABLES
  protocol,        \* which server has accepted the connection
  published,       \* events sent on the bus
  next,            \* the event the push task reads next
  first,           \* the first event after the subscription
  handler,         \* phase of the handler, which is the reader
  socket,          \* is the connection open or closed by the client
  pusher,          \* the push task
  writer,          \* the writer task
  writing,         \* the message it is sending: a sequence of at most one
  queue,           \* the outbound queue
  delivered,       \* what the client has received on this connection
  call,            \* phase of a request
  echo,            \* the echo of its reply
  ws_events_dropped, ws_connections,   \* stats, the first since the connection was made
  lagged           \* events skipped by a lagging subscriber, not counted by the code

busVars == <<published, next, first, lagged>>
taskVars == <<handler, pusher, writer>>
outVars == <<writing, queue, delivered>>
callVars == <<call, echo>>
statVars == <<ws_events_dropped, ws_connections>>
vars == <<protocol, busVars, taskVars, socket, outVars, callVars, statVars>>

EventMessage(n) == [kind |-> "event", event |-> n]
ReplyMessage(q, e) == [kind |-> "reply", request |-> q, echo |-> e]
Message == [kind : {"event"}, event : 1..MaxEvents]
             \cup [kind : {"reply"}, request : Requests, echo : Requests \cup {AdapterEcho}]

TypeOK ==
  /\ protocol \in Protocols
  /\ published \in 0..MaxEvents
  /\ next \in 1..published + 1
  /\ first \in 1..published + 1
  /\ handler \in {"new", "identifying", "ready", "open", "closed", "stopped"}
  /\ socket \in {"open", "closed"}
  /\ pusher \in {"running", "ended"}
  /\ writer \in {"running", "ended"}
  /\ writing \in Seq(Message) /\ Len(writing) <= 1
  /\ queue \in Seq(Message) /\ Len(queue) <= QueueCapacity
  /\ delivered \in Seq(Message)
  /\ call \in [Requests -> {"new", "running", "answered", "rejecting", "done", "old"}]
  /\ echo \in [Requests -> Requests \cup {AdapterEcho}]
  /\ \A q, r \in Requests : call[q] = "rejecting" /\ call[r] = "rejecting" => q = r
  /\ ws_events_dropped \in Nat
  /\ ws_connections \in {0, 1}
  /\ lagged \in Nat

Init ==
  /\ protocol \in Protocols
  /\ published = 0
  /\ next = 1
  /\ first = 1
  /\ handler = "new"
  /\ socket = "open"
  /\ pusher = "ended"
  /\ writer = "ended"
  /\ writing = <<>>
  /\ queue = <<>>
  /\ delivered = <<>>
  /\ call = [q \in Requests |-> "new"]
  /\ echo = [q \in Requests |-> q]
  /\ ws_events_dropped = 0
  /\ ws_connections = 0
  /\ lagged = 0

-----------------------------------------------------------------------------
(* The bus and the push task *)

\* A forwarding task publishes; a slow subscriber never holds it up.
Publish ==
  /\ published < MaxEvents
  /\ published' = published + 1
  /\ UNCHANGED <<protocol, next, first, lagged, taskVars, socket, outVars, callVars, statVars>>

\* The subscription and the tasks of a connection.
Open ==
  /\ handler' = "open"
  /\ next' = published + 1
  /\ first' = published + 1
  /\ pusher' = "running"
  /\ writer' = "running"

\* A forward OneBot client is counted and served at once.
Accept ==
  /\ protocol \in {"v11", "v12"}
  /\ handler = "new"
  /\ Open
  /\ ws_connections' = ws_connections + 1
  /\ UNCHANGED <<protocol, published, lagged, socket, outVars, callVars, ws_events_dropped>>

\* A Satori client is counted and has ten seconds to identify itself ...
AcceptSatori ==
  /\ protocol = "satori"
  /\ handler = "new"
  /\ handler' = "identifying"
  /\ ws_connections' = ws_connections + 1
  /\ UNCHANGED <<protocol, busVars, pusher, writer, socket, outVars, callVars, ws_events_dropped>>

\* ... fails to do so, has a wrong token or is gone before READY is sent ...
IdentifyFails ==
  /\ handler = "identifying"
  /\ handler' = "closed"
  /\ socket' = "closed"
  /\ ws_connections' = ws_connections - 1
  /\ UNCHANGED <<protocol, busVars, pusher, writer, outVars, callVars, ws_events_dropped>>

\* ... or gets READY, and only then is subscribed.
Ready ==
  /\ handler = "identifying"
  /\ socket = "open"
  /\ handler' = "ready"
  /\ UNCHANGED <<protocol, busVars, pusher, writer, socket, outVars, callVars, statVars>>

Subscribe ==
  /\ handler = "ready"
  /\ Open
  /\ UNCHANGED <<protocol, published, lagged, socket, outVars, callVars, statVars>>

\* A reverse connection is dialled, again after a loss: all its tasks and its
\* subscription are new.  Requests of the old one may still be running; their
\* replies go to a queue nobody reads.
Dial ==
  /\ protocol = "reverse"
  /\ handler \in {"new", "closed"}
  /\ Open
  /\ socket' = "open"
  /\ delivered' = <<>>
  /\ ws_events_dropped' = 0
  /\ lagged' = 0
  /\ call' = [q \in Requests |-> IF call[q] = "new" THEN "new" ELSE "old"]
  /\ UNCHANGED <<protocol, published, writing, queue, echo, ws_connections>>

\* stop_background_tasks ends the task that dials and reads, but not the
\* tasks it has spawned, which go on pushing and writing.
StopBackground ==
  /\ protocol = "reverse"
  /\ handler \in {"open", "closed"}
  /\ handler' = "stopped"
  /\ call' = [q \in Requests |-> IF call[q] = "rejecting" THEN "old" ELSE call[q]]
  /\ UNCHANGED <<protocol, busVars, pusher, writer, socket, outVars, echo, statVars>>

Unread == published + 1 - next

\* The bus has overwritten what the subscriber had not read: recv skips to
\* the oldest event left.
PushLag ==
  /\ pusher = "running"
  /\ Unread > BusCapacity
  /\ next' = published + 1 - BusCapacity
  /\ lagged' = lagged + Unread - BusCapacity
  /\ UNCHANGED <<protocol, published, first, taskVars, socket, outVars, callVars, statVars>>

HasEvent == pusher = "running" /\ Unread \in 1..BusCapacity

\* Tasks that wait for room in the queue.
Senders == {q \in Requests : call[q] \in {"answered", "rejecting"}}

\* Mutant: the event stays the next one.
PushQueue_Again ==
  /\ HasEvent
  /\ writer = "running"
  /\ Len(queue) < QueueCapacity
  /\ queue' = Append(queue, EventMessage(next))
  /\ UNCHANGED <<protocol, busVars, taskVars, socket, writing, delivered, callVars, statVars>>

\* try_send succeeds ...
PushQueue ==
  /\ HasEvent
  /\ writer = "running"
  /\ Len(queue) < QueueCapacity
  /\ queue' = Append(queue, EventMessage(next))
  /\ next' = next + 1
  /\ UNCHANGED <<protocol, published, first, lagged, taskVars, socket, writing, delivered, callVars,
                 statVars>>

\* Mutant: the drop is not counted.
PushDrop_Uncounted ==
  /\ HasEvent
  /\ writer = "running"
  /\ Len(queue) = QueueCapacity \/ Senders # {}
  /\ next' = next + 1
  /\ UNCHANGED <<protocol, published, first, lagged, taskVars, socket, outVars, callVars, statVars>>

\* ... or finds the queue full, or its room promised to a waiting sender ...
PushDrop ==
  /\ HasEvent
  /\ writer = "running"
  /\ Len(queue) = QueueCapacity \/ Senders # {}
  /\ next' = next + 1
  /\ ws_events_dropped' = ws_events_dropped + 1
  /\ UNCHANGED <<protocol, published, first, lagged, taskVars, socket, outVars, callVars, ws_connections>>

\* ... or closed, which ends the task.
PushEnd ==
  /\ HasEvent
  /\ writer = "ended"
  /\ pusher' = "ended"
  /\ UNCHANGED <<protocol, busVars, handler, writer, socket, outVars, callVars, statVars>>

-----------------------------------------------------------------------------
(* Requests *)

\* The reader waits for room for a reply of its own.
ReaderBlocked == \E q \in Requests : call[q] = "rejecting"

\* API tasks that hold a permit.
InFlight == {q \in Requests : call[q] \in {"running", "answered"}}

\* A request arrives and a permit is free: an API task is spawned.  The
\* reader itself answers one beyond the permits, one it cannot parse in v12 and
\* every ping in Satori.
ReadRequest(q) ==
  /\ handler = "open"
  /\ ~ReaderBlocked
  /\ call[q] = "new"
  /\ protocol # "v12" => q \notin Malformed
  /\ call' = [call EXCEPT ![q] =
       IF protocol # "satori" /\ q \notin Malformed /\ Cardinality(InFlight) < MaxInFlight
       THEN "running"
       ELSE "rejecting"]
  /\ UNCHANGED <<protocol, busVars, taskVars, socket, outVars, echo, statVars>>

\* route_named returns.  An error carries the echo of the request; v11 puts
\* it on a response too, v12 passes the adapter's on.
RouteReturn(q) ==
  /\ call[q] = "running"
  /\ call' = [call EXCEPT ![q] = "answered"]
  /\ \/ UNCHANGED echo
     \/ protocol = "v12" /\ echo' = [echo EXCEPT ![q] = AdapterEcho]
  /\ UNCHANGED <<protocol, busVars, taskVars, socket, outVars, statVars>>

\* Mutant: a reply that finds no room is dropped.
Reply_TrySend(q) ==
  /\ call[q] \in {"answered", "rejecting"}
  /\ queue' = IF writer = "running" /\ Len(queue) < QueueCapacity
                THEN Append(queue, ReplyMessage(q, echo[q])) ELSE queue
  /\ call' = [call EXCEPT ![q] = "done"]
  /\ UNCHANGED <<protocol, busVars, taskVars, socket, writing, delivered, echo, statVars>>

\* Mutant: the end of the writer does not wake a sender.
Reply_NotWoken(q) ==
  /\ call[q] \in {"answered", "rejecting"}
  /\ writer = "running"
  /\ Len(queue) < QueueCapacity
  /\ queue' = Append(queue, ReplyMessage(q, echo[q]))
  /\ call' = [call EXCEPT ![q] = "done"]
  /\ UNCHANGED <<protocol, busVars, taskVars, socket, writing, delivered, echo, statVars>>

\* Mutant: the reader goes on with a request it has rejected.
Reply_NoContinue(q) ==
  /\ call[q] \in {"answered", "rejecting"}
  /\ writer = "running"
  /\ Len(queue) < QueueCapacity
  /\ queue' = Append(queue, ReplyMessage(q, echo[q]))
  /\ call' = [call EXCEPT ![q] = IF @ = "rejecting" THEN "running" ELSE "done"]
  /\ UNCHANGED <<protocol, busVars, taskVars, socket, writing, delivered, echo, statVars>>

\* send().await waits for room, or fails once the writer is gone; either way
\* the permit is released.
Reply(q) ==
  /\ call[q] \in {"answered", "rejecting"}
  /\ \/ /\ writer = "running"
        /\ Len(queue) < QueueCapacity
        /\ queue' = Append(queue, ReplyMessage(q, echo[q]))
     \/ writer = "ended" /\ UNCHANGED queue
  /\ call' = [call EXCEPT ![q] = "done"]
  /\ UNCHANGED <<protocol, busVars, taskVars, socket, writing, delivered, echo, statVars>>

-----------------------------------------------------------------------------
(* The writer and the end of the connection *)

WriterTake ==
  /\ writer = "running"
  /\ writing = <<>>
  /\ queue # <<>>
  /\ writing' = <<Head(queue)>>
  /\ queue' = Tail(queue)
  /\ UNCHANGED <<protocol, busVars, taskVars, socket, delivered, callVars, statVars>>

\* The client receives the message.
WriterSend ==
  /\ writing # <<>>
  /\ socket = "open"
  /\ delivered' = delivered \o writing
  /\ writing' = <<>>
  /\ UNCHANGED <<protocol, busVars, taskVars, socket, queue, callVars, statVars>>

\* A send on a closed connection fails, which closes the queue.
WriterFail ==
  /\ writing # <<>>
  /\ socket = "closed"
  /\ writer' = "ended"
  /\ writing' = <<>>
  /\ queue' = <<>>
  /\ UNCHANGED <<protocol, busVars, handler, pusher, socket, delivered, callVars, statVars>>

\* A send on a closed connection may also vanish in the send buffer.
WriterLose ==
  /\ writing # <<>>
  /\ socket = "closed"
  /\ writing' = <<>>
  /\ UNCHANGED <<protocol, busVars, taskVars, socket, queue, delivered, callVars, statVars>>

\* The client or the network closes the connection.
ClientClose ==
  /\ handler \notin {"new", "closed"}
  /\ socket = "open"
  /\ socket' = "closed"
  /\ UNCHANGED <<protocol, busVars, taskVars, outVars, callVars, statVars>>

\* The reader sees the close; it aborts the push and the writer task.  API
\* tasks go on.
HandlerEnd ==
  /\ handler = "open"
  /\ ~ReaderBlocked
  /\ socket = "closed"
  /\ handler' = "closed"
  /\ pusher' = "ended"
  /\ writer' = "ended"
  /\ writing' = <<>>
  /\ queue' = <<>>
  /\ ws_connections' = IF protocol = "reverse" THEN ws_connections ELSE ws_connections - 1
  /\ UNCHANGED <<protocol, busVars, socket, delivered, callVars, ws_events_dropped>>

WriterStep == WriterTake \/ WriterSend \/ WriterFail \/ WriterLose

Next ==
  \/ Publish
  \/ Accept \/ AcceptSatori \/ IdentifyFails \/ Ready \/ Subscribe
  \/ Dial \/ StopBackground
  \/ PushLag \/ PushQueue \/ PushDrop \/ PushEnd
  \/ \E q \in Requests : ReadRequest(q) \/ RouteReturn(q) \/ Reply(q)
  \/ WriterStep \/ ClientClose \/ HandlerEnd

Spec == Init /\ [][Next]_vars

\* Tasks are scheduled and adapters bound their calls by a timeout; the
\* client is not required to read.
FairSpec ==
  /\ Spec
  /\ WF_vars(WriterTake) /\ WF_vars(WriterFail \/ WriterLose) /\ WF_vars(HandlerEnd)
  /\ WF_vars(IdentifyFails) /\ WF_vars(Subscribe)
  /\ \A q \in Requests : WF_vars(RouteReturn(q)) /\ WF_vars(Reply(q))

-----------------------------------------------------------------------------
(* Properties *)

\* What the client has received and what is on its way, in order.
Outbound == delivered \o writing \o queue
Events == {i \in DOMAIN Outbound : Outbound[i].kind = "event"}
Replies(q) == {i \in DOMAIN Outbound : Outbound[i].kind = "reply" /\ Outbound[i].request = q}

\* A client receives events in the order of the bus, none twice, whatever the
\* bus and the queue have dropped in between.
EventsInOrder == \A i, j \in Events : i < j => Outbound[i].event < Outbound[j].event

\* While the connection is open, every event since the subscription was delivered, is
\* on its way, was counted as dropped or was skipped by the bus: the dropped
\* counter misses exactly the lagged ones.  (With the types: the queue stays
\* within its capacity.)
EventsAccounted ==
  /\ TypeOK
  /\ handler = "open" /\ socket = "open" =>
       next - first = Cardinality(Events) + ws_events_dropped + lagged

\* While the connection is open, a request that is done has exactly one reply on its
\* way and any other request has none; the reply carries the echo of its request
\* (api.rs:42-43), but in v12, where several requests may be in flight and
\* their replies come in any order.
AnsweredOnce ==
  handler = "open" /\ socket = "open" =>
    \A q \in Requests :
      /\ IF call[q] = "done" THEN \E i \in Replies(q) : Replies(q) = {i} ELSE Replies(q) = {}
      /\ protocol # "v12" => \A i \in Replies(q) : Outbound[i].echo = q

\* The handler of a closed connection ends and the connection is no longer
\* counted, though the reader may be waiting for room in a full queue.
ClosedIsCleaned == (socket = "closed") ~> (handler \in {"closed", "stopped"} /\ ws_connections = 0)

\* A client that goes on reading gets a reply to each request that was read,
\* loses its connection, or the process is ending: neither full queues nor used-up permits lose one.
ClientReads == WF_vars(WriterSend)
ReadIsAnswered == ClientReads =>
  \A q \in Requests : (call[q] \notin {"new", "old"}) ~>
    \/ socket = "closed" \/ handler = "stopped"
    \/ \E i \in DOMAIN delivered : delivered[i].kind = "reply" /\ delivered[i].request = q

=============================================================================
