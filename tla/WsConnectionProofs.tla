-------------------------- MODULE WsConnectionProofs --------------------------
(***************************************************************************)
(* The safety properties of one WebSocket connection, for any number of    *)
(* requests and any capacity of the queue, the permits and the bus.        *)
(***************************************************************************)
EXTENDS WsConnection, FiniteSetTheorems, SequenceTheorems, TLAPS

\* Handlers that serve no connection yet, whose requests and tasks are all new.
Unopened == {"new", "identifying", "ready"}

\* Before the connection is opened nothing of it exists; only a Satori client
\* has to identify itself first.
Fresh ==
  /\ handler \in Unopened =>
       /\ delivered = <<>> /\ pusher = "ended"
       /\ ws_events_dropped = 0 /\ lagged = 0
       /\ \A q \in Requests : call[q] = "new"
  /\ handler \in {"identifying", "ready"} => protocol = "satori"

\* The writer runs while the handler serves an open socket and is gone with
\* the handler; a message is on its way only while it runs.
WriterAlive ==
  /\ handler = "open" /\ socket = "open" => writer = "running"
  /\ handler \in Unopened \cup {"closed"} => writer = "ended"
  /\ writer = "ended" => writing = <<>> /\ queue = <<>>

\* A forward connection is counted from its acceptance to its end.
Counted ==
  ws_connections = IF protocol # "reverse" /\ handler \in {"identifying", "ready", "open"}
                   THEN 1 ELSE 0

\* The push task is beyond every event it has pushed.
PushedBefore == \A i \in Events : Outbound[i].event < next

\* Only v12 hands on an echo that is not the request's.
EchoKept == protocol # "v12" => \A q \in Requests : echo[q] = q

IInv ==
  /\ TypeOK
  /\ Fresh
  /\ WriterAlive
  /\ Counted
  /\ PushedBefore
  /\ EchoKept
  /\ EventsInOrder
  /\ EventsAccounted
  /\ AnsweredOnce

-----------------------------------------------------------------------------
(* Messages and what is outbound *)

\* An event carries a number and a reply the request it is for.
LEMMA MessageFacts ==
  /\ \A m \in Message : /\ m.kind \in {"event", "reply"}
                        /\ m.kind = "event" => m.event \in Nat
                        /\ m.kind = "reply" => m.request \in Requests
  /\ \A n \in 1..MaxEvents : /\ EventMessage(n) \in Message
                             /\ EventMessage(n).kind = "event" /\ EventMessage(n).event = n
  /\ \A q \in Requests : \A e \in Requests \cup {AdapterEcho} :
       /\ ReplyMessage(q, e) \in Message
       /\ ReplyMessage(q, e).kind = "reply"
       /\ ReplyMessage(q, e).request = q /\ ReplyMessage(q, e).echo = e
<1>1. MaxEvents \in Nat
  BY WsAssumption DEF WsAssumption
<1>2. \A m \in Message : /\ m.kind \in {"event", "reply"}
                         /\ m.kind = "event" => m.event \in Nat
                         /\ m.kind = "reply" => m.request \in Requests
  BY <1>1 DEF Message
<1>3. \A n \in 1..MaxEvents : /\ EventMessage(n) \in Message
                              /\ EventMessage(n).kind = "event" /\ EventMessage(n).event = n
  BY DEF Message, EventMessage
<1>4. \A q \in Requests : \A e \in Requests \cup {AdapterEcho} :
        /\ ReplyMessage(q, e) \in Message
        /\ ReplyMessage(q, e).kind = "reply"
        /\ ReplyMessage(q, e).request = q /\ ReplyMessage(q, e).echo = e
  BY DEF Message, ReplyMessage
<1> QED
  BY <1>2, <1>3, <1>4

\* What is outbound is a sequence of messages.
LEMMA OutboundFacts ==
  ASSUME TypeOK
  PROVE  /\ Outbound \in Seq(Message)
         /\ Len(Outbound) \in Nat /\ DOMAIN Outbound = 1..Len(Outbound)
         /\ \A i \in DOMAIN Outbound : Outbound[i] \in Message
         /\ Len(Outbound) = Len(delivered) + Len(writing) + Len(queue)
<1>1. delivered \in Seq(Message) /\ writing \in Seq(Message) /\ queue \in Seq(Message)
  BY DEF TypeOK
<1>2. /\ delivered \o writing \in Seq(Message)
      /\ Len(delivered \o writing) = Len(delivered) + Len(writing)
  BY <1>1, ConcatProperties
<1>3. /\ Outbound \in Seq(Message)
      /\ Len(Outbound) = Len(delivered) + Len(writing) + Len(queue)
  BY <1>1, <1>2, ConcatProperties DEF Outbound
<1> QED
  BY <1>3, LenProperties, ElementOfSeq

\* There are finitely many events outbound, each with its number.
LEMMA EventsFacts ==
  ASSUME TypeOK
  PROVE  /\ IsFiniteSet(Events) /\ Cardinality(Events) \in Nat
         /\ \A i \in Events : i \in 1..Len(Outbound) /\ Outbound[i].event \in Nat
<1>1. Events \in SUBSET (1..Len(Outbound)) /\ Len(Outbound) \in Nat
  BY OutboundFacts DEF Events
<1>2. IsFiniteSet(1..Len(Outbound))
  BY <1>1, FS_Interval
<1>3. IsFiniteSet(Events)
  BY <1>1, <1>2, FS_Subset
<1>4. \A i \in Events : Outbound[i] \in Message /\ Outbound[i].kind = "event"
  BY OutboundFacts DEF Events
<1> QED
  BY <1>1, <1>3, <1>4, MessageFacts, FS_CardinalityType

\* With an empty outbound there are no events and no replies.
LEMMA NothingOutbound ==
  ASSUME delivered = <<>>, writing = <<>>, queue = <<>>
  PROVE  Events = {} /\ \A q \in Requests : Replies(q) = {}
<1>1. Outbound = <<>>
  BY ConcatEmptySeq, EmptySeq DEF Outbound
<1>2. DOMAIN Outbound = {}
  BY <1>1
<1> QED
  BY <1>2 DEF Events, Replies

\* What a step that puts a message into the queue does to what is outbound.
LEMMA AppendOutbound ==
  ASSUME TypeOK, NEW m \in Message, queue' = Append(queue, m), UNCHANGED <<delivered, writing>>
  PROVE  /\ DOMAIN Outbound' = 1..Len(Outbound) + 1
         /\ \A i \in 1..Len(Outbound) : Outbound'[i] = Outbound[i]
         /\ Outbound'[Len(Outbound) + 1] = m
<1>1. /\ delivered \in Seq(Message) /\ writing \in Seq(Message) /\ queue \in Seq(Message)
      /\ <<m>> \in Seq(Message)
  BY DEF TypeOK
<1>2. delivered \o writing \in Seq(Message) /\ Outbound \in Seq(Message)
  BY <1>1, ConcatProperties, OutboundFacts
<1>3. queue' = queue \o <<m>>
  BY <1>1, AppendIsConcat
<1>4. Outbound' = Outbound \o <<m>>
  BY <1>1, <1>2, <1>3, ConcatAssociative DEF Outbound
<1>5. Outbound' = Append(Outbound, m)
  BY <1>2, <1>4, AppendIsConcat
<1> QED
  BY <1>2, <1>5, AppendProperties, LenProperties

\* The writer moves messages on without changing their order.
LEMMA MovedOutbound ==
  ASSUME TypeOK, WriterTake \/ WriterSend
  PROVE  Outbound' = Outbound
<1>1. delivered \in Seq(Message) /\ writing \in Seq(Message) /\ queue \in Seq(Message)
  BY DEF TypeOK
<1>2. CASE WriterTake
  <2>1. /\ writing = <<>> /\ queue # <<>> /\ delivered' = delivered
        /\ writing' = <<Head(queue)>> /\ queue' = Tail(queue)
    BY <1>2 DEF WriterTake
  <2>2. queue = <<Head(queue)>> \o Tail(queue)
    BY <1>1, <2>1
  <2>3. <<Head(queue)>> \in Seq(Message) /\ Tail(queue) \in Seq(Message)
    BY <1>1, <2>1, HeadTailProperties
  <2>4. (delivered \o <<Head(queue)>>) \o Tail(queue) = delivered \o queue
    BY <1>1, <2>2, <2>3, ConcatAssociative
  <2>5. Outbound = delivered \o queue
    BY <1>1, <2>1, ConcatEmptySeq DEF Outbound
  <2> QED BY <2>1, <2>4, <2>5 DEF Outbound
<1>3. CASE WriterSend
  <2>1. delivered' = delivered \o writing /\ writing' = <<>> /\ queue' = queue
    BY <1>3 DEF WriterSend
  <2>2. delivered \o writing \in Seq(Message)
    BY <1>1, ConcatProperties
  <2>3. (delivered \o writing) \o <<>> = delivered \o writing
    BY <2>2, ConcatEmptySeq
  <2> QED BY <2>1, <2>3 DEF Outbound
<1> QED BY <1>2, <1>3

\* When the message being sent is lost, or the queue with it, what is left is
\* a part of what was outbound, in the same order.
LEMMA LostOutbound ==
  ASSUME TypeOK, delivered' = delivered, writing' = <<>>, queue' \in {queue, <<>>}
  PROVE  \E n \in Nat : \E k \in Nat :
           /\ DOMAIN Outbound' \in SUBSET Nat
           /\ \A i \in DOMAIN Outbound' :
                LET j == IF i <= n THEN i ELSE i + k
                IN  j \in DOMAIN Outbound /\ Outbound'[i] = Outbound[j]
<1>1. delivered \in Seq(Message) /\ writing \in Seq(Message) /\ queue \in Seq(Message)
  BY DEF TypeOK
<1>2. Len(delivered) \in Nat /\ Len(writing) \in Nat /\ Len(queue) \in Nat
  BY <1>1, LenProperties
<1>3. /\ delivered \o writing \in Seq(Message)
      /\ Len(delivered \o writing) = Len(delivered) + Len(writing)
      /\ \A i \in 1..Len(delivered) + Len(writing) :
           (delivered \o writing)[i] = IF i <= Len(delivered) THEN delivered[i]
                                                             ELSE writing[i - Len(delivered)]
  BY <1>1, ConcatProperties
<1>4. \A i \in 1..Len(delivered) + Len(writing) + Len(queue) :
        Outbound[i] = IF i <= Len(delivered) + Len(writing) THEN (delivered \o writing)[i]
                      ELSE queue[i - (Len(delivered) + Len(writing))]
  BY <1>1, <1>3, ConcatProperties DEF Outbound
<1>5. DOMAIN Outbound = 1..Len(delivered) + Len(writing) + Len(queue)
  BY OutboundFacts
<1>6. queue' \in Seq(Message) /\ delivered \o <<>> = delivered
  <2>1. <<>> \in Seq(Message)
    BY EmptySeq
  <2>2. delivered \o <<>> = delivered
    BY <1>1, ConcatEmptySeq
  <2> QED BY <1>1, <2>1, <2>2
<1>7. Outbound' = delivered \o queue'
  BY <1>6 DEF Outbound
<1>8. /\ Outbound' \in Seq(Message)
      /\ Len(Outbound') = Len(delivered) + Len(queue')
      /\ \A i \in 1..Len(delivered) + Len(queue') :
           Outbound'[i] = IF i <= Len(delivered) THEN delivered[i] ELSE queue'[i - Len(delivered)]
  BY <1>1, <1>6, <1>7, ConcatProperties
<1>9. DOMAIN Outbound' = 1..Len(delivered) + Len(queue')
  BY <1>8, LenProperties
<1>10. Len(queue') \in 0..Len(queue) /\ \A i \in 1..Len(queue') : queue'[i] = queue[i]
  BY <1>2
<1>11. ASSUME NEW i \in DOMAIN Outbound'
       PROVE  LET j == IF i <= Len(delivered) THEN i ELSE i + Len(writing)
              IN  j \in DOMAIN Outbound /\ Outbound'[i] = Outbound[j]
  <2>1. i \in 1..Len(delivered) + Len(queue')
    BY <1>9, <1>11
  <2>2. CASE i <= Len(delivered)
    <3>1. i \in 1..Len(delivered) + Len(writing) + Len(queue) /\ i \in 1..Len(delivered) + Len(writing)
      BY <1>2, <1>10, <2>1, <2>2
    <3>2. Outbound[i] = delivered[i]
      BY <1>2, <1>3, <1>4, <2>2, <3>1
    <3>3. Outbound'[i] = delivered[i]
      BY <1>8, <2>1, <2>2
    <3> QED BY <1>5, <2>2, <3>1, <3>2, <3>3
  <2>3. CASE ~(i <= Len(delivered))
    <3>1. PICK d \in Nat : d = Len(delivered)
      BY <1>2
    <3>2. PICK w \in Nat : w = Len(writing)
      BY <1>2
    <3>3. /\ i + w \in 1..d + w + Len(queue) /\ ~(i + w <= d + w)
          /\ i - d \in 1..Len(queue') /\ (i + w) - (d + w) = i - d
      <4>1. PICK l \in Nat : l = Len(queue')
        BY <1>2, <1>10
      <4>2. PICK m \in Nat : m = Len(queue)
        BY <1>2
      <4>3. l <= m /\ i \in 1..d + l /\ ~(i <= d)
        BY <1>10, <2>1, <2>3, <3>1, <4>1, <4>2
      <4>4. /\ i + w \in 1..d + w + m /\ ~(i + w <= d + w)
            /\ i - d \in 1..l /\ (i + w) - (d + w) = i - d
        BY <4>3
      <4> QED BY <4>1, <4>2, <4>4
    <3>4. Outbound[i + w] = queue[(i + w) - (d + w)]
      BY <1>4, <3>1, <3>2, <3>3
    <3>5. Outbound'[i] = queue'[i - d]
      BY <1>8, <2>1, <2>3, <3>1
    <3>6. Outbound'[i] = Outbound[i + w]
      BY <1>10, <3>3, <3>4, <3>5
    <3> QED BY <1>5, <2>3, <3>1, <3>2, <3>3, <3>6
  <2> QED BY <2>2, <2>3
<1> QED
  BY <1>2, <1>9, <1>11

-----------------------------------------------------------------------------
(* Initial states and steps *)

\* What a proof about types may take from the invariant.
LEMMA Typed == ASSUME IInv PROVE TypeOK
BY DEF IInv

LEMMA InitIInv == Init => IInv
<1> SUFFICES ASSUME Init
             PROVE  IInv
  OBVIOUS
<1>1. Events = {} /\ \A q \in Requests : Replies(q) = {}
  BY NothingOutbound DEF Init
<1>2. <<>> \in Seq(Message) /\ Len(<<>>) = 0
  BY EmptySeq
<1>3. TypeOK
  BY <1>2, WsAssumption DEF Init, TypeOK, WsAssumption
<1>4. Fresh /\ WriterAlive /\ Counted /\ PushedBefore /\ EchoKept /\ EventsInOrder /\ AnsweredOnce
  BY <1>1 DEF Init, Fresh, WriterAlive, Counted, PushedBefore, EchoKept, EventsInOrder, AnsweredOnce, Unopened
<1>5. EventsAccounted
  BY <1>3 DEF Init, EventsAccounted
<1> QED
  BY <1>3, <1>4, <1>5 DEF IInv

\* What holds of the outbound messages still does when they stay as they are,
\* the push task does not go back and no request is completed.
LEMMA KeptOutbound ==
  ASSUME IInv, Outbound' = Outbound, protocol' = protocol, next' \in Nat, next <= next',
         handler' = "open" /\ socket' = "open" => handler = "open" /\ socket = "open",
         \A q \in Requests : call'[q] = "done" <=> call[q] = "done"
  PROVE  /\ Events' = Events
         /\ PushedBefore' /\ EventsInOrder' /\ AnsweredOnce'
<1>1. TypeOK /\ PushedBefore /\ EventsInOrder /\ AnsweredOnce /\ next \in Nat
  BY DEF IInv, TypeOK
<1>2. Events' = Events
  BY DEF Events
<1>3. \A q \in Requests : Replies(q)' = Replies(q)
  BY DEF Replies
<1>4. \A i \in Events : Outbound[i].event \in Nat /\ Outbound[i].event < next
  BY <1>1, EventsFacts DEF PushedBefore
<1>5. PushedBefore'
  BY <1>1, <1>2, <1>4 DEF PushedBefore
<1>6. EventsInOrder'
  BY <1>1, <1>2 DEF EventsInOrder
<1>7. AnsweredOnce'
  BY <1>1, <1>3 DEF AnsweredOnce
<1> QED
  BY <1>2, <1>5, <1>6, <1>7

\* Steps that touch neither the outbound messages nor the counters of events.
LEMMA QuietStep ==
  ASSUME IInv, Publish \/ AcceptSatori \/ IdentifyFails \/ Ready \/ StopBackground \/ PushEnd
                 \/ ClientClose
  PROVE  IInv'
<1>1. /\ UNCHANGED <<protocol, next, first, lagged, writer, outVars, echo, ws_events_dropped>>
      /\ TypeOK /\ next \in Nat
  BY Typed DEF TypeOK, Publish, AcceptSatori, IdentifyFails, Ready, StopBackground, PushEnd, ClientClose,
         taskVars, statVars, busVars, callVars
<1>2. Outbound' = Outbound
  BY <1>1 DEF outVars, Outbound
<1>3. \A q \in Requests : call'[q] = "done" <=> call[q] = "done"
  <2>1. call' = call \/ call' = [q \in Requests |-> IF call[q] = "rejecting" THEN "old" ELSE call[q]]
    BY DEF Publish, AcceptSatori, IdentifyFails, Ready, StopBackground, PushEnd, ClientClose, callVars
  <2> QED BY <2>1
<1>4. handler' = "open" /\ socket' = "open" => handler = "open" /\ socket = "open"
  BY DEF Publish, AcceptSatori, IdentifyFails, Ready, StopBackground, PushEnd, ClientClose, taskVars
<1>5. Events' = Events /\ PushedBefore' /\ EventsInOrder' /\ AnsweredOnce'
  BY <1>1, <1>2, <1>3, <1>4, KeptOutbound
<1>6. TypeOK'
  <2>1. CASE Publish
    <3>1. published' \in 0..MaxEvents /\ next' \in 1..published' + 1 /\ first' \in 1..published' + 1
      BY <1>1, <2>1, WsAssumption DEF Publish, TypeOK, WsAssumption
    <3>2. UNCHANGED <<protocol, lagged, taskVars, socket, outVars, callVars, statVars>>
      BY <2>1 DEF Publish
    <3> QED BY <1>1, <3>1, <3>2 DEF TypeOK, taskVars, outVars, callVars, statVars
  <2>2. CASE AcceptSatori
    BY <1>1, <2>2 DEF AcceptSatori, TypeOK, IInv, Counted, busVars, outVars, callVars
  <2>3. CASE IdentifyFails
    <3>1. ws_connections \in {0, 1} /\ ws_connections' = ws_connections - 1
      BY <1>1, <2>3 DEF IdentifyFails, TypeOK
    <3>2. ws_connections = 1
      BY <2>3 DEF IInv, Fresh, Counted, IdentifyFails
    <3>3. ws_connections' \in {0, 1}
      BY <3>1, <3>2
    <3> QED BY <1>1, <2>3, <3>3 DEF IdentifyFails, TypeOK, busVars, outVars, callVars
  <2>4. CASE Ready
    BY <1>1, <2>4 DEF Ready, TypeOK, busVars, outVars, callVars, statVars
  <2>5. CASE StopBackground
    <3>1. /\ call' \in [Requests -> {"new", "running", "answered", "rejecting", "done", "old"}]
          /\ \A q, r \in Requests : call'[q] = "rejecting" /\ call'[r] = "rejecting" => q = r
      BY <1>1, <2>5 DEF StopBackground, TypeOK
    <3> QED BY <1>1, <2>5, <3>1 DEF StopBackground, TypeOK, busVars, outVars, statVars
  <2>6. CASE PushEnd
    BY <1>1, <2>6 DEF PushEnd, TypeOK, busVars, outVars, callVars, statVars
  <2>7. CASE ClientClose
    BY <1>1, <2>7 DEF ClientClose, TypeOK, busVars, taskVars, outVars, callVars, statVars
  <2> QED BY <2>1, <2>2, <2>3, <2>4, <2>5, <2>6, <2>7
<1>7. Fresh'
  BY <1>1 DEF IInv, Fresh, Publish, AcceptSatori, IdentifyFails, Ready, StopBackground, PushEnd, ClientClose,
              taskVars, outVars, statVars, callVars, Unopened
<1>8. WriterAlive'
  BY <1>1 DEF IInv, WriterAlive, Publish, AcceptSatori, IdentifyFails, Ready, StopBackground, PushEnd,
              ClientClose, taskVars, outVars, Unopened
<1>9. EchoKept'
  BY <1>1 DEF IInv, EchoKept
<1>10. Counted'
  <2>1. CASE AcceptSatori
    <3>1. ws_connections = 0
      BY <2>1 DEF IInv, Counted, AcceptSatori
    <3>2. ws_connections' = 1 /\ protocol' = "satori" /\ handler' = "identifying"
      BY <1>1, <2>1, <3>1 DEF AcceptSatori
    <3> QED BY <3>2 DEF Counted
  <2>2. CASE IdentifyFails
    <3>1. ws_connections = 1
      BY <2>2 DEF IInv, Fresh, Counted, IdentifyFails
    <3>2. ws_connections' = 0 /\ handler' = "closed"
      BY <2>2, <3>1 DEF IdentifyFails
    <3> QED BY <3>2 DEF Counted
  <2>3. CASE Publish \/ Ready \/ StopBackground \/ PushEnd \/ ClientClose
    BY <1>1, <2>3 DEF IInv, Counted, Publish, Ready, StopBackground, PushEnd, ClientClose, taskVars, statVars
  <2> QED BY <2>1, <2>2, <2>3
<1>11. EventsAccounted'
  <2>1. Cardinality(Events') = Cardinality(Events)
    BY <1>5
  <2>2. next' = next /\ first' = first /\ ws_events_dropped' = ws_events_dropped /\ lagged' = lagged
    BY <1>1
  <2> QED BY <1>4, <1>6, <2>1, <2>2 DEF IInv, EventsAccounted
<1> QED
  BY <1>5, <1>6, <1>7, <1>8, <1>9, <1>10, <1>11 DEF IInv

\* A connection that is opened starts with nothing outbound.
LEMMA OpenStep ==
  ASSUME IInv, Accept \/ Subscribe \/ Dial
  PROVE  IInv'
<1>1. /\ TypeOK /\ published \in Nat /\ published + 1 \in 1..published + 1
      /\ handler \in Unopened \cup {"closed"} /\ handler' = "open"
      /\ next' = published + 1 /\ first' = published + 1
      /\ pusher' = "running" /\ writer' = "running"
      /\ UNCHANGED <<protocol, published, writing, queue, echo>>
  BY Typed DEF TypeOK, Accept, Subscribe, Dial, Open, outVars, callVars, Unopened
<1>2. writing' = <<>> /\ queue' = <<>>
  BY <1>1 DEF IInv, WriterAlive
<1>3. delivered' = <<>> /\ ws_events_dropped' = 0 /\ lagged' = 0
  BY DEF IInv, Fresh, Accept, Subscribe, Dial, Unopened, outVars, statVars
<1>4. \A q \in Requests : call'[q] \in {"new", "old"}
  BY DEF IInv, Fresh, Accept, Subscribe, Dial, Unopened, callVars
<1>5. Events' = {} /\ \A q \in Requests : Replies(q)' = {}
  <2>1. Outbound' = <<>>
    BY <1>2, <1>3, ConcatEmptySeq, EmptySeq DEF Outbound
  <2>2. DOMAIN Outbound' = {}
    BY <2>1
  <2> QED BY <2>2 DEF Events, Replies
<1>6. TypeOK'
  <2>1. <<>> \in Seq(Message) /\ Len(<<>>) = 0
    BY EmptySeq
  <2>2. ws_connections' \in {0, 1}
    BY <1>1 DEF IInv, TypeOK, Counted, Accept, Subscribe, Dial, statVars
  <2>3. call' \in [Requests -> {"new", "running", "answered", "rejecting", "done", "old"}]
    BY <1>1 DEF TypeOK, Accept, Subscribe, Dial, callVars
  <2>4. socket' \in {"open", "closed"}
    BY <1>1 DEF TypeOK, Accept, Subscribe, Dial
  <2>5. next' \in 1..published' + 1 /\ first' \in 1..published' + 1 /\ lagged' \in Nat /\ ws_events_dropped' \in Nat
    BY <1>1, <1>3
  <2> QED BY <1>1, <1>2, <1>3, <1>4, <2>1, <2>2, <2>3, <2>4, <2>5 DEF TypeOK
<1>7. Fresh' /\ WriterAlive'
  BY <1>1 DEF Fresh, WriterAlive, Unopened
<1>8. Counted' /\ EchoKept'
  BY <1>1 DEF IInv, Counted, EchoKept, Accept, Subscribe, Dial, statVars
<1>9. PushedBefore' /\ EventsInOrder' /\ AnsweredOnce'
  BY <1>4, <1>5 DEF PushedBefore, EventsInOrder, AnsweredOnce
<1>10. EventsAccounted'
  <2>1. Cardinality(Events') = 0
    BY <1>5, FS_EmptySet
  <2> QED BY <1>1, <1>3, <1>6, <2>1 DEF EventsAccounted
<1> QED
  BY <1>6, <1>7, <1>8, <1>9, <1>10 DEF IInv

\* The push task skips what the bus has overwritten, or drops an event and
\* counts it: nothing is put into the queue.
LEMMA SkipStep ==
  ASSUME IInv, PushLag \/ PushDrop
  PROVE  IInv'
<1>1. /\ TypeOK /\ published \in Nat /\ next \in 1..published + 1 /\ first \in Nat
      /\ BusCapacity \in Nat \ {0} /\ lagged \in Nat /\ ws_events_dropped \in Nat
      /\ pusher = "running"
      /\ UNCHANGED <<protocol, published, first, handler, pusher, writer, socket, delivered, writing, queue,
                     call, echo, ws_connections>>
  <2>1. /\ TypeOK /\ published \in Nat /\ next \in 1..published + 1 /\ first \in Nat
        /\ BusCapacity \in Nat \ {0} /\ lagged \in Nat /\ ws_events_dropped \in Nat
    BY WsAssumption, Typed DEF TypeOK, WsAssumption
  <2>2. /\ pusher = "running"
        /\ UNCHANGED <<protocol, published, first, handler, pusher, writer, socket, delivered, writing, queue,
                       call, echo, ws_connections>>
    BY DEF PushLag, PushDrop, HasEvent, taskVars, outVars, callVars, statVars
  <2> QED BY <2>1, <2>2
<1>2. Outbound' = Outbound
  BY <1>1 DEF Outbound
<1>3. /\ next' \in 1..published + 1 /\ next <= next'
      /\ lagged' \in Nat /\ ws_events_dropped' \in Nat
      /\ next' - next = (lagged' - lagged) + (ws_events_dropped' - ws_events_dropped)
  <2>1. CASE PushLag
    <3>1. /\ published + 1 - next > BusCapacity
          /\ next' = published + 1 - BusCapacity
          /\ lagged' = lagged + (published + 1 - next) - BusCapacity
          /\ ws_events_dropped' = ws_events_dropped
      BY <2>1 DEF PushLag, Unread, statVars
    <3> QED BY <1>1, <3>1
  <2>2. CASE PushDrop
    <3>1. /\ published + 1 - next \in 1..BusCapacity
          /\ next' = next + 1 /\ lagged' = lagged /\ ws_events_dropped' = ws_events_dropped + 1
      BY <2>2 DEF PushDrop, HasEvent, Unread
    <3> QED BY <1>1, <3>1
  <2> QED BY <2>1, <2>2
<1>4. Events' = Events /\ PushedBefore' /\ EventsInOrder' /\ AnsweredOnce'
  BY <1>1, <1>2, <1>3, KeptOutbound
<1>5. TypeOK'
  BY <1>1, <1>3 DEF TypeOK
<1>6. Fresh' /\ WriterAlive' /\ Counted' /\ EchoKept'
  BY <1>1 DEF IInv, Fresh, WriterAlive, Counted, EchoKept
<1>7. EventsAccounted'
  <2>1. Cardinality(Events') = Cardinality(Events) /\ Cardinality(Events) \in Nat
    BY <1>1, <1>4, EventsFacts
  <2>2. handler = "open" /\ socket = "open" =>
          next - first = Cardinality(Events) + ws_events_dropped + lagged
    BY DEF IInv, EventsAccounted
  <2> QED BY <1>1, <1>3, <1>5, <2>1, <2>2 DEF EventsAccounted
<1> QED
  BY <1>4, <1>5, <1>6, <1>7 DEF IInv

\* The next event goes behind all others.
LEMMA PushQueueStep ==
  ASSUME IInv, PushQueue
  PROVE  IInv'
<1>1. /\ TypeOK /\ published \in 0..MaxEvents /\ next \in 1..published /\ first \in Nat
      /\ MaxEvents \in Nat /\ lagged \in Nat /\ ws_events_dropped \in Nat
      /\ pusher = "running" /\ writer = "running" /\ Len(queue) < QueueCapacity
      /\ queue' = Append(queue, EventMessage(next)) /\ next' = next + 1
      /\ UNCHANGED <<protocol, published, first, lagged, handler, pusher, writer, socket, delivered, writing,
                     call, echo, ws_events_dropped, ws_connections>>
  <2>1. /\ pusher = "running" /\ published + 1 - next \in 1..BusCapacity
        /\ writer = "running" /\ Len(queue) < QueueCapacity
        /\ queue' = Append(queue, EventMessage(next)) /\ next' = next + 1
        /\ UNCHANGED <<protocol, published, first, lagged, handler, pusher, writer, socket, delivered, writing,
                       call, echo, ws_events_dropped, ws_connections>>
    BY DEF PushQueue, HasEvent, Unread, taskVars, callVars, statVars
  <2>2. /\ TypeOK /\ published \in 0..MaxEvents /\ next \in 1..published + 1 /\ first \in Nat
        /\ MaxEvents \in Nat /\ lagged \in Nat /\ ws_events_dropped \in Nat /\ BusCapacity \in Nat
    BY WsAssumption, Typed DEF TypeOK, WsAssumption
  <2>3. next \in 1..published
    BY <2>1, <2>2
  <2> QED BY <2>1, <2>2, <2>3
<1>2. PICK n \in 1..MaxEvents : n = next
  BY <1>1
<1>3. PICK m \in Message : m = EventMessage(next) /\ m.kind = "event" /\ m.event = n
  BY <1>2, MessageFacts
<1>4. PICK l \in Nat : l = Len(Outbound)
  BY <1>1, OutboundFacts
<1>5. /\ DOMAIN Outbound = 1..l /\ DOMAIN Outbound' = 1..l + 1
      /\ \A i \in 1..l : Outbound'[i] = Outbound[i]
      /\ Outbound'[l + 1] = m
  BY <1>1, <1>3, <1>4, AppendOutbound, OutboundFacts
<1>6. Events' = Events \cup {l + 1} /\ l + 1 \notin Events
  BY <1>3, <1>5 DEF Events
<1>7. \A q \in Requests : Replies(q)' = Replies(q)
  BY <1>3, <1>5 DEF Replies
<1>8. \A i \in Events : /\ i \in 1..l /\ Outbound'[i] = Outbound[i]
                        /\ Outbound[i].event \in Nat /\ Outbound[i].event < n
  BY <1>1, <1>2, <1>4, <1>5, EventsFacts DEF IInv, PushedBefore
<1>9. PushedBefore'
  <2>1. SUFFICES ASSUME NEW i \in Events'
                 PROVE  Outbound'[i].event < next'
    BY DEF PushedBefore
  <2>2. next' = n + 1
    BY <1>1, <1>2
  <2> QED BY <1>3, <1>5, <1>6, <1>8, <2>1, <2>2
<1>10. EventsInOrder'
  <2>1. SUFFICES ASSUME NEW i \in Events', NEW j \in Events', i < j
                 PROVE  Outbound'[i].event < Outbound'[j].event
    BY DEF EventsInOrder
  <2>2. CASE j \in Events
    <3>1. i \in Events
      BY <1>5, <1>6, <1>8, <2>1, <2>2
    <3>2. Outbound[i].event < Outbound[j].event
      BY <2>1, <2>2, <3>1 DEF IInv, EventsInOrder
    <3> QED BY <1>8, <2>2, <3>1, <3>2
  <2>3. CASE j = l + 1
    <3>1. i \in Events
      BY <1>6, <2>1, <2>3
    <3> QED BY <1>3, <1>5, <1>8, <2>3, <3>1
  <2> QED BY <1>6, <2>1, <2>2, <2>3
<1>11. AnsweredOnce'
  <2>1. \A q \in Requests : \A i \in Replies(q) : i \in 1..l /\ Outbound'[i] = Outbound[i]
    BY <1>5 DEF Replies
  <2> QED BY <1>1, <1>7, <2>1 DEF IInv, AnsweredOnce
<1>12. TypeOK'
  <2>1. queue \in Seq(Message) /\ Len(queue) \in Nat /\ QueueCapacity \in Nat
    BY <1>1, WsAssumption DEF TypeOK, WsAssumption
  <2>2. queue' \in Seq(Message) /\ Len(queue') <= QueueCapacity
    BY <1>1, <1>3, <2>1, AppendProperties
  <2>3. next' \in 1..published' + 1
    BY <1>1
  <2> QED BY <1>1, <2>2, <2>3 DEF TypeOK
<1>13. Fresh' /\ WriterAlive' /\ Counted' /\ EchoKept'
  BY <1>1 DEF IInv, Fresh, WriterAlive, Counted, EchoKept
<1>14. EventsAccounted'
  <2>1. Cardinality(Events') = Cardinality(Events) + 1 /\ Cardinality(Events) \in Nat
    BY <1>1, <1>6, EventsFacts, FS_AddElement
  <2>2. handler = "open" /\ socket = "open" =>
          next - first = Cardinality(Events) + ws_events_dropped + lagged
    BY DEF IInv, EventsAccounted
  <2> QED BY <1>1, <1>12, <2>1, <2>2 DEF EventsAccounted
<1> QED
  BY <1>9, <1>10, <1>11, <1>12, <1>13, <1>14 DEF IInv

\* A request is read, or its routing returns: no reply moves.
LEMMA RequestStep ==
  ASSUME IInv, NEW q \in Requests, ReadRequest(q) \/ RouteReturn(q)
  PROVE  IInv'
<1>1. /\ TypeOK /\ next \in Nat /\ call \in [Requests -> {"new", "running", "answered", "rejecting", "done", "old"}]
      /\ echo \in [Requests -> Requests \cup {AdapterEcho}]
      /\ UNCHANGED <<protocol, published, next, first, lagged, handler, pusher, writer, socket, delivered,
                     writing, queue, ws_events_dropped, ws_connections>>
  BY Typed DEF TypeOK, ReadRequest, RouteReturn, busVars, taskVars, outVars, statVars
<1>2. Outbound' = Outbound
  BY <1>1 DEF Outbound
<1>3. PICK c \in {"running", "rejecting", "answered"} :
        /\ call' = [call EXCEPT ![q] = c] /\ call[q] \in {"new", "running"}
        /\ c = "rejecting" => ~ReaderBlocked
  BY DEF ReadRequest, RouteReturn
<1>4. \A r \in Requests : call'[r] = "done" <=> call[r] = "done"
  BY <1>1, <1>3
<1>5. Events' = Events /\ PushedBefore' /\ EventsInOrder' /\ AnsweredOnce'
  BY <1>1, <1>2, <1>4, KeptOutbound
<1>6. echo' = echo \/ (protocol = "v12" /\ echo' = [echo EXCEPT ![q] = AdapterEcho])
  BY DEF ReadRequest, RouteReturn
<1>7. TypeOK'
  <2>1. call' \in [Requests -> {"new", "running", "answered", "rejecting", "done", "old"}]
    BY <1>1, <1>3
  <2>2. \A r, s \in Requests : call'[r] = "rejecting" /\ call'[s] = "rejecting" => r = s
    <3>1. CASE c = "rejecting"
      <4>1. \A r \in Requests : call[r] # "rejecting"
        BY <1>3, <3>1 DEF ReaderBlocked
      <4> QED BY <1>1, <1>3, <4>1
    <3>2. CASE c # "rejecting"
      <4>1. \A r, s \in Requests : call[r] = "rejecting" /\ call[s] = "rejecting" => r = s
        BY <1>1 DEF TypeOK
      <4> QED BY <1>1, <1>3, <3>2, <4>1
    <3> QED BY <3>1, <3>2
  <2>3. echo' \in [Requests -> Requests \cup {AdapterEcho}]
    BY <1>1, <1>6
  <2> QED BY <1>1, <2>1, <2>2, <2>3 DEF TypeOK
<1>8. Fresh'
  <2>1. handler \notin Unopened
    <3>1. CASE ReadRequest(q)
      BY <3>1 DEF ReadRequest, Unopened
    <3>2. CASE RouteReturn(q)
      BY <3>2 DEF IInv, Fresh, RouteReturn
    <3> QED BY <3>1, <3>2
  <2> QED BY <1>1, <2>1 DEF Fresh, Unopened
<1>9. WriterAlive' /\ Counted'
  BY <1>1 DEF IInv, WriterAlive, Counted
<1>10. EchoKept'
  BY <1>1, <1>6 DEF IInv, EchoKept
<1>11. EventsAccounted'
  <2>1. Cardinality(Events') = Cardinality(Events)
    BY <1>5
  <2>2. next' = next /\ first' = first /\ ws_events_dropped' = ws_events_dropped /\ lagged' = lagged
    BY <1>1
  <2> QED BY <1>1, <1>7, <2>1, <2>2 DEF IInv, EventsAccounted
<1> QED
  BY <1>5, <1>7, <1>8, <1>9, <1>10, <1>11 DEF IInv

\* A reply goes behind all other messages, or nowhere when the writer is gone.
LEMMA ReplyStep ==
  ASSUME IInv, NEW q \in Requests, Reply(q)
  PROVE  IInv'
<1>1. /\ TypeOK /\ next \in Nat /\ call \in [Requests -> {"new", "running", "answered", "rejecting", "done", "old"}]
      /\ echo \in [Requests -> Requests \cup {AdapterEcho}]
      /\ call' = [call EXCEPT ![q] = "done"] /\ call[q] \in {"answered", "rejecting"}
      /\ UNCHANGED <<protocol, published, next, first, lagged, handler, pusher, writer, socket, delivered,
                     writing, echo, ws_events_dropped, ws_connections>>
  BY Typed DEF TypeOK, Reply, busVars, taskVars, statVars
<1>2. handler \notin Unopened
  BY <1>1 DEF IInv, Fresh
<1>3. /\ call' \in [Requests -> {"new", "running", "answered", "rejecting", "done", "old"}]
      /\ \A r, s \in Requests : call'[r] = "rejecting" /\ call'[s] = "rejecting" => r = s
      /\ \A r \in Requests : r # q => call'[r] = call[r]
      /\ call'[q] = "done" /\ call[q] # "done"
  <2>1. \A r, s \in Requests : call[r] = "rejecting" /\ call[s] = "rejecting" => r = s
    BY <1>1 DEF TypeOK
  <2> QED BY <1>1, <2>1
<1>4. Fresh' /\ EchoKept' /\ Counted'
  BY <1>1, <1>2 DEF IInv, Fresh, EchoKept, Counted, Unopened
<1>5. CASE writer = "ended" /\ queue' = queue
  <2>1. Outbound' = Outbound
    BY <1>1, <1>5 DEF Outbound
  <2>2. Events' = Events
    BY <2>1 DEF Events
  <2>3. ~(handler = "open" /\ socket = "open")
    BY <1>5 DEF IInv, WriterAlive
  <2>4. PushedBefore' /\ EventsInOrder' /\ AnsweredOnce'
    BY <1>1, <2>1, <2>2, <2>3 DEF IInv, PushedBefore, EventsInOrder, AnsweredOnce
  <2>5. TypeOK'
    BY <1>1, <1>3, <1>5 DEF TypeOK
  <2>6. WriterAlive'
    BY <1>1, <1>5 DEF IInv, WriterAlive
  <2>7. EventsAccounted'
    BY <1>1, <2>3, <2>5 DEF EventsAccounted
  <2> QED BY <1>4, <2>4, <2>5, <2>6, <2>7 DEF IInv
<1>6. CASE writer = "running" /\ Len(queue) < QueueCapacity /\ queue' = Append(queue, ReplyMessage(q, echo[q]))
  <2>1. echo[q] \in Requests \cup {AdapterEcho}
    BY <1>1
  <2>2. PICK m \in Message : /\ m = ReplyMessage(q, echo[q])
                             /\ m.kind = "reply" /\ m.request = q /\ m.echo = echo[q]
    BY <2>1, MessageFacts
  <2>3. PICK l \in Nat : l = Len(Outbound)
    BY <1>1, OutboundFacts
  <2>4. /\ DOMAIN Outbound = 1..l /\ DOMAIN Outbound' = 1..l + 1
        /\ \A i \in 1..l : Outbound'[i] = Outbound[i]
        /\ Outbound'[l + 1] = m
    BY <1>1, <1>6, <2>2, <2>3, AppendOutbound, OutboundFacts
  <2>5. Events' = Events /\ \A i \in Events : Outbound'[i] = Outbound[i]
    BY <2>2, <2>4 DEF Events
  <2>6. PushedBefore' /\ EventsInOrder'
    BY <1>1, <2>5 DEF IInv, PushedBefore, EventsInOrder
  <2>7. /\ \A r \in Requests : r # q => Replies(r)' = Replies(r)
        /\ Replies(q)' = Replies(q) \cup {l + 1}
        /\ \A r \in Requests : \A i \in Replies(r) : Outbound'[i] = Outbound[i]
    BY <2>2, <2>4 DEF Replies
  <2>8. AnsweredOnce'
    <3>1. SUFFICES ASSUME handler' = "open", socket' = "open", NEW r \in Requests
                   PROVE  /\ IF call'[r] = "done" THEN \E i \in Replies(r)' : Replies(r)' = {i}
                                                   ELSE Replies(r)' = {}
                          /\ protocol' # "v12" => \A i \in Replies(r)' : Outbound'[i].echo = r
      BY DEF AnsweredOnce
    <3>2. /\ IF call[r] = "done" THEN \E i \in Replies(r) : Replies(r) = {i} ELSE Replies(r) = {}
          /\ protocol # "v12" => \A i \in Replies(r) : Outbound[i].echo = r
      BY <1>1, <3>1 DEF IInv, AnsweredOnce
    <3>3. CASE r = q
      <4>1. Replies(q)' = {l + 1}
        BY <1>1, <2>7, <3>2, <3>3
      <4>2. protocol # "v12" => Outbound'[l + 1].echo = q
        BY <2>2, <2>4 DEF IInv, EchoKept
      <4> QED BY <1>1, <1>3, <3>3, <4>1, <4>2
    <3>4. CASE r # q
      BY <1>1, <1>3, <2>7, <3>2, <3>4
    <3> QED BY <3>3, <3>4
  <2>9. TypeOK'
    <3>1. queue \in Seq(Message) /\ Len(queue) \in Nat /\ QueueCapacity \in Nat
      BY <1>1, WsAssumption DEF TypeOK, WsAssumption
    <3>2. queue' \in Seq(Message) /\ Len(queue') <= QueueCapacity
      BY <1>6, <2>2, <3>1, AppendProperties
    <3> QED BY <1>1, <1>3, <3>2 DEF TypeOK
  <2>10. WriterAlive'
    BY <1>1, <1>6 DEF IInv, WriterAlive
  <2>11. EventsAccounted'
    <3>1. Cardinality(Events') = Cardinality(Events)
      BY <2>5
    <3>2. next' = next /\ first' = first /\ ws_events_dropped' = ws_events_dropped /\ lagged' = lagged
      BY <1>1
    <3> QED BY <1>1, <2>9, <3>1, <3>2 DEF IInv, EventsAccounted
  <2> QED BY <1>4, <2>6, <2>8, <2>9, <2>10, <2>11 DEF IInv
<1> QED
  BY <1>5, <1>6 DEF Reply

\* The writer passes a message on.
LEMMA WriterMoves ==
  ASSUME IInv, WriterTake \/ WriterSend
  PROVE  IInv'
<1>1. /\ TypeOK /\ next \in Nat
      /\ delivered \in Seq(Message) /\ writing \in Seq(Message) /\ queue \in Seq(Message)
      /\ Len(queue) <= QueueCapacity /\ QueueCapacity \in Nat
      /\ UNCHANGED <<protocol, published, next, first, lagged, handler, pusher, writer, socket, call, echo,
                     ws_events_dropped, ws_connections>>
  <2>1. /\ next \in Nat /\ delivered \in Seq(Message) /\ writing \in Seq(Message)
        /\ queue \in Seq(Message) /\ Len(queue) <= QueueCapacity
    BY Typed DEF TypeOK
  <2>2. UNCHANGED <<protocol, published, next, first, lagged, handler, pusher, writer, socket, call, echo,
                    ws_events_dropped, ws_connections>>
    BY DEF WriterTake, WriterSend, busVars, taskVars, callVars, statVars
  <2> QED BY <2>1, <2>2, Typed, WsAssumption
<1>2. Events' = Events /\ PushedBefore' /\ EventsInOrder' /\ AnsweredOnce'
  BY <1>1, MovedOutbound, KeptOutbound
<1>3. /\ delivered' \in Seq(Message) /\ writing' \in Seq(Message) /\ Len(writing') <= 1
      /\ queue' \in Seq(Message) /\ Len(queue') <= QueueCapacity
  <2>1. CASE WriterTake
    <3>1. /\ queue # <<>> /\ writing' = <<Head(queue)>> /\ queue' = Tail(queue) /\ delivered' = delivered
      BY <2>1 DEF WriterTake
    <3>2. Head(queue) \in Message /\ queue' \in Seq(Message) /\ Len(queue') = Len(queue) - 1
      BY <1>1, <3>1, HeadTailProperties
    <3> QED BY <1>1, <3>1, <3>2
  <2>2. CASE WriterSend
    <3>1. delivered' = delivered \o writing /\ writing' = <<>> /\ queue' = queue
      BY <2>2 DEF WriterSend
    <3>2. delivered' \in Seq(Message)
      BY <1>1, <3>1, ConcatProperties
    <3> QED BY <1>1, <3>1, <3>2, EmptySeq
  <2> QED BY <2>1, <2>2
<1>4. TypeOK'
  BY <1>1, <1>3 DEF TypeOK
<1>5. writer = "running"
  <2>1. CASE WriterTake
    BY <2>1 DEF WriterTake
  <2>2. CASE WriterSend
    BY <1>1, <2>2 DEF WriterSend, IInv, WriterAlive, TypeOK
  <2> QED BY <2>1, <2>2
<1>6. handler \notin Unopened /\ WriterAlive'
  BY <1>1, <1>5 DEF IInv, WriterAlive
<1>7. Fresh' /\ Counted' /\ EchoKept'
  BY <1>1, <1>6 DEF IInv, Fresh, Counted, EchoKept, Unopened
<1>8. EventsAccounted'
  <2>1. Cardinality(Events') = Cardinality(Events)
    BY <1>2
  <2>2. next' = next /\ first' = first /\ ws_events_dropped' = ws_events_dropped /\ lagged' = lagged
    BY <1>1
  <2> QED BY <1>1, <1>4, <2>1, <2>2 DEF IInv, EventsAccounted
<1> QED
  BY <1>2, <1>4, <1>6, <1>7, <1>8 DEF IInv

\* A message is lost, and the queue with it when its writer ends; the socket
\* is closed then.
LEMMA LossStep ==
  ASSUME IInv, WriterFail \/ WriterLose \/ HandlerEnd
  PROVE  IInv'
<1>1. /\ TypeOK /\ next \in Nat /\ socket = "closed" /\ socket' = "closed"
      /\ writing' = <<>> /\ queue' \in {queue, <<>>}
      /\ UNCHANGED <<protocol, published, next, first, lagged, delivered, call, echo, ws_events_dropped>>
  BY Typed DEF TypeOK, WriterFail, WriterLose, HandlerEnd, busVars, outVars, callVars, statVars
<1>2. PICK n \in Nat, k \in Nat :
        /\ DOMAIN Outbound' \in SUBSET Nat
        /\ \A i \in DOMAIN Outbound' :
             LET j == IF i <= n THEN i ELSE i + k
             IN  j \in DOMAIN Outbound /\ Outbound'[i] = Outbound[j]
  BY <1>1, LostOutbound
<1>3. \A i \in Events' : LET j == IF i <= n THEN i ELSE i + k
                         IN  j \in Events /\ Outbound'[i] = Outbound[j]
  BY <1>2 DEF Events
<1>4. PushedBefore'
  BY <1>1, <1>3 DEF IInv, PushedBefore
<1>5. EventsInOrder'
  <2>1. SUFFICES ASSUME NEW i \in Events', NEW j \in Events', i < j
                 PROVE  Outbound'[i].event < Outbound'[j].event
    BY DEF EventsInOrder
  <2>2. i \in Nat /\ j \in Nat
    BY <1>2 DEF Events
  <2>3. PICK a \in Events : a = (IF i <= n THEN i ELSE i + k) /\ Outbound'[i] = Outbound[a]
    BY <1>3
  <2>4. PICK b \in Events : b = (IF j <= n THEN j ELSE j + k) /\ Outbound'[j] = Outbound[b]
    BY <1>3
  <2>5. a < b
    BY <2>1, <2>2, <2>3, <2>4
  <2> QED BY <2>3, <2>4, <2>5 DEF IInv, EventsInOrder
<1>6. AnsweredOnce'
  BY <1>1 DEF AnsweredOnce
<1>7. TypeOK'
  <2>1. <<>> \in Seq(Message) /\ Len(<<>>) = 0 /\ QueueCapacity \in Nat
    BY EmptySeq, WsAssumption DEF WsAssumption
  <2>2. writing' \in Seq(Message) /\ Len(writing') <= 1
    BY <1>1, <2>1
  <2>3. queue \in Seq(Message) /\ Len(queue) <= QueueCapacity /\ 0 <= QueueCapacity
    BY <1>1, <2>1 DEF TypeOK
  <2>4. queue' \in Seq(Message) /\ Len(queue') <= QueueCapacity
    BY <1>1, <2>1, <2>3
  <2>5. /\ handler' \in {"new", "identifying", "ready", "open", "closed", "stopped"}
        /\ pusher' \in {"running", "ended"} /\ writer' \in {"running", "ended"}
    BY <1>1 DEF TypeOK, WriterFail, WriterLose, HandlerEnd, taskVars
  <2>6. ws_connections' \in {0, 1}
    <3>1. CASE WriterFail \/ WriterLose
      BY <1>1, <3>1 DEF TypeOK, WriterFail, WriterLose, statVars
    <3>2. CASE HandlerEnd
      <4>1. protocol # "reverse" => ws_connections = 1
        BY <3>2 DEF IInv, Counted, HandlerEnd
      <4> QED BY <1>1, <3>2, <4>1 DEF TypeOK, HandlerEnd
    <3> QED BY <3>1, <3>2
  <2> QED BY <1>1, <2>2, <2>4, <2>5, <2>6 DEF TypeOK
<1>8. Fresh'
  BY <1>1 DEF IInv, Fresh, WriterFail, WriterLose, HandlerEnd, taskVars, Unopened
<1>9. WriterAlive'
  BY <1>1 DEF IInv, WriterAlive, WriterFail, WriterLose, HandlerEnd, taskVars, Unopened
<1>10. EchoKept'
  BY <1>1 DEF IInv, EchoKept
<1>11. Counted'
  <2>1. CASE WriterFail \/ WriterLose
    BY <1>1, <2>1 DEF IInv, Counted, WriterFail, WriterLose, taskVars, statVars
  <2>2. CASE HandlerEnd
    <3>1. protocol # "reverse" => ws_connections = 1 /\ ws_connections' = ws_connections - 1
      BY <2>2 DEF IInv, Counted, HandlerEnd
    <3>2. protocol = "reverse" => ws_connections = 0 /\ ws_connections' = ws_connections
      BY <2>2 DEF IInv, Counted, HandlerEnd
    <3>3. ws_connections' = 0
      BY <3>1, <3>2
    <3>4. handler' = "closed"
      BY <2>2 DEF HandlerEnd
    <3> QED BY <3>3, <3>4 DEF Counted
  <2> QED BY <2>1, <2>2
<1>12. EventsAccounted'
  BY <1>1, <1>7 DEF EventsAccounted
<1> QED
  BY <1>4, <1>5, <1>6, <1>7, <1>8, <1>9, <1>10, <1>11, <1>12 DEF IInv

-----------------------------------------------------------------------------
(* The invariant and what follows from it *)

LEMMA NextIInv == IInv /\ [Next]_vars => IInv'
<1> SUFFICES ASSUME IInv, [Next]_vars
             PROVE  IInv'
  OBVIOUS
<1>1. CASE Publish \/ AcceptSatori \/ IdentifyFails \/ Ready \/ StopBackground \/ PushEnd \/ ClientClose
  BY <1>1, QuietStep
<1>2. CASE Accept \/ Subscribe \/ Dial
  BY <1>2, OpenStep
<1>3. CASE PushLag \/ PushDrop
  BY <1>3, SkipStep
<1>4. CASE PushQueue
  BY <1>4, PushQueueStep
<1>5. ASSUME NEW q \in Requests, ReadRequest(q) \/ RouteReturn(q)
      PROVE  IInv'
  BY <1>5, RequestStep
<1>6. ASSUME NEW q \in Requests, Reply(q)
      PROVE  IInv'
  BY <1>6, ReplyStep
<1>7. CASE WriterTake \/ WriterSend
  BY <1>7, WriterMoves
<1>8. CASE WriterFail \/ WriterLose \/ HandlerEnd
  BY <1>8, LossStep
<1>9. CASE UNCHANGED vars
  <2>1. UNCHANGED <<protocol, published, next, first, lagged, handler, pusher, writer, socket, writing, queue,
                    delivered, call, echo, ws_events_dropped, ws_connections>>
    BY <1>9 DEF vars, busVars, taskVars, outVars, callVars, statVars
  <2>2. Outbound' = Outbound
    BY <2>1 DEF Outbound
  <2>3. Events' = Events /\ PushedBefore' /\ EventsInOrder' /\ AnsweredOnce'
    BY <2>1, <2>2, KeptOutbound, Typed DEF TypeOK
  <2>4. TypeOK'
    BY <2>1, Typed DEF TypeOK
  <2>5. Fresh' /\ WriterAlive' /\ Counted' /\ EchoKept'
    BY <2>1 DEF IInv, Fresh, WriterAlive, Counted, EchoKept
  <2>6. EventsAccounted'
    BY <2>1, <2>3, <2>4 DEF IInv, EventsAccounted
  <2> QED BY <2>3, <2>4, <2>5, <2>6 DEF IInv
<1> QED
  BY <1>1, <1>2, <1>3, <1>4, <1>5, <1>6, <1>7, <1>8, <1>9 DEF Next, WriterStep

LEMMA Invariance == Spec => []IInv
<1>1. Init => IInv
  BY InitIInv
<1>2. IInv /\ [Next]_vars => IInv'
  BY NextIInv
<1> QED
  BY <1>1, <1>2, PTL DEF Spec

\* On every connection, whatever its capacities, a client receives the events
\* in the order of the bus and none twice.
THEOREM OrderCorrect == Spec => []EventsInOrder
<1>1. IInv => EventsInOrder
  BY DEF IInv
<1> QED
  BY <1>1, Invariance, PTL

\* The state keeps its types, so the queue its capacity, and while the
\* connection is open no event since the subscription is unaccounted for.
THEOREM AccountingCorrect == Spec => []EventsAccounted
<1>1. IInv => EventsAccounted
  BY DEF IInv
<1> QED
  BY <1>1, Invariance, PTL

\* While the connection is open a request that is done has exactly one reply
\* on its way, with its own echo but in v12, and no other request has any.
THEOREM RepliesCorrect == Spec => []AnsweredOnce
<1>1. IInv => AnsweredOnce
  BY DEF IInv
<1> QED
  BY <1>1, Invariance, PTL

=============================================================================
