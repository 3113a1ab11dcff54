----------------------------- MODULE EventProofs -----------------------------
(***************************************************************************)
(* Proofs about what becomes of one event: DedupFilter decides whether it  *)
(* is forwarded at all, Conversation is what the client then sees of it    *)
(* and what the client's requests are made into.                           *)
(*                                                                         *)
(* The filter, for any tasks, events, window, sweep interval and delay:    *)
(* an entry of the map is the arrival of the last accepted event, and an   *)
(* entry the map has lost had expired by the clock; a task's reading is at *)
(* most MaxDelay behind the clock, so it is at most that far inside the    *)
(* window of an entry that was swept.                                      *)
(*                                                                         *)
(* The conversation, for any accounts, numbers, durations and contents:    *)
(* every stage holds what the stage before made of an event or a request,  *)
(* so that what is to be shown of a reply, a request or an answer is a     *)
(* fact about the conversions, case by case.  What an encoding does to a   *)
(* text is not needed and never expanded.                                  *)
(***************************************************************************)
EXTENDS DedupFilter, Conversation, TLAPS

-----------------------------------------------------------------------------
(* The filter *)

Arrivals == 0..clock

\* A pending reading is recent.
ReadingsRecent ==
  \A t \in Tasks : task[t] # Nothing => clock <= task[t].now + MaxDelay

\* The map agrees with the history, or has forgotten what had expired.
SeenIsAccepted ==
  \A f \in Fingerprints :
    /\ seen[f] # Nothing => seen[f] = accepted[f]
    /\ seen[f] = Nothing /\ accepted[f] # Nothing => clock >= accepted[f] + Window

FilterInv == FilterTypeOK /\ ReadingsRecent /\ SeenIsAccepted /\ SweepIsComplete

\* Everything starts empty.
LEMMA FilterInitInv == FilterInit => FilterInv
BY DedupAssumption DEF FilterInit, FilterInv, FilterTypeOK, ReadingsRecent, SeenIsAccepted, SweepIsComplete

\* The tick keeps the invariant: arrivals stay in the past, delays within
\* their bound.
LEMMA TickInv == FilterInv /\ Tick => FilterInv'
BY DedupAssumption DEF Tick, FilterInv, FilterTypeOK, ReadingsRecent, SeenIsAccepted, SweepIsComplete

\* A reading is taken at the clock.
LEMMA ArriveInv == ASSUME NEW t \in Tasks, NEW e \in Events, FilterInv, Arrive(t, e) PROVE FilterInv'
BY DedupAssumption DEF Arrive, FilterInv, FilterTypeOK, ReadingsRecent, SeenIsAccepted, SweepIsComplete

\* The event of a pending check has a fingerprint.
LEMMA PendingFingerprint ==
  ASSUME NEW t \in Tasks, FilterTypeOK, task[t] # Nothing
  PROVE  /\ Fingerprint(task[t].event) \in Fingerprints
         /\ task[t].now \in Arrivals
BY DEF FilterTypeOK, Fingerprints, Arrivals

\* A drop changes neither the map nor the history.
LEMMA DropInv == ASSUME NEW t \in Tasks, FilterInv, DropEvent(t) PROVE FilterInv'
BY DedupAssumption, PendingFingerprint
DEF DropEvent, FilterInv, FilterTypeOK, ReadingsRecent, SeenIsAccepted, SweepIsComplete, Arrivals

\* The interesting step: an entry is recorded and others may be swept.
LEMMA AcceptInv == ASSUME NEW t \in Tasks, FilterInv, AcceptEvent(t) PROVE FilterInv'
<1> DEFINE f == Fingerprint(task[t].event)
           now == task[t].now
<1>1. /\ f \in Fingerprints
      /\ now \in 0..clock
      /\ clock \in Nat
      /\ clock <= now + MaxDelay
  BY PendingFingerprint DEF AcceptEvent, FilterInv, FilterTypeOK, ReadingsRecent, Arrivals
<1>2. FilterTypeOK'
  BY <1>1, DedupAssumption DEF AcceptEvent, FilterInv, FilterTypeOK, Recorded, Retained
<1>3. ReadingsRecent'
  BY DEF AcceptEvent, FilterInv, FilterTypeOK, ReadingsRecent
<1>4. CASE Elapsed(now, last_eviction) < EvictionInterval
  <2>1. seen' = [seen EXCEPT ![f] = now] /\ last_eviction' = last_eviction
    BY <1>4 DEF AcceptEvent, Recorded
  <2>2. SeenIsAccepted'
    BY <1>1, <2>1, DedupAssumption DEF AcceptEvent, FilterInv, FilterTypeOK, SeenIsAccepted
  <2>3. SweepIsComplete'
    BY <1>1, <2>1, DedupAssumption DEF FilterInv, FilterTypeOK, SweepIsComplete
  <2> QED BY <1>2, <1>3, <2>2, <2>3 DEF FilterInv
<1>5. CASE ~(Elapsed(now, last_eviction) < EvictionInterval)
  <2>1. /\ seen' = Retained(Recorded(f, now), now)
        /\ last_eviction' = now
    BY <1>5 DEF AcceptEvent
  <2>2. SeenIsAccepted'
    BY <1>1, <2>1, DedupAssumption
    DEF AcceptEvent, FilterInv, FilterTypeOK, SeenIsAccepted, Recorded, Retained, Recent, Elapsed
  <2>3. SweepIsComplete'
    BY <1>1, <2>1, DedupAssumption
    DEF FilterInv, FilterTypeOK, SweepIsComplete, Recorded, Retained, Recent, Elapsed
  <2> QED BY <1>2, <1>3, <2>2, <2>3 DEF FilterInv
<1> QED BY <1>4, <1>5

\* The invariant holds in every reachable state.
THEOREM FilterInvariant == FilterSpec => []FilterInv
<1>1. FilterInv /\ [FilterNext]_filterVars => FilterInv'
  <2> SUFFICES ASSUME FilterInv, [FilterNext]_filterVars PROVE FilterInv'
    OBVIOUS
  <2>1. CASE Tick
    BY <2>1, TickInv
  <2>2. ASSUME NEW t \in Tasks, DropEvent(t) \/ AcceptEvent(t) PROVE FilterInv'
    BY <2>2, DropInv, AcceptInv
  <2>3. ASSUME NEW t \in Tasks, NEW e \in Events, Arrive(t, e) PROVE FilterInv'
    BY <2>3, ArriveInv
  <2>4. CASE UNCHANGED filterVars
    BY <2>4 DEF filterVars, FilterInv, FilterTypeOK, ReadingsRecent, SeenIsAccepted, SweepIsComplete
  <2> QED BY <2>1, <2>2, <2>3, <2>4 DEF FilterNext
<1> QED BY FilterInitInv, <1>1, PTL DEF FilterSpec

\* The variables keep their types; no arrival lies in the future.
THEOREM FilterTypeCorrect == FilterSpec => []FilterTypeOK
BY FilterInvariant, PTL DEF FilterInv

\* No entry survives a sweep at which it had expired.
THEOREM SweepsComplete == FilterSpec => []SweepIsComplete
BY FilterInvariant, PTL DEF FilterInv

\* A drop of the filter is a drop of the promise.
LEMMA DropRefines == ASSUME NEW t \in Tasks, FilterInv, DropEvent(t) PROVE Promise!Next
<1>1. /\ Fingerprint(task[t].event) \in Fingerprints
      /\ task[t].now \in 0..MaxClock
  BY PendingFingerprint, DedupAssumption DEF DropEvent, FilterInv, FilterTypeOK, Arrivals
<1>2. Promise!Drop(Fingerprint(task[t].event), task[t].now)
  BY <1>1, DedupAssumption
  DEF DropEvent, FilterInv, FilterTypeOK, SeenIsAccepted, Recent, Elapsed, Promise!Drop
<1> QED BY <1>1, <1>2 DEF Promise!Next

\* An acceptance of the filter is one of the promise: an entry that is in the
\* map has expired, one that was swept had expired by a clock the reading is
\* at most MaxDelay behind.
LEMMA AcceptRefines == ASSUME NEW t \in Tasks, FilterInv, AcceptEvent(t) PROVE Promise!Next
<1> DEFINE f == Fingerprint(task[t].event)
           now == task[t].now
<1>1. /\ f \in Fingerprints
      /\ now \in 0..MaxClock
      /\ now \in 0..clock
      /\ clock <= now + MaxDelay
  BY PendingFingerprint, DedupAssumption DEF AcceptEvent, FilterInv, FilterTypeOK, ReadingsRecent, Arrivals
<1>2. accepted[f] = Nothing \/ now + MaxDelay >= accepted[f] + Window
  <2>1. CASE seen[f] # Nothing
    BY <1>1, <2>1, DedupAssumption
    DEF AcceptEvent, FilterInv, FilterTypeOK, SeenIsAccepted, Recent, Elapsed
  <2>2. CASE seen[f] = Nothing
    BY <1>1, <2>2, DedupAssumption DEF FilterInv, FilterTypeOK, SeenIsAccepted
  <2> QED BY <2>1, <2>2
<1>3. Promise!Accept(f, now)
  BY <1>2 DEF AcceptEvent, Promise!Accept
<1> QED BY <1>1, <1>3 DEF Promise!Next

\* The filter implements OncePerWindow, slack MaxDelay, for any window,
\* interval, delay, number of tasks and events.
THEOREM FilterRefinement == FilterSpec => ImplementsOncePerWindow
<1>1. FilterInit => Promise!Init
  BY DEF FilterInit, Promise!Init
<1>2. FilterInv /\ [FilterNext]_filterVars => [Promise!Next]_(Promise!vars)
  <2> SUFFICES ASSUME FilterInv, [FilterNext]_filterVars PROVE [Promise!Next]_(Promise!vars)
    OBVIOUS
  <2>1. CASE Tick
    BY <2>1 DEF Tick, Promise!vars
  <2>2. ASSUME NEW t \in Tasks, DropEvent(t) \/ AcceptEvent(t) PROVE Promise!Next
    BY <2>2, DropRefines, AcceptRefines
  <2>3. ASSUME NEW t \in Tasks, NEW e \in Events, Arrive(t, e) PROVE UNCHANGED Promise!vars
    BY <2>3 DEF Arrive, Promise!vars
  <2>4. CASE UNCHANGED filterVars
    BY <2>4 DEF filterVars, Promise!vars
  <2> QED BY <2>1, <2>2, <2>3, <2>4 DEF FilterNext
<1> QED BY FilterInvariant, <1>1, <1>2, PTL DEF FilterSpec, ImplementsOncePerWindow, Promise!Spec

-----------------------------------------------------------------------------
(* Objects *)

\* The merged object has the fields of both.
LEMMA MergeDomain ==
  ASSUME NEW f, NEW g
  PROVE  \A k : k \in DOMAIN Merge(f, g) <=> k \in DOMAIN f \/ k \in DOMAIN g
BY DEF Merge

\* A field of the first object is kept by the merged one.
LEMMA MergeFirst ==
  ASSUME NEW f, NEW g, NEW k, k \in DOMAIN f
  PROVE  Merge(f, g)[k] = f[k]
BY DEF Merge

\* A field that only the second has is taken from it.
LEMMA MergeSecond ==
  ASSUME NEW f, NEW g, NEW k, k \notin DOMAIN f, k \in DOMAIN g
  PROVE  Merge(f, g)[k] = g[k]
BY DEF Merge

\* A string that is a number is read as that number, any other as none.
LEMMA StringsParsed ==
  /\ \A n : ParseI64(IdStr(n)) = {n}
  /\ ParseI64(Opaque) = {}
BY DEF ParseI64, IdStr, Opaque

\* A field is there when there is a value for it.
LEMMA FieldDomain ==
  ASSUME NEW k, NEW S
  PROVE  /\ \A f : f \in DOMAIN Field(k, S) <=> f = k /\ \E v : v \in S
         /\ \A f : f \in DOMAIN IntField(k, S) <=> f = k /\ \E v : v \in S
BY DEF Field, IntField

\* The field holds the value there is.
LEMMA FieldValue ==
  ASSUME NEW k, NEW v, NEW S, S = {v}
  PROVE  Field(k, S)[k] = v /\ IntField(k, S)[k] = Integer(v)
BY DEF Field, IntField

\* A field that is missing or no number gives no id.
LEMMA NoIdIn ==
  ASSUME NEW o, NEW k, k \notin DOMAIN o \/ o[k] = Opaque
  PROVE  IdIn(o, k) = {}
BY StringsParsed DEF IdIn

\* A string that is a number gives that id.
LEMMA OneIdIn ==
  ASSUME NEW o, NEW k \in DOMAIN o, NEW n, o[k] = IdStr(n)
  PROVE  IdIn(o, k) = {n}
BY StringsParsed DEF IdIn

-----------------------------------------------------------------------------
(* What the steps keep *)

\* The client answers a message it was sent.
Replying ==
  /\ event # None /\ event.kind = "message"
  /\ \E raw \in RawEvents : event = ParseEvent(raw)
  /\ proto \in Protocols
  /\ body = EventToClient(proto, event)
  /\ asked = ReplyTo(proto, body)

OwnRequests == SatoriRequests \cup V12Requests \cup V11Requests

\* The client asks something of its own.
Asking == event = None /\ asked \in OwnRequests

ConversationInv ==
  /\ stage \in {"idle", "parsed", "delivered", "asked", "routed", "answered"}
  /\ stage = "idle" => event = None
  /\ stage \in {"parsed", "delivered"} => \E raw \in RawEvents : event = ParseEvent(raw)
  /\ stage = "delivered" => proto \in Protocols /\ body = EventToClient(proto, event)
  /\ stage \in {"asked", "routed", "answered"} => Replying \/ Asking
  /\ stage = "routed" => request \in ParseRequest(asked)
  /\ stage = "answered" =>
       \/ ParseRequest(asked) = {} /\ answer = Refusal(asked)
       \/ ParseRequest(asked) # {} /\ \E o \in Outcomes : answer = AnswerTo(asked, o)

\* The invariant holds in every reachable state.
LEMMA ConversationInvariant == Spec => []ConversationInv
<1>1. Init => ConversationInv
  BY DEF Init, ConversationInv
<1>2. ConversationInv /\ [Next]_vars => ConversationInv'
  <2> SUFFICES ASSUME ConversationInv, [Next]_vars PROVE ConversationInv'
    OBVIOUS
  <2>1. CASE Receive
    BY <2>1 DEF Receive, ConversationInv
  <2>2. CASE Deliver
    BY <2>2 DEF Deliver, ConversationInv
  <2>3. CASE Reply
    BY <2>3, NoneAssumption DEF Reply, ConversationInv, Replying
  <2>4. CASE Ask
    BY <2>4 DEF Ask, ConversationInv, Asking, OwnRequests
  <2>5. CASE Route
    BY <2>5 DEF Route, ConversationInv, Replying, Asking
  <2>6. CASE Refuse
    BY <2>6 DEF Refuse, ConversationInv, Replying, Asking
  <2>7. CASE Execute
    BY <2>7 DEF Execute, ConversationInv, Replying, Asking
  <2>8. CASE Finish
    BY <2>8 DEF Finish, ConversationInv
  <2>9. CASE UNCHANGED vars
    BY <2>9 DEF vars, ConversationInv, Replying, Asking
  <2> QED
    BY <2>1, <2>2, <2>3, <2>4, <2>5, <2>6, <2>7, <2>8, <2>9 DEF Next
<1> QED
  BY <1>1, <1>2, PTL DEF Spec

-----------------------------------------------------------------------------
(* Requests.  What each endpoint makes of one. *)

\* The two endpoints of v11: an action's own path names no account, and a
\* malformed body is refused where it had to name the action.
LEMMA ParsedV11 ==
  ASSUME NEW r
  PROVE  /\ r.endpoint = "v11_path" =>
              \A q \in ParseRequest(r) : q.self_id = {}
         /\ r.endpoint = "v11" /\ r.wellformed =>
              ParseRequest(r) = {ApiRequest(r.action, r.params, {a.int : a \in r.self})}
         /\ r.endpoint = "v11" /\ ~r.wellformed => ParseRequest(r) = {}
<1>1. CASE r.endpoint = "v11_path"
  BY <1>1 DEF ParseRequest, ApiRequest
<1>2. CASE r.endpoint = "v11" /\ r.wellformed
  BY <1>2, Zenon DEF ParseRequest
<1>3. CASE r.endpoint = "v11" /\ ~r.wellformed
  BY <1>3 DEF ParseRequest
<1> QED
  BY <1>1, <1>2, <1>3

\* The two endpoints of v12, likewise.
LEMMA ParsedV12 ==
  ASSUME NEW r
  PROVE  /\ r.endpoint = "v12_path" =>
              \E params : ParseRequest(r) = {ParseV12Action(r, params, {})}
         /\ r.endpoint = "v12" /\ r.wellformed =>
              ParseRequest(r) = {ParseV12Action(r, r.params, r.self)}
         /\ r.endpoint = "v12" /\ ~r.wellformed => ParseRequest(r) = {}
<1>1. CASE r.endpoint = "v12_path"
  BY <1>1 DEF ParseRequest
<1>2. CASE r.endpoint = "v12" /\ r.wellformed
  BY <1>2, Zenon DEF ParseRequest
<1>3. CASE r.endpoint = "v12" /\ ~r.wellformed
  BY <1>3 DEF ParseRequest
<1> QED
  BY <1>1, <1>2, <1>3

\* A malformed body is refused by Satori's endpoint.
LEMMA ParsedSatori ==
  ASSUME NEW r, r.endpoint = "satori"
  PROVE  /\ r.wellformed => ParseRequest(r) = ParseSatoriApi(r)
         /\ ~r.wellformed => ParseRequest(r) = {}
<1>1. CASE r.wellformed
  BY <1>1, Zenon DEF ParseRequest
<1>2. CASE ~r.wellformed
  BY <1>2 DEF ParseRequest
<1> QED
  BY <1>1, <1>2

-----------------------------------------------------------------------------
(* Replies *)

\* What a message is made of.
LEMMA MessageFields ==
  ASSUME Replying
  PROVE  /\ event.self_id \in Accounts
         /\ event.message_type \in {"group", "private"}
         /\ event.group_id = {} \/ \E g : event.group_id = {g}
<1>1. PICK raw \in RawEvents : event = ParseEvent(raw)
  BY DEF Replying
<1>2. raw \in RawMessages
  BY <1>1 DEF Replying, ParseEvent, RawEvents, RawMessages, RawNotices, RawRequests, RawMetas
<1>3. event = [kind |-> "message", self_id |-> raw.self_id, user_id |-> raw.user_id,
               message_type |-> raw.message_type, group_id |-> {raw.group_id} \ {None},
               message |-> ParseMessageSegments(raw.message)]
  BY <1>1, <1>2 DEF ParseEvent, RawMessages
<1>4. raw.self_id \in Accounts /\ raw.message_type \in {"group", "private"}
  BY <1>2 DEF RawMessages
<1>5. {raw.group_id} \ {None} = {} \/ {raw.group_id} \ {None} = {raw.group_id}
  OBVIOUS
<1> QED
  BY <1>3, <1>4, <1>5

\* A reply reaches the chat of the message through the account it came to,
\* or, in Satori, the group with the number of its channel.
ReachesChat(q) ==
  /\ \/ Destination(q) = ChatOf(event)
     \/ proto = "satori" /\ Destination(q) = {<<"group",
            IF event.message_type = "private" THEN event.user_id ELSE 0>>}
  /\ q.self_id = {event.self_id}

\* The reply of a v11 client, which also keeps the content of the message.
LEMMA V11Reply ==
  ASSUME Replying, proto = "v11", NEW q \in ParseRequest(asked)
  PROVE  asked.wellformed = TRUE /\ ReachesChat(q) /\ q.params.message = event.message
<1> DEFINE G == IntField("group_id", event.group_id)
           P == [k \in DOMAIN body \ {"post_type", "self_id"} |-> body[k]]
<1>1. body = Merge([post_type |-> "message", self_id |-> Integer(event.self_id),
                    user_id |-> Integer(event.user_id), message_type |-> event.message_type,
                    message |-> event.message], G)
  BY DEF Replying, EventToClient, EventToV11
<1>2. asked = [endpoint |-> "v11", action |-> "send_msg", params |-> P, self |-> {body.self_id},
               wellformed |-> TRUE]
  BY DEF Replying, ReplyTo, Wellformed, Request
<1>3. q = [action |-> "send_msg", params |-> P, self_id |-> {a.int : a \in {body.self_id}}]
  BY <1>2, ParsedV11 DEF ApiRequest
<1>4. /\ DOMAIN P = {"user_id", "message_type", "message"} \cup DOMAIN G
      /\ DOMAIN G \subseteq {"group_id"}
  BY <1>1, FieldDomain DEF Merge
<1>5. /\ P["user_id"] = Integer(event.user_id) /\ P["message_type"] = event.message_type
      /\ "group_id" \in DOMAIN G => P["group_id"] = G["group_id"]
      /\ body.self_id = Integer(event.self_id) /\ P["message"] = event.message
  BY <1>1, <1>4 DEF Merge
<1>6. q.self_id = {event.self_id}
  BY <1>3, <1>5 DEF Integer
<1> HIDE DEF P
<1>7. CASE event.message_type = "private"
  <2>1. Destination(q) = {<<"private", P[f].int>> : f \in DOMAIN P \cap {"user_id"}}
    BY <1>3, <1>4, <1>5, <1>7 DEF Destination
  <2>2. Destination(q) = {<<"private", event.user_id>>}
    BY <2>1, <1>4, <1>5 DEF Integer
  <2> QED
    BY <2>2, <1>2, <1>3, <1>5, <1>6, <1>7 DEF ReachesChat, ChatOf
<1>8. CASE event.message_type = "group"
  <2>1. Destination(q) = {<<"group", P[f].int>> : f \in DOMAIN P \cap {"group_id"}}
    BY <1>3, <1>4, <1>5, <1>8 DEF Destination
  <2>2. CASE event.group_id = {}
    <3>1. "group_id" \notin DOMAIN P
      BY <1>4, <2>2, FieldDomain
    <3> QED
      BY <2>1, <2>2, <3>1, <1>2, <1>3, <1>5, <1>6, <1>8 DEF ReachesChat, ChatOf
  <2>3. ASSUME NEW g, event.group_id = {g} PROVE Destination(q) = {<<"group", g>>}
    <3>1. "group_id" \in DOMAIN P /\ P["group_id"] = Integer(g)
      BY <1>4, <1>5, <2>3, FieldDomain, FieldValue
    <3> QED
      BY <2>1, <3>1 DEF Integer
  <2>4. ASSUME NEW g, event.group_id = {g} PROVE ReachesChat(q)
    BY <2>3, <2>4, <1>6, <1>8 DEF ReachesChat, ChatOf
  <2> QED
    BY <2>2, <2>4, <1>2, <1>3, <1>5, MessageFields
<1> QED
  BY <1>7, <1>8, MessageFields

\* The reply of a v12 client.
LEMMA V12Reply ==
  ASSUME Replying, proto = "v12", NEW q \in ParseRequest(asked)
  PROVE  /\ asked.wellformed = TRUE /\ ReachesChat(q)
         /\ q.params.message = SegmentsToV12(event.message)
<1> DEFINE ids == {IdStr(g) : g \in event.group_id}
           G == Field("group_id", ids)
           P == [k \in DOMAIN body \ {"type", "self"} |-> body[k]]
           I == Merge(IntField("group_id", IdIn(P, "group_id")), IntField("user_id", IdIn(P, "user_id")))
           M == Merge([message_type |-> event.message_type],
                      Field("message", {P[k] : k \in DOMAIN P \cap {"message"}}))
           N == Merge(I, M)
<1>1. body = Merge([type |-> "message", detail_type |-> event.message_type,
                    self |-> IdStr(event.self_id), user_id |-> IdStr(event.user_id),
                    message |-> SegmentsToV12(event.message)], G)
  BY DEF Replying, EventToClient, EventToV12
<1>2. asked = [endpoint |-> "v12", action |-> "send_message", params |-> P, self |-> {body.self},
               wellformed |-> TRUE]
  BY DEF Replying, ReplyTo, Wellformed, Request
<1>3. /\ DOMAIN P = {"detail_type", "user_id", "message"} \cup DOMAIN G
      /\ DOMAIN G \subseteq {"group_id"}
  BY <1>1, FieldDomain DEF Merge
<1>4. /\ P["user_id"] = IdStr(event.user_id) /\ P["detail_type"] = event.message_type
      /\ "group_id" \in DOMAIN G => P["group_id"] = G["group_id"]
      /\ body.self = IdStr(event.self_id) /\ P["message"] = SegmentsToV12(event.message)
  BY <1>1, <1>3 DEF Merge
<1> HIDE DEF G, P
<1>5. TranslateV12Action("send_message", P) =
        [action |-> SendAction(event.message_type), params |-> SendParams(P, event.message_type)]
  <2>1. "send_message" \notin DOMAIN V12Actions
    BY DEF V12Actions
  <2>2. "detail_type" \in DOMAIN P /\ P.detail_type = event.message_type
    BY <1>3, <1>4
  <2> QED
    BY <2>1, <2>2, Zenon DEF TranslateV12Action
<1>6. q = ParseV12Action(asked, P, {body.self})
  BY <1>2, ParsedV12
<1>7. /\ q = [action |-> SendAction(event.message_type), params |-> N,
              self_id |-> UNION {ParseI64(s) : s \in {body.self}}]
      /\ asked.wellformed = TRUE
  BY <1>2, <1>5, <1>6 DEF ParseV12Action, ApiRequest, SendParams
<1>8. q.self_id = {event.self_id}
  BY <1>7, <1>4, StringsParsed
<1>9. DOMAIN I \subseteq {"group_id", "user_id"} /\ DOMAIN M \subseteq {"message_type", "message"}
  BY MergeDomain, FieldDomain
<1>10. "user_id" \in DOMAIN N /\ N["user_id"] = Integer(event.user_id)
  <2>1. IdIn(P, "user_id") = {event.user_id}
    BY <1>3, <1>4, OneIdIn
  <2>2. "user_id" \in DOMAIN I /\ I["user_id"] = Integer(event.user_id)
    BY <2>1, FieldDomain, FieldValue DEF Merge
  <2> QED
    BY <2>2, MergeDomain, MergeFirst
<1>11. q.params.message = SegmentsToV12(event.message)
  <2>1. {P[k] : k \in DOMAIN P \cap {"message"}} = {P["message"]}
    BY <1>3
  <2>2. /\ "message" \notin DOMAIN [message_type |-> event.message_type]
        /\ "message" \in DOMAIN Field("message", {P[k] : k \in DOMAIN P \cap {"message"}})
        /\ Field("message", {P[k] : k \in DOMAIN P \cap {"message"}})["message"] = P["message"]
    BY <2>1, FieldDomain, FieldValue
  <2>3. "message" \in DOMAIN M /\ M["message"] = P["message"]
    BY <2>2, MergeDomain, MergeSecond
  <2>4. "message" \notin DOMAIN I
    BY <1>9
  <2> HIDE DEF I, M
  <2>5. N["message"] = P["message"]
    BY <2>3, <2>4, MergeSecond
  <2> QED
    BY <2>5, <1>4, <1>7
<1> HIDE DEF I, M, N
<1>12. CASE event.message_type = "private"
  <2>1. Destination(q) = {<<"private", N[f].int>> : f \in DOMAIN N \cap {"user_id"}}
    BY <1>7, <1>12 DEF Destination, SendAction
  <2>2. Destination(q) = {<<"private", event.user_id>>}
    BY <2>1, <1>10 DEF Integer
  <2> QED
    BY <2>2, <1>7, <1>8, <1>11, <1>12 DEF ReachesChat, ChatOf
<1>13. CASE event.message_type = "group"
  <2>1. Destination(q) = {<<"group", N[f].int>> : f \in DOMAIN N \cap {"group_id"}}
    BY <1>7, <1>13 DEF Destination, SendAction
  <2>2. CASE event.group_id = {}
    <3>1. DOMAIN G = {}
      <4>1. ids = {}
        BY <2>2
      <4> HIDE DEF ids
      <4> QED
        BY <4>1, FieldDomain DEF G
    <3>2. IdIn(P, "group_id") = {}
      BY <1>3, <3>1, NoIdIn
    <3>3. "group_id" \notin DOMAIN N
      BY <3>2, <1>9, FieldDomain, MergeDomain DEF I, N
    <3> QED
      BY <2>1, <2>2, <3>3, <1>7, <1>8, <1>11, <1>13 DEF ReachesChat, ChatOf
  <2>3. ASSUME NEW g, event.group_id = {g} PROVE Destination(q) = {<<"group", g>>}
    <3>1. "group_id" \in DOMAIN G /\ G["group_id"] = IdStr(g)
      <4>1. ids = {IdStr(g)} /\ IdStr(g) \in ids
        BY <2>3
      <4> HIDE DEF ids
      <4>2. "group_id" \in DOMAIN G
        BY <4>1, FieldDomain DEF G
      <4>3. G["group_id"] = IdStr(g)
        BY <4>1, FieldValue DEF G
      <4> QED
        BY <4>2, <4>3
    <3>2. IdIn(P, "group_id") = {g}
      BY <1>3, <1>4, <3>1, OneIdIn
    <3>3. "group_id" \in DOMAIN I /\ I["group_id"] = Integer(g)
      BY <3>2, FieldDomain, FieldValue, MergeDomain, MergeFirst DEF I
    <3>4. "group_id" \in DOMAIN N /\ N["group_id"] = Integer(g)
      BY <3>3, MergeDomain, MergeFirst DEF N
    <3> QED
      BY <2>1, <3>4 DEF Integer
  <2>4. ASSUME NEW g, event.group_id = {g} PROVE ReachesChat(q)
    BY <2>3, <2>4, <1>8, <1>13 DEF ReachesChat, ChatOf
  <2> QED
    BY <2>2, <2>4, <1>7, <1>11, MessageFields
<1> QED
  BY <1>7, <1>11, <1>12, <1>13, MessageFields

\* The reply of a Satori client: a numeric channel is a group.
LEMMA SatoriReply ==
  ASSUME Replying, proto = "satori", NEW q \in ParseRequest(asked)
  PROVE  asked.wellformed = TRUE /\ ReachesChat(q)
<1> DEFINE n == IF event.message_type = "group" THEN Or(event.group_id, 0) ELSE event.user_id
           C == IntField("group_id", {n})
           N == Merge(C, [message |-> ParseSatoriElements(body.content)])
<1>1. /\ body.channel.id = IdStr(n)
      /\ body.login = IdStr(event.self_id)
  <2>1. body = EventToSatori(event)
    BY Zenon DEF Replying, EventToClient
  <2>2. event.kind = "message"
    BY DEF Replying
  <2>3. body.channel = ChannelObject(event) /\ body.login = IdStr(event.self_id)
    BY <2>1, <2>2 DEF EventToSatori, Merge
  <2> QED
    BY <2>3 DEF ChannelObject
<1>2. asked = [endpoint |-> "satori", action |-> "message.create",
               params |-> [channel_id |-> IdStr(n), content |-> body.content],
               self |-> {body.login}, wellformed |-> TRUE]
  <2>1. asked = Wellformed("satori", "message.create",
                           [channel_id |-> body.channel.id, content |-> body.content],
                           {body.login})
    BY Zenon DEF Replying, ReplyTo
  <2> QED
    BY <2>1, <1>1 DEF Wellformed, Request
<1>3. IdIn(asked.params, "channel_id") = {n}
  BY <1>2, OneIdIn
<1>4. /\ "group_id" \in DOMAIN C /\ C["group_id"] = Integer(n)
  BY FieldDomain, FieldValue
<1> HIDE DEF n, C
<1>5. TranslateSatoriApi("message.create", asked.params) = {[action |-> "send_group_msg", params |-> N]}
  BY <1>2, <1>3, <1>4 DEF TranslateSatoriApi, C
<1>6. q = [action |-> "send_group_msg", params |-> N,
           self_id |-> UNION {ParseI64(s) : s \in {body.login}}]
  BY <1>2, <1>5, ParsedSatori DEF ParseSatoriApi, ApiRequest
<1>7. q.self_id = {event.self_id}
  BY <1>6, <1>1, StringsParsed
<1>8. "group_id" \in DOMAIN N /\ N["group_id"] = Integer(n)
  BY <1>4, MergeDomain, MergeFirst
<1> HIDE DEF N
<1>9. Destination(q) = {<<"group", n>>}
  <2>1. Destination(q) = {<<"group", N[f].int>> : f \in DOMAIN N \cap {"group_id"}}
    BY <1>6 DEF Destination
  <2> QED
    BY <2>1, <1>8 DEF Integer
<1>10. CASE event.message_type = "private"
  BY <1>2, <1>7, <1>9, <1>10 DEF ReachesChat, n
<1>11. CASE event.message_type = "group" /\ event.group_id = {}
  BY <1>2, <1>7, <1>9, <1>11 DEF ReachesChat, n, Or
<1>12. ASSUME NEW g, event.message_type = "group", event.group_id = {g}
       PROVE  asked.wellformed = TRUE /\ ReachesChat(q)
  <2>1. n = g
    BY <1>12 DEF n, Or
  <2>2. ChatOf(event) = {<<"group", g>>}
    BY <1>12 DEF ChatOf
  <2> QED
    BY <1>2, <1>7, <1>9, <2>1, <2>2 DEF ReachesChat
<1> QED
  BY <1>10, <1>11, <1>12, MessageFields

\* A reply leaves over the account its event came from, and its destination is
\* the chat of the event: event_to_json or event_to_satori on the way out,
\* translate_v12_action or translate_satori_api on the way back.
THEOREM RepliesReachChats == Spec => []ReplyReachesChat
<1>1. ConversationInv => ReplyReachesChat
  <2> SUFFICES ASSUME ConversationInv, Replied PROVE ReachesChat(request)
    BY DEF ReplyReachesChat, ReachesChat
  <2>1. Replying /\ request \in ParseRequest(asked)
    BY DEF ConversationInv, Replied, Asking
  <2> QED
    BY <2>1, V11Reply, V12Reply, SatoriReply DEF Replying, Protocols
<1> QED
  BY <1>1, ConversationInvariant, PTL

\* A reply in OneBot v11 brings the backend the segments parse_message_event
\* made of the message: event_to_json and the v11 endpoint leave them alone.
THEOREM V11RepliesKeepContent == Spec => [](proto = "v11" => ReplyKeepsContent)
<1>1. ConversationInv => (proto = "v11" => ReplyKeepsContent)
  <2> SUFFICES ASSUME ConversationInv, proto = "v11", Replied
               PROVE  request.params.message = event.message
    BY DEF ReplyKeepsContent
  <2> QED
    BY V11Reply DEF ConversationInv, Replied, Asking
<1> QED
  BY <1>1, ConversationInvariant, PTL

\* What SegmentToV12 makes of a segment is read by a v11 backend only if the
\* segment is a text, and a text stays as it is.
LEMMA OnlyTextSurvives ==
  ASSUME NEW s
  PROVE  /\ ReadByV11(SegmentToV12(s)) <=> s.type = "text"
         /\ s.type = "text" => SegmentToV12(s) = s
<1>1. CASE s.type \in {"image", "video"}
  <2>1. SegmentToV12(s) = Segment(s.type, Renamed(s.data, "file", "file_id"))
    BY <1>1 DEF SegmentToV12, QqTypes
  <2>2. "file" \notin DOMAIN Renamed(s.data, "file", "file_id")
    BY DEF Renamed
  <2> QED
    BY <1>1, <2>1, <2>2 DEF ReadByV11, Segment
<1>2. CASE s.type = "record"
  <2>1. SegmentToV12(s) = Segment("voice", Renamed(s.data, "file", "file_id"))
    BY <1>2 DEF SegmentToV12, QqTypes
  <2> QED
    BY <1>2, <2>1 DEF ReadByV11, Segment
<1>3. CASE s.type = "at"
  <2>1. SegmentToV12(s) = Segment("mention", Renamed(s.data, "qq", "user_id"))
    BY <1>3 DEF SegmentToV12, QqTypes
  <2> QED
    BY <1>3, <2>1 DEF ReadByV11, Segment
<1>4. CASE s.type = "reply"
  <2>1. SegmentToV12(s) = Segment("reply", Renamed(s.data, "id", "message_id"))
    BY <1>4 DEF SegmentToV12, QqTypes
  <2>2. "id" \notin DOMAIN Renamed(s.data, "id", "message_id")
    BY DEF Renamed
  <2> QED
    BY <1>4, <2>1, <2>2 DEF ReadByV11, Segment
<1>5. CASE s.type \in {"face", "forward", "json", "xml", "poke"}
  <2>1. SegmentToV12(s) = Segment(QqTypes[s.type], s.data)
    BY <1>5 DEF SegmentToV12, QqTypes
  <2>2. QqTypes[s.type] \in {"qq.face", "qq.forward", "qq.json", "qq.xml", "qq.poke"}
    BY <1>5 DEF QqTypes
  <2> QED
    BY <1>5, <2>1, <2>2 DEF ReadByV11, Segment
<1>6. CASE s.type \notin {"image", "video", "record", "at", "reply", "face", "forward", "json", "xml",
                         "poke"}
  <2>1. SegmentToV12(s) = s
    BY <1>6 DEF SegmentToV12, QqTypes
  <2> QED
    BY <1>6, <2>1 DEF ReadByV11
<1> QED
  BY <1>1, <1>2, <1>3, <1>4, <1>5, <1>6

\* In OneBot v12 the reply has the segments of the message in their order; a v11
\* backend reads exactly those that are texts, and these are unchanged.
THEOREM V12RepliesKeepText ==
  Spec => [](Replied /\ proto = "v12" =>
               /\ DOMAIN request.params.message = DOMAIN event.message
               /\ \A i \in DOMAIN event.message :
                    /\ ReadByV11(request.params.message[i]) <=> event.message[i].type = "text"
                    /\ event.message[i].type = "text" =>
                         request.params.message[i] = event.message[i])
<1> DEFINE Kept == /\ DOMAIN request.params.message = DOMAIN event.message
                   /\ \A i \in DOMAIN event.message :
                        /\ ReadByV11(request.params.message[i]) <=> event.message[i].type = "text"
                        /\ event.message[i].type = "text" =>
                             request.params.message[i] = event.message[i]
<1>1. ConversationInv => (Replied /\ proto = "v12" => Kept)
  <2> SUFFICES ASSUME ConversationInv, Replied, proto = "v12"
               PROVE  Kept
    OBVIOUS
  <2>1. Replying /\ request \in ParseRequest(asked)
    BY DEF ConversationInv, Replied, Asking
  <2>2. request.params.message = SegmentsToV12(event.message)
    BY <2>1, V12Reply
  <2>3. SegmentsToV12(event.message) = [i \in DOMAIN event.message |-> SegmentToV12(event.message[i])]
    BY DEF SegmentsToV12
  <2>4. /\ DOMAIN request.params.message = DOMAIN event.message
        /\ \A i \in DOMAIN event.message :
             request.params.message[i] = SegmentToV12(event.message[i])
    BY <2>2, <2>3
  <2> QED
    BY <2>4, OnlyTextSurvives
<1> QED
  BY <1>1, ConversationInvariant, PTL

-----------------------------------------------------------------------------
(* Requests of the client's own *)

IdFields == {"guild_id", "channel_id", "user_id", "message_id"}

\* The ids a client gives are fields it chose from.
LEMMA IdsChosen ==
  ASSUME NEW fields, NEW o \in SomeIds(fields)
  PROVE  DOMAIN o \subseteq fields
BY DEF SomeIds

\* What a v11 client asks names an account of the gateway as an integer, or none.
LEMMA OwnV11 ==
  ASSUME NEW r \in V11Requests
  PROVE  /\ r.endpoint \in {"v11", "v11_path"} /\ r.wellformed \in BOOLEAN
         /\ {a.int : a \in r.self} \subseteq Accounts
<1>1. PICK e \in {"v11", "v11_path"}, self \in {{}} \cup {{Integer(a)} : a \in Accounts}, ok \in BOOLEAN :
        r = Request(e, "send_msg", [user_id |-> Integer(1)], self, ok)
  BY DEF V11Requests
<1>2. r.endpoint = e /\ r.wellformed = ok /\ r.self = self
  BY <1>1 DEF Request
<1>3. {a.int : a \in self} \subseteq Accounts
  BY DEF Integer
<1> QED
  BY <1>2, <1>3

\* What a v12 client asks names no account that is a number.
LEMMA OwnV12 ==
  ASSUME NEW r \in V12Requests
  PROVE  /\ r.endpoint \in {"v12", "v12_path"} /\ r.wellformed \in BOOLEAN
         /\ r.self \in {{}, {Opaque}}
<1>1. CASE r \in V12Calls
  <2>1. PICK e \in {"v12", "v12_path"}, action \in DOMAIN V12Actions \cup {"get_message", "other"},
             ids \in SomeIds({"group_id", "user_id", "message_id"}), self \in {{}, {Opaque}},
             ok \in BOOLEAN : r = Request(e, action, ids, self, ok)
    BY <1>1 DEF V12Calls
  <2> QED
    BY <2>1 DEF Request
<1>2. CASE r \in V12Sends
  <2>1. PICK ids \in SomeIds({"group_id", "user_id"}), d \in {"group", "private", "channel"} :
          r = Wellformed("v12", "send_message", Merge(ids, [detail_type |-> d]), {})
    BY <1>2 DEF V12Sends
  <2> QED
    BY <2>1 DEF Wellformed, Request
<1> QED
  BY <1>1, <1>2 DEF V12Requests

\* What a Satori client asks: a method with some ids, a mute with its duration
\* or a message to a channel that is no number.
LEMMA OwnSatori ==
  ASSUME NEW r \in SatoriRequests
  PROVE  /\ r.endpoint = "satori" /\ r.wellformed \in BOOLEAN
         /\ r.self \in {{}, {Opaque}}
         /\ \/ r.action \in SatoriMethods \cup {"unsupported"} /\ r.params \in SomeIds(IdFields)
            \/ /\ r.action = "guild.member.mute"
               /\ \E ids \in SomeIds({"guild_id", "user_id"}), ms \in Durations :
                    r.params = Merge(ids, [duration |-> Integer(ms)])
            \/ /\ r.action = "message.create"
               /\ r.params = [channel_id |-> Opaque, content |-> <<"a">>]
<1>1. CASE r \in SatoriCalls
  <2>1. PICK method \in SatoriMethods \cup {"unsupported"}, ids \in SomeIds(IdFields),
             self \in {{}, {Opaque}}, ok \in BOOLEAN : r = Request("satori", method, ids, self, ok)
    BY <1>1 DEF SatoriCalls, IdFields
  <2> QED
    BY <2>1 DEF Request
<1>2. CASE r \in SatoriMutes
  <2>1. PICK ids \in SomeIds({"guild_id", "user_id"}), ms \in Durations :
          r = Wellformed("satori", "guild.member.mute", Merge(ids, [duration |-> Integer(ms)]), {})
    BY <1>2 DEF SatoriMutes
  <2> QED
    BY <2>1 DEF Wellformed, Request
<1>3. CASE r = Wellformed("satori", "message.create", [channel_id |-> Opaque, content |-> <<"a">>], {})
  BY <1>3 DEF Wellformed, Request
<1> QED
  BY <1>1, <1>2, <1>3 DEF SatoriRequests

\* A Satori method is given the fields its action requires by those it reads.
LEMMA IdsRequired ==
  ASSUME NEW m \in SatoriMethods, NEW k \in Required(SatoriActions[m])
  PROVE  \E p \in SatoriIds(m) : p[1] = k
BY DEF SatoriMethods, Required, SatoriActions, SatoriIds

\* Each is read from the field that means it.
LEMMA IdsMeant ==
  ASSUME NEW m \in SatoriMethods, NEW p \in SatoriIds(m)
  PROVE  p[2] = GivenAs(m, p[1])
BY DEF SatoriMethods, SatoriIds, GivenAs

\* What a method finds in its body is a number in the field that means it.
LEMMA NumbersMeant ==
  ASSUME NEW m \in SatoriMethods, NEW params
  PROVE  /\ \A p \in SatoriParams(m, params) : p[2] \in IdIn(params, GivenAs(m, p[1]))
         /\ \A i \in SatoriIds(m) :
              IdIn(params, GivenAs(m, i[1])) # {} => \E p \in SatoriParams(m, params) : p[1] = i[1]
<1>1. ASSUME NEW p \in SatoriParams(m, params)
      PROVE  p[2] \in IdIn(params, GivenAs(m, p[1]))
  <2>1. PICK i \in SatoriIds(m) : p \in {<<i[1], n>> : n \in IdIn(params, i[2])}
    BY DEF SatoriParams
  <2>2. p[1] = i[1] /\ p[2] \in IdIn(params, i[2])
    BY <2>1
  <2> QED
    BY <2>2, IdsMeant
<1>2. ASSUME NEW i \in SatoriIds(m), IdIn(params, GivenAs(m, i[1])) # {}
      PROVE  \E p \in SatoriParams(m, params) : p[1] = i[1]
  <2>1. PICK n : n \in IdIn(params, i[2])
    BY <1>2, IdsMeant
  <2>2. <<i[1], n>> \in SatoriParams(m, params)
    BY <2>1 DEF SatoriParams
  <2> QED
    BY <2>2
<1> QED
  BY <1>1, <1>2

\* No id is read into the field of a duration.
LEMMA NoDuration ==
  ASSUME NEW m
  PROVE  \A p \in SatoriIds(m) : p[1] # "duration"
BY DEF SatoriIds

\* The account of a request is one of the gateway's or none.
LEMMA OwnAccounts ==
  ASSUME NEW r \in OwnRequests, NEW q \in ParseRequest(r)
  PROVE  q.self_id \subseteq Accounts
<1>1. ASSUME NEW self \in {{}, {Opaque}} PROVE UNION {ParseI64(s) : s \in self} = {}
  BY <1>1, StringsParsed
<1>2. CASE r \in V11Requests
  BY <1>2, OwnV11, ParsedV11 DEF ApiRequest
<1>3. CASE r \in V12Requests
  <2>1. r.endpoint \in {"v12", "v12_path"} /\ r.wellformed \in BOOLEAN /\ r.self \in {{}, {Opaque}}
    BY <1>3, OwnV12
  <2>2. ASSUME NEW params, NEW self \in {{}, {Opaque}}
        PROVE  ParseV12Action(r, params, self).self_id = {}
    BY <1>1 DEF ParseV12Action, ApiRequest
  <2>3. CASE r.endpoint = "v12_path"
    <3>1. PICK params : ParseRequest(r) = {ParseV12Action(r, params, {})}
      BY <2>3, ParsedV12
    <3>2. q = ParseV12Action(r, params, {})
      BY <3>1
    <3> QED BY <2>2, <3>2
  <2>4. CASE r.endpoint = "v12" /\ r.wellformed
    <3>1. q = ParseV12Action(r, r.params, r.self)
      BY <2>4, ParsedV12
    <3> QED BY <2>1, <2>2, <3>1
  <2>5. CASE r.endpoint = "v12" /\ ~r.wellformed
    BY <2>5, ParsedV12
  <2> QED
    BY <2>1, <2>3, <2>4, <2>5
<1>4. CASE r \in SatoriRequests
  <2>1. r.endpoint = "satori" /\ r.self \in {{}, {Opaque}} /\ q \in ParseSatoriApi(r)
    BY <1>4, OwnSatori, ParsedSatori
  <2>2. q.self_id = UNION {ParseI64(s) : s \in r.self}
    BY <2>1 DEF ParseSatoriApi, ApiRequest
  <2> QED
    BY <2>1, <2>2, <1>1
<1> QED
  BY <1>2, <1>3, <1>4 DEF OwnRequests

\* Every answer has one of the HTTP codes of its endpoint.
LEMMA AnswersCoded ==
  ASSUME NEW r, NEW o, r.endpoint \in {"v11", "v11_path", "v12", "v12_path", "satori"}
  PROVE  /\ AnswerTo(r, o).http \in {200, 500}
         /\ r.endpoint \in {"v11", "v12", "satori"} => Refusal(r).http \in {200, 400, 404}
<1>1. ASSUME NEW c, NEW x PROVE Http(c, x).http = c
  BY DEF Http
<1>2. CASE r.endpoint \in {"v11", "v11_path"}
  <2>1. \E x : AnswerTo(r, o) = Http(200, x)
    BY <1>2 DEF AnswerTo
  <2>2. \E x : r.endpoint = "v11" => Refusal(r) = Http(200, x)
    BY DEF Refusal
  <2> QED
    BY <1>1, <1>2, <2>1, <2>2
<1>3. CASE r.endpoint \in {"v12", "v12_path"}
  <2>1. \E x : AnswerTo(r, o) = Http(200, x)
    BY <1>3 DEF AnswerTo
  <2>2. \E x : r.endpoint = "v12" => Refusal(r) = Http(200, x)
    BY DEF Refusal
  <2> QED
    BY <1>1, <1>3, <2>1, <2>2
<1>4. CASE r.endpoint = "satori"
  <2>1. \E x : AnswerTo(r, o) = Http(200, x) \/ AnswerTo(r, o) = Http(500, x)
    BY <1>4 DEF AnswerTo
  <2>2. Refusal(r) = Http(404, Null) \/ Refusal(r) = Http(400, Null)
    BY <1>4 DEF Refusal
  <2> QED
    BY <1>1, <1>4, <2>1, <2>2
<1> QED
  BY <1>2, <1>3, <1>4

\* A reply is well-formed and goes to the endpoint of the client's protocol.
LEMMA RepliesWellformed ==
  ASSUME Replying
  PROVE  asked.endpoint = proto /\ asked.wellformed = TRUE
<1>1. \E action, params, self : asked = Wellformed(proto, action, params, self)
  BY DEF Replying, ReplyTo, Protocols
<1> QED
  BY <1>1 DEF Wellformed, Request

\* The invariant implies the types.
LEMMA Typed ==
  ASSUME ConversationInv
  PROVE  TypeOK
<1> DEFINE Endpoints == {"v11", "v11_path", "v12", "v12_path", "satori"}
<1>1. ASSUME stage \in {"asked", "routed", "answered"}
      PROVE  asked.endpoint \in Endpoints /\ asked.wellformed \in BOOLEAN
  <2>1. CASE Replying
    BY <2>1, RepliesWellformed DEF Replying, Protocols
  <2>2. CASE Asking
    BY <2>2, OwnV11, OwnV12, OwnSatori DEF Asking, OwnRequests
  <2> QED
    BY <1>1, <2>1, <2>2 DEF ConversationInv
<1>2. ASSUME stage = "routed"
      PROVE  request.self_id \in SUBSET Accounts
  <2>1. request \in ParseRequest(asked)
    BY <1>2 DEF ConversationInv
  <2>2. CASE Replying
    <3>1. request.self_id = {event.self_id}
      BY <2>1, <2>2, V11Reply, V12Reply, SatoriReply DEF Replying, Protocols, ReachesChat
    <3> QED
      BY <2>2, <3>1, MessageFields
  <2>3. CASE Asking
    BY <2>1, <2>3, OwnAccounts DEF Asking
  <2> QED
    BY <1>2, <2>2, <2>3 DEF ConversationInv
<1>3. ASSUME stage = "answered"
      PROVE  answer.http \in {200, 400, 404, 500}
  <2>1. CASE ParseRequest(asked) = {}
    <3>1. asked.endpoint \in {"v11", "v12", "satori"}
      BY <1>1, <1>3, <2>1 DEF ParseRequest
    <3>2. answer = Refusal(asked)
      BY <1>3, <2>1 DEF ConversationInv
    <3> QED
      BY <3>1, <3>2, AnswersCoded
  <2>2. CASE ParseRequest(asked) # {}
    <3>1. \E o : answer = AnswerTo(asked, o)
      BY <1>3, <2>2 DEF ConversationInv
    <3> QED
      BY <1>1, <1>3, <3>1, AnswersCoded
  <2> QED
    BY <2>1, <2>2
<1>4. stage \in {"parsed", "delivered"} => event # None
  BY NoneAssumption DEF ConversationInv
<1>5. stage = "delivered" => proto \in Protocols
  BY DEF ConversationInv
<1>6. stage \in {"idle", "parsed", "delivered", "asked", "routed", "answered"}
  BY DEF ConversationInv
<1> QED
  BY <1>1, <1>2, <1>3, <1>4, <1>5, <1>6 DEF TypeOK

\* The parameters a Satori method is translated to: integers only, every id its
\* action requires that the client gave as a number, no id that is not the number
\* in the field that means it, and the whole seconds of a mute.
LEMMA SatoriTranslated ==
  ASSUME NEW r \in SatoriRequests, NEW t \in TranslateSatoriApi(r.action, r.params)
  PROVE  /\ \A k \in DOMAIN t.params \ {"message"} : "int" \in DOMAIN t.params[k]
         /\ \A k \in Required(t.action) :
              IdIn(r.params, GivenAs(r.action, k)) # {} => k \in DOMAIN t.params
         /\ \A k \in DOMAIN t.params \cap {"group_id", "user_id", "message_id"} :
              t.params[k].int \in IdIn(r.params, GivenAs(r.action, k))
         /\ "duration" \in DOMAIN t.params =>
              \E ms \in Nat : /\ r.params.duration = Integer(ms)
                              /\ t.params.duration = Integer(ms \div 1000)
<1>1. \A n : "int" \in DOMAIN Integer(n)
  BY DEF Integer
<1>2. CASE r.action = "message.create"
  <2> DEFINE channel == IntField("group_id", IdIn(r.params, "channel_id"))
  <2>1. r.params = [channel_id |-> Opaque, content |-> <<"a">>]
    BY <1>2, OwnSatori DEF SatoriMethods
  <2>2. IdIn(r.params, "channel_id") = {}
    BY <2>1, NoIdIn
  <2>3. \A f : f \notin DOMAIN channel
    BY <2>2, FieldDomain
  <2> HIDE DEF channel
  <2>4. DOMAIN channel = {}
    BY <2>3
  <2>5. t = [action |-> "send_msg",
             params |-> Merge(channel, [message |-> ParseSatoriElements(r.params.content)])]
    BY <1>2, <2>4 DEF TranslateSatoriApi, channel
  <2>6. DOMAIN t.params = {"message"} /\ t.action = "send_msg"
    BY <2>4, <2>5 DEF Merge
  <2> QED
    BY <2>6 DEF Required
<1>3. CASE r.action # "message.create"
  <2> DEFINE pairs == SatoriParams(r.action, r.params)
             ids == [k \in {p[1] : p \in pairs} |-> Integer((CHOOSE p \in pairs : p[1] = k)[2])]
             muted == {f \in DOMAIN r.params : f = "duration" /\ r.action = "guild.member.mute"}
             durations == {Integer(MuteSeconds(r.params[k].int)) : k \in muted}
             D == Field("duration", durations)
  <2>1. r.action \in SatoriMethods /\ t = [action |-> SatoriActions[r.action], params |-> Merge(ids, D)]
    BY <1>3 DEF TranslateSatoriApi
  <2>2. /\ \A k \in DOMAIN ids : "int" \in DOMAIN ids[k]
        /\ \A k : k \in DOMAIN ids <=> \E p \in pairs : p[1] = k
    BY <1>1
  <2>3. ASSUME NEW p \in pairs PROVE \E i \in SatoriIds(r.action) : p[1] = i[1]
    BY DEF SatoriParams
  <2>4. "duration" \notin DOMAIN ids
    BY <2>2, <2>3, NoDuration
  <2>5. ASSUME NEW k \in DOMAIN D
        PROVE  /\ k = "duration" /\ "duration" \in DOMAIN r.params
               /\ r.action = "guild.member.mute"
               /\ D["duration"] = Integer(MuteSeconds(r.params.duration.int))
    <3>1. k = "duration" /\ \E v : v \in durations
      <4> HIDE DEF durations
      <4> QED
        BY FieldDomain
    <3>2. "duration" \in muted
      BY <3>1
    <3>3. durations = {Integer(MuteSeconds(r.params.duration.int))}
      BY <3>2
    <3>4. D["duration"] = Integer(MuteSeconds(r.params.duration.int))
      <4> HIDE DEF durations
      <4> QED
        BY <3>3, FieldValue
    <3> QED
      BY <3>1, <3>2, <3>4
  <2> HIDE DEF ids, D
  <2>6. /\ \A k : k \in DOMAIN t.params <=> k \in DOMAIN ids \/ k \in DOMAIN D
        /\ \A k \in DOMAIN ids : t.params[k] = ids[k]
        /\ \A k \in DOMAIN D : k \notin DOMAIN ids => t.params[k] = D[k]
    BY <2>1, MergeDomain, MergeFirst, MergeSecond
  <2>7. ASSUME NEW k \in DOMAIN t.params PROVE "int" \in DOMAIN t.params[k]
    <3>1. CASE k \in DOMAIN ids
      BY <3>1, <2>2, <2>6
    <3>2. CASE k \notin DOMAIN ids
      BY <3>2, <2>5, <2>6, <1>1
    <3> QED
      BY <3>1, <3>2
  <2>8. ASSUME NEW k \in Required(t.action), IdIn(r.params, GivenAs(r.action, k)) # {}
        PROVE  k \in DOMAIN t.params
    <3>1. PICK i \in SatoriIds(r.action) : i[1] = k
      BY <2>1, IdsRequired
    <3>2. IdIn(r.params, GivenAs(r.action, i[1])) # {}
      BY <2>8, <3>1
    <3>3. r.action \in SatoriMethods
      BY <2>1
    <3>4. \E p \in SatoriParams(r.action, r.params) : p[1] = i[1]
      BY <3>2, <3>3, NumbersMeant
    <3> QED
      BY <2>2, <2>6, <3>1, <3>4
  <2>9. ASSUME NEW k \in DOMAIN t.params \cap {"group_id", "user_id", "message_id"}
        PROVE  t.params[k].int \in IdIn(r.params, GivenAs(r.action, k))
    <3>1. k \in DOMAIN ids /\ t.params[k] = ids[k]
      BY <2>5, <2>6
    <3>2. PICK p \in pairs : p[1] = k /\ ids[k] = Integer(p[2])
      BY <3>1, <2>2 DEF ids
    <3>3. ids[k].int = p[2]
      BY <3>2 DEF Integer
    <3> QED
      BY <2>1, <3>1, <3>2, <3>3, NumbersMeant
  <2>10. ASSUME "duration" \in DOMAIN t.params
        PROVE  \E ms \in Nat : /\ r.params.duration = Integer(ms)
                               /\ t.params.duration = Integer(ms \div 1000)
    <3>1. "duration" \in DOMAIN D
      BY <2>4, <2>6, <2>10
    <3>2. /\ "duration" \in DOMAIN r.params /\ r.action = "guild.member.mute"
          /\ t.params.duration = Integer(MuteSeconds(r.params.duration.int))
      BY <2>4, <2>5, <2>6, <3>1
    <3>3. ~(r.params \in SomeIds(IdFields))
      BY <3>2, IdsChosen DEF IdFields
    <3>4. PICK own \in SomeIds({"guild_id", "user_id"}), ms \in Durations :
            r.params = Merge(own, [duration |-> Integer(ms)])
      BY <1>3, <3>3, OwnSatori
    <3>5. "duration" \notin DOMAIN own
      BY IdsChosen
    <3>6. r.params["duration"] = Integer(ms)
      BY <3>4, <3>5 DEF Merge
    <3>7. r.params.duration.int = ms /\ ms \in Nat
      BY <3>6, ConversationAssumption DEF Integer
    <3> QED
      BY <3>2, <3>6, <3>7 DEF MuteSeconds
  <2> QED
    BY <2>7, <2>8, <2>9, <2>10
<1> QED
  BY <1>2, <1>3

\* What translate_satori_api makes of a request holds every id its action
\* requires that the client gave as a number, each under the name and with the
\* number it was given, and the whole seconds of a mute.
THEOREM RequestsReachBackend == Spec => []RequestsComplete
<1>1. ConversationInv => RequestsComplete
  <2> SUFFICES ASSUME ConversationInv, stage = "routed", asked.endpoint = "satori", event = None
      PROVE  /\ \A k \in DOMAIN request.params \ {"message"} : "int" \in DOMAIN request.params[k]
             /\ \A k \in Required(request.action) :
                  IdIn(asked.params, GivenAs(asked.action, k)) # {} => k \in DOMAIN request.params
             /\ \A k \in DOMAIN request.params \cap {"group_id", "user_id", "message_id"} :
                  request.params[k].int \in IdIn(asked.params, GivenAs(asked.action, k))
             /\ "duration" \in DOMAIN request.params =>
                  LET ms == asked.params.duration.int
                      s  == request.params.duration.int
                  IN s * 1000 <= ms /\ ms < (s + 1) * 1000
    BY Typed DEF RequestsComplete
  <2>1. asked \in SatoriRequests
    BY OwnV11, OwnV12 DEF ConversationInv, Replying, Asking, OwnRequests
  <2>2. request \in ParseSatoriApi(asked)
    BY <2>1, OwnSatori, ParsedSatori DEF ConversationInv
  <2>3. PICK t \in TranslateSatoriApi(asked.action, asked.params) :
          request.action = t.action /\ request.params = t.params
    BY <2>2 DEF ParseSatoriApi, ApiRequest
  <2>4. ASSUME "duration" \in DOMAIN request.params
        PROVE  /\ request.params.duration.int * 1000 <= asked.params.duration.int
               /\ asked.params.duration.int < (request.params.duration.int + 1) * 1000
    <3>1. PICK ms \in Nat : /\ asked.params.duration = Integer(ms)
                            /\ request.params.duration = Integer(ms \div 1000)
      BY <2>1, <2>3, <2>4, SatoriTranslated
    <3>2. asked.params.duration.int = ms /\ request.params.duration.int = ms \div 1000
      BY <3>1 DEF Integer
    <3> QED
      BY <3>2
  <2> QED
    BY <2>1, <2>3, <2>4, SatoriTranslated
<1> QED
  BY <1>1, ConversationInvariant, PTL

-----------------------------------------------------------------------------
(* Answers *)

\* An outcome that is a success, and one that is a failure.
Success(o) == o \in Outcomes /\ "retcode" \in DOMAIN o /\ o.retcode = 0
Failure(o) == o \in Outcomes /\ ("error" \in DOMAIN o \/ o.retcode # 0)

\* A success has retcode 0; a failure is an error of the router or has 1400.
LEMMA OutcomeForms ==
  /\ \A o : Success(o) => "error" \notin DOMAIN o /\ \E d : o = Response(0, d)
  /\ \A o : Failure(o) => "error" \in DOMAIN o \/ ("error" \notin DOMAIN o /\ o = Response(1400, Null))
<1>1. "error" \in DOMAIN Unroutable /\ "retcode" \notin DOMAIN Unroutable
  BY DEF Unroutable
<1>2. ASSUME NEW c, NEW d PROVE Response(c, d).retcode = c /\ "error" \notin DOMAIN Response(c, d)
  BY DEF Response
<1>3. ASSUME NEW o \in Outcomes
      PROVE  o = Unroutable \/ o = Response(1400, Null) \/ \E d : o = Response(0, d)
  BY DEF Outcomes
<1> QED
  BY <1>1, <1>2, <1>3 DEF Success, Failure

\* Two answers are equal when their codes and their contents are.
LEMMA HttpContent ==
  ASSUME NEW c1, NEW x1, NEW c2, NEW x2, Http(c1, x1) = Http(c2, x2)
  PROVE  c1 = c2 /\ x1 = x2
BY DEF Http

\* A v12 response keeps the retcode of the backend's.
LEMMA RetcodeKept ==
  ASSUME NEW action, NEW c, NEW d
  PROVE  TranslateV11Response(action, Response(c, d)).retcode = c
BY DEF TranslateV11Response, Response

\* In OneBot a failure is answered with a retcode that no success has.
LEMMA OneBotTellsFailure ==
  ASSUME NEW r, r.endpoint \in {"v11", "v11_path", "v12", "v12_path"},
         NEW good, Success(good), NEW bad, Failure(bad)
  PROVE  AnswerTo(r, good) # AnswerTo(r, bad)
<1>1. PICK d : good = Response(0, d)
  BY OutcomeForms
<1>2. \A c, x : Response(c, x).retcode = c
  BY DEF Response
<1>3. CASE r.endpoint \in {"v11", "v11_path"}
  <2>1. AnswerTo(r, good) = Http(200, good)
    BY <1>3, OutcomeForms DEF AnswerTo
  <2>2. AnswerTo(r, bad) = Http(200, Response(1400, Null))
    BY <1>3, OutcomeForms DEF AnswerTo
  <2> QED
    BY <1>1, <1>2, <2>1, <2>2, HttpContent
<1>4. CASE r.endpoint \in {"v12", "v12_path"}
  <2>1. AnswerTo(r, good) = Http(200, TranslateV11Response(r.action, good))
    BY <1>4, OutcomeForms DEF AnswerTo
  <2>2. \/ AnswerTo(r, bad) = Http(200, Response(20002, Null))
        \/ AnswerTo(r, bad) = Http(200, TranslateV11Response(r.action, Response(1400, Null)))
    BY <1>4, OutcomeForms DEF AnswerTo
  <2> QED
    BY <1>1, <1>2, <2>1, <2>2, HttpContent, RetcodeKept
<1> QED
  BY <1>3, <1>4

\* An object or a list made for a client of Satori is never null.
LEMMA SatoriObjects ==
  ASSUME NEW m \in ObjectMethods, NEW o
  PROVE  "null" \notin DOMAIN SatoriObject(m, o)
BY DEF ObjectMethods, SatoriObject, User

\* In Satori a failure is answered 500 or null, a success 200 and not null,
\* except for the methods that are passed through.
LEMMA SatoriTellsFailure ==
  ASSUME NEW r, r.endpoint = "satori", r.action \in {"message.create"} \cup SatoriMethods,
         r.action \notin PassedThrough, NEW good, Success(good), NEW bad, Failure(bad)
  PROVE  AnswerTo(r, good) # AnswerTo(r, bad)
<1>1. PICK d : good = Response(0, d)
  BY OutcomeForms
<1>2. \A c, x : Response(c, x).retcode = c /\ Response(c, x).data = x
  BY DEF Response
<1>3. AnswerTo(r, good) = Http(200, TranslateResponse(r.action, good))
  BY OutcomeForms DEF AnswerTo
<1>4. \/ AnswerTo(r, bad) = Http(500, Null)
      \/ AnswerTo(r, bad) = Http(200, TranslateResponse(r.action, Response(1400, Null)))
  BY OutcomeForms DEF AnswerTo
<1>5. TranslateResponse(r.action, Response(1400, Null)) = Null
  BY <1>2 DEF TranslateResponse
<1>6. "null" \in DOMAIN Null
  BY DEF Null
<1>7. "null" \notin DOMAIN TranslateResponse(r.action, good)
  <2>1. good.retcode = 0
    BY <1>1, <1>2
  <2>2. CASE r.action = "message.create"
    BY <2>1, <2>2 DEF TranslateResponse
  <2>3. CASE r.action \in ListMethods
    BY <2>1, <2>3 DEF TranslateResponse, ListMethods
  <2>4. CASE r.action \in ObjectMethods
    <3>1. r.action # "message.create" /\ r.action \notin ListMethods
      BY <2>4 DEF ObjectMethods, ListMethods
    <3>2. TranslateResponse(r.action, good) = SatoriObject(r.action, ObjectIn(good.data))
      BY <2>1, <2>4, <3>1 DEF TranslateResponse
    <3> QED
      BY <2>4, <3>2, SatoriObjects
  <2>5. r.action \in {"message.create"} \cup ListMethods \cup ObjectMethods
    BY DEF SatoriMethods, PassedThrough, ListMethods, ObjectMethods
  <2> QED
    BY <2>2, <2>3, <2>4, <2>5
<1> QED
  BY <1>3, <1>4, <1>5, <1>6, <1>7, HttpContent

\* The answer of an HTTP endpoint tells a response of the backend that failed
\* from one that did not, except over the methods passed through.
THEOREM AnswersTellFailure == Spec => []AnswerTellsFailure
<1>1. ConversationInv => AnswerTellsFailure
  <2> SUFFICES ASSUME ConversationInv, stage = "answered",
                      asked.endpoint # "satori" \/ asked.action \notin PassedThrough,
                      asked.wellformed, NEW good, Success(good), NEW bad, Failure(bad)
               PROVE  ~(answer = AnswerTo(asked, good) /\ answer = AnswerTo(asked, bad))
    BY DEF AnswerTellsFailure, Success, Failure
  <2>1. asked.endpoint \in {"v11", "v11_path", "v12", "v12_path", "satori"}
    <3>1. CASE Replying
      BY <3>1, RepliesWellformed DEF Replying, Protocols
    <3>2. CASE Asking
      BY <3>2, OwnV11, OwnV12, OwnSatori DEF Asking, OwnRequests
    <3> QED
      BY <3>1, <3>2 DEF ConversationInv
  <2>2. CASE asked.endpoint # "satori"
    BY <2>1, <2>2, OneBotTellsFailure
  <2>3. CASE asked.endpoint = "satori" /\ ParseRequest(asked) = {}
    <3>1. answer = Http(404, Null)
      BY <2>3 DEF ConversationInv, Refusal
    <3>2. AnswerTo(asked, good) = Http(200, TranslateResponse(asked.action, good))
      BY <2>3, OutcomeForms DEF AnswerTo
    <3> QED
      BY <3>1, <3>2, HttpContent
  <2>4. CASE asked.endpoint = "satori" /\ ParseRequest(asked) # {}
    <3>1. \E t : t \in TranslateSatoriApi(asked.action, asked.params)
      BY <2>4, ParsedSatori DEF ParseSatoriApi
    <3>2. asked.action \in {"message.create"} \cup SatoriMethods
      BY <3>1 DEF TranslateSatoriApi
    <3> QED
      BY <2>4, <3>2, SatoriTellsFailure
  <2> QED
    BY <2>2, <2>3, <2>4
<1> QED
  BY <1>1, ConversationInvariant, PTL

=============================================================================
