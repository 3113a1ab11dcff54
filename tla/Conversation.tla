----------------------------- MODULE Conversation -----------------------------
(***************************************************************************)
(* What a client of the gateway sees of a chat and what the backend sees   *)
(* of the client, in the three protocols: a backend's event is parsed      *)
(* (gateway/onebot_v11.rs) and written for the client (event_to_json of    *)
(* onebot_v11.rs and onebot_v12.rs, event_to_satori of satori.rs); a       *)
(* request over HTTP is parsed, routed, executed and answered (server/*.rs *)
(* with parse_v12_action and parse_satori_api).  The client and the        *)
(* backend are external: the client answers a message with its own content *)
(* where the message told it to, the backend keeps to OneBot v11.          *)
(***************************************************************************)
EXTENDS Segments

CONSTANTS
  Accounts,     \* self_id of the accounts behind the gateway
  Numbers,      \* numbers of users and of groups, which overlap
  Contents,     \* raw messages
  Durations,    \* of a mute, in milliseconds
  None

ASSUME ConversationAssumption ==
  /\ {Accounts, Numbers} \subseteq SUBSET Nat
  /\ Durations \subseteq Nat
  /\ None \notin Accounts \cup Numbers

VARIABLES
  stage,    \* how far the exchange has come
  event,    \* the internal event
  proto,    \* the protocol of the client
  body,     \* the event as the client got it
  asked,    \* the client's request
  request,  \* the ApiRequest made of it
  answer    \* the answer of the gateway

vars == <<stage, event, proto, body, asked, request, answer>>

Protocols == {"v11", "v12", "satori"}

\* A value of a request or a body: an integer, a string that is one, or a
\* string that is not.
Integer(n)   == [int |-> n]
IdStr(n) == [string |-> n]
Opaque   == [opaque |-> "string"]

ParseI64(v) == {v[f] : f \in DOMAIN v \cap {"string"}}

\* The integer a field of an object holds as a string.
IdIn(object, k) == UNION {ParseI64(object[f]) : f \in DOMAIN object \cap {k}}
IntField(k, numbers) == Field(k, {Integer(n) : n \in numbers})

-----------------------------------------------------------------------------
(* Events *)

\* The notices Satori has an event for.
NoticeTypes ==
  [group_increase |-> "guild-member-added", group_decrease |-> "guild-member-removed",
   group_ban |-> "guild-member-updated", group_recall |-> "message-deleted",
   friend_recall |-> "message-deleted", group_admin |-> "guild-member-updated",
   notify |-> "interaction/button"]

RawMessages ==
  [post_type : {"message", "message_sent"}, self_id : Accounts, user_id : Numbers,
   message_type : {"group", "private"}, group_id : Numbers \cup {None}, message : Contents]

RawNotices  == [post_type : {"notice"}, self_id : Accounts, type : DOMAIN NoticeTypes \cup {"other"}]
RawRequests == [post_type : {"request"}, self_id : Accounts, type : {"friend", "group", "other"}]
RawMetas    == [post_type : {"meta_event"}, self_id : Accounts, type : {"lifecycle", "heartbeat", "other"}]

RawEvents == RawMessages \cup RawNotices \cup RawRequests \cup RawMetas

\* The bot's own messages become messages like any other; what a raw event
\* carries beside its type stays with it as extra.
ParseEvent(raw) ==
  IF raw.post_type \in {"message", "message_sent"}
  THEN [kind |-> "message", self_id |-> raw.self_id, user_id |-> raw.user_id,
        message_type |-> raw.message_type, group_id |-> {raw.group_id} \ {None},
        message |-> ParseMessageSegments(raw.message)]
  ELSE [kind |-> raw.post_type, self_id |-> raw.self_id, type |-> raw.type, extra |-> raw]

\* What stands for the absence of a value is no event.
ASSUME NoneAssumption == \A raw \in RawEvents : ParseEvent(raw) # None

EventToV11(e) ==
  IF e.kind = "message"
  THEN Merge([post_type |-> "message", self_id |-> Integer(e.self_id),
              user_id |-> Integer(e.user_id), message_type |-> e.message_type,
              message |-> e.message], IntField("group_id", e.group_id))
  ELSE Merge([post_type |-> e.kind, self_id |-> Integer(e.self_id)], e.extra)

\* What a v11 notice or request says beside its type is left out.
EventToV12(e) ==
  IF e.kind = "message"
  THEN Merge([type |-> "message", detail_type |-> e.message_type, self |-> IdStr(e.self_id),
              user_id |-> IdStr(e.user_id), message |-> SegmentsToV12(e.message)],
             Field("group_id", {IdStr(g) : g \in e.group_id}))
  ELSE [type |-> IF e.kind = "meta_event" THEN "meta" ELSE e.kind, self |-> IdStr(e.self_id),
        detail_type |-> IF e.kind = "meta_event" /\ e.type = "lifecycle" THEN "connect"
                        ELSE e.type]

\* Mutant: the sender taken for the channel of a group message too.
ChannelObject_Sender(e) == [id |-> IdStr(e.user_id), type |-> IF e.message_type = "group" THEN 0 ELSE 1]

\* A direct message's channel is its sender; a group message without a group
\* comes from channel 0.
ChannelObject(e) ==
  IF e.message_type = "group" THEN [id |-> IdStr(Or(e.group_id, 0)), type |-> 0]
                              ELSE [id |-> IdStr(e.user_id), type |-> 1]

SatoriType(e) ==
  CASE e.kind = "notice" /\ e.type \in DOMAIN NoticeTypes -> NoticeTypes[e.type]
    [] e.kind = "request" /\ e.type = "friend"      -> "friend-request"
    [] e.kind = "request" /\ e.type = "group"       -> "guild-member-request"
    [] e.kind = "meta_event" /\ e.type = "lifecycle" -> "login-updated"
    [] OTHER -> "internal"

EventToSatori(e) ==
  IF e.kind = "message"
  THEN Merge([type |-> "message-created", login |-> IdStr(e.self_id),
              channel |-> ChannelObject(e), user |-> IdStr(e.user_id),
              content |-> SegmentsToSatoriElements(e.message)],
             Field("guild", {IdStr(Or(e.group_id, 0)) : t \in {e.message_type} \cap {"group"}}))
  ELSE [type |-> SatoriType(e), login |-> IdStr(e.self_id)]

EventToClient(p, e) ==
  CASE p = "v11" -> EventToV11(e)
    [] p = "v12" -> EventToV12(e)
    [] p = "satori" -> EventToSatori(e)

-----------------------------------------------------------------------------
(* Requests.  A request names its endpoint: the body of one may carry the   *)
(* action, and in OneBot the account, which the endpoint of an action's own *)
(* path cannot.                                                             *)

ApiRequest(action, params, self_id) == [action |-> action, params |-> params, self_id |-> self_id]

\* v12 actions renamed for the backend; any other keeps its name.
V12Actions ==
  [get_self_info |-> "get_login_info", get_user_info |-> "get_stranger_info",
   leave_group |-> "set_group_leave", kick_group_member |-> "set_group_kick",
   ban_group_member |-> "set_group_ban"]

SendAction(detail) ==
  IF detail = "group" THEN "send_group_msg"
  ELSE IF detail = "private" THEN "send_private_msg" ELSE "send_msg"

SendParams(params, detail) ==
  Merge(Merge(IntField("group_id", IdIn(params, "group_id")),
              IntField("user_id", IdIn(params, "user_id"))),
        Merge([message_type |-> detail],
              Field("message", {params[k] : k \in DOMAIN params \cap {"message"}})))

TranslateV12Action(action, params) ==
  CASE action = "send_message" ->
         LET detail == IF "detail_type" \in DOMAIN params THEN params.detail_type ELSE "private"
         IN [action |-> SendAction(detail), params |-> SendParams(params, detail)]
    [] action = "get_message" ->
         [action |-> "get_msg", params |-> Merge(IntField("message_id", IdIn(params, "message_id")), params)]
    [] action \in DOMAIN V12Actions -> [action |-> V12Actions[action], params |-> params]
    [] OTHER -> [action |-> action, params |-> params]

\* The account is read from "self", and a string that is no number is none.
ParseV12Action(r, params, self) ==
  LET t == TranslateV12Action(r.action, params)
  IN ApiRequest(t.action, t.params, UNION {ParseI64(s) : s \in self})

SatoriMethods ==
  {"message.get", "message.delete", "channel.get", "channel.list", "guild.get", "guild.list",
   "guild.member.get", "guild.member.list", "guild.member.kick", "guild.member.mute",
   "user.get", "friend.list", "login.get"}

SatoriActions ==
  [m \in SatoriMethods |->
     CASE m = "message.get"                    -> "get_msg"
       [] m = "message.delete"                 -> "delete_msg"
       [] m \in {"channel.get", "guild.get"}   -> "get_group_info"
       [] m \in {"channel.list", "guild.list"} -> "get_group_list"
       [] m = "guild.member.get"               -> "get_group_member_info"
       [] m = "guild.member.list"              -> "get_group_member_list"
       [] m = "guild.member.kick"              -> "set_group_kick"
       [] m = "guild.member.mute"              -> "set_group_ban"
       [] m = "user.get"                       -> "get_stranger_info"
       [] m = "friend.list"                    -> "get_friend_list"
       [] m = "login.get"                      -> "get_login_info"]

\* The fields of the backend a method fills and the field each comes from.
SatoriIds(method) ==
  CASE method \in {"message.get", "message.delete"} -> {<<"message_id", "message_id">>}
    [] method = "channel.get" -> {<<"group_id", "channel_id">>}
    [] method \in {"guild.get", "guild.member.list"} -> {<<"group_id", "guild_id">>}
    [] method \in {"guild.member.get", "guild.member.kick", "guild.member.mute"} ->
         {<<"group_id", "guild_id">>, <<"user_id", "user_id">>}
    [] method = "user.get" -> {<<"user_id", "user_id">>}
    [] OTHER -> {}

\* Mutant: the guild's number taken for that of its member.
SatoriParams_GuildForUser(method, params) ==
  UNION {{<<p[1], n>> : n \in IdIn(params, IF <<"group_id", "guild_id">> \in SatoriIds(method)
                                            THEN "guild_id" ELSE p[2])} : p \in SatoriIds(method)}

\* The integers a method finds in its body, by the backend's names.
SatoriParams(method, params) ==
  UNION {{<<p[1], n>> : n \in IdIn(params, p[2])} : p \in SatoriIds(method)}

\* Mutes are in milliseconds in Satori, in seconds in OneBot.
MuteSeconds(ms) == ms \div 1000

TranslateSatoriApi(method, params) ==
  LET pairs == SatoriParams(method, params)
      ids == [k \in {p[1] : p \in pairs} |-> Integer((CHOOSE p \in pairs : p[1] = k)[2])]
      channel == IntField("group_id", IdIn(params, "channel_id"))
  IN IF method = "message.create"
     THEN {[action |-> IF DOMAIN channel = {} THEN "send_msg" ELSE "send_group_msg",
            params |-> Merge(channel, [message |-> ParseSatoriElements(params.content)])]}
     ELSE {[action |-> SatoriActions[m],
            params |-> Merge(ids, Field("duration", {Integer(MuteSeconds(params[k].int)) :
                         k \in {f \in DOMAIN params : f = "duration" /\ m = "guild.member.mute"}}))] :
             m \in SatoriMethods \cap {method}}

\* The account is the Satori-User-ID header.
ParseSatoriApi(r) ==
  {ApiRequest(t.action, t.params, UNION {ParseI64(s) : s \in r.self}) :
     t \in TranslateSatoriApi(r.action, r.params)}

\* The ApiRequest each endpoint makes of what it was sent.  Where the path
\* names the action a body that is no JSON counts as no parameters.
ParseRequest(r) ==
  LET params == IF r.wellformed THEN r.params ELSE <<>>
  IN IF r.endpoint = "v11_path" THEN {ApiRequest(r.action, params, {})}
     ELSE IF r.endpoint = "v12_path" THEN {ParseV12Action(r, params, {})}
     ELSE IF ~r.wellformed THEN {}
     ELSE CASE r.endpoint = "v11"    -> {ApiRequest(r.action, params, {a.int : a \in r.self})}
            [] r.endpoint = "v12"    -> {ParseV12Action(r, params, r.self)}
            [] r.endpoint = "satori" -> ParseSatoriApi(r)

-----------------------------------------------------------------------------
(* Answers.  An outcome is an error of the router or the backend's response, *)
(* with no data, an object or an array.                                     *)

Null == [null |-> TRUE]
Unroutable == [error |-> TRUE]
Response(retcode, data) == [retcode |-> retcode, data |-> data]

Person == [user_id |-> Integer(1), nickname |-> "nickname", card |-> "", remark |-> "remark",
           group_id |-> Integer(2), group_name |-> "group", message_id |-> Integer(3)]

Outcomes == {Unroutable, Response(1400, Null)}
            \cup {Response(0, d) : d \in {Null, [object |-> Person], [array |-> <<Person>>]}}

Members(data) == IF "array" \in DOMAIN data THEN data.array ELSE <<>>
ObjectIn(data) == IF "object" \in DOMAIN data THEN data.object ELSE <<>>
IdText(o, k) == Or({IdStr(o[f].int) : f \in DOMAIN o \cap {k}}, Opaque)
NameIn(o, k) == Or({o[f] : f \in DOMAIN o \cap {k}}, "")
NickIn(o, k) == IF NameIn(o, k) = "" THEN NameIn(o, "nickname") ELSE NameIn(o, k)

TranslateV11Response(action, resp) ==
  LET o == ObjectIn(resp.data)
  IN IF action \in {"get_self_info", "get_login_info"} /\ "user_id" \in DOMAIN o
     THEN [resp EXCEPT !.data = [user_id |-> IdText(o, "user_id"), user_name |-> NameIn(o, "nickname")]]
     ELSE resp

User(o) == [id |-> IdText(o, "user_id"), name |-> NameIn(o, "nickname")]

SatoriObject(method, o) ==
  CASE method = "message.create" -> [id |-> IdText(o, "message_id"), content |-> <<>>]
    [] method = "login.get" -> [platform |-> "qq", user |-> User(o), status |-> 1]
    [] method = "user.get"  -> User(o)
    [] method \in {"channel.get", "channel.list"} ->
         [id |-> IdText(o, "group_id"), type |-> 0, name |-> NameIn(o, "group_name")]
    [] method \in {"guild.get", "guild.list"} ->
         [id |-> IdText(o, "group_id"), name |-> NameIn(o, "group_name")]
    [] method \in {"guild.member.get", "guild.member.list"} ->
         [user |-> User(o), nick |-> NickIn(o, "card")]
    [] method = "friend.list" -> Merge(User(o), [nick |-> NickIn(o, "remark")])

ListMethods == {"channel.list", "guild.list", "guild.member.list", "friend.list"}
ObjectMethods == {"login.get", "user.get", "channel.get", "guild.get", "guild.member.get"}

\* Mutant: an object is made of the response whether it succeeded or not.
TranslateResponse_Unchecked(method, resp) ==
  CASE method \in ListMethods ->
         [data |-> [i \in DOMAIN Members(resp.data) |-> SatoriObject(method, Members(resp.data)[i])]]
    [] method \in ObjectMethods -> SatoriObject(method, ObjectIn(resp.data))
    [] OTHER -> resp.data

\* A response that failed is answered with its data alone.
TranslateResponse(method, resp) ==
  IF resp.retcode # 0 THEN resp.data
  ELSE IF method = "message.create" THEN [array |-> <<SatoriObject(method, ObjectIn(resp.data))>>]
  ELSE IF method \in ListMethods
  THEN [data |-> [i \in DOMAIN Members(resp.data) |-> SatoriObject(method, Members(resp.data)[i])]]
  ELSE IF method \in ObjectMethods THEN SatoriObject(method, ObjectIn(resp.data))
  ELSE resp.data

Http(code, content) == [http |-> code, content |-> content]

AnswerTo(r, outcome) ==
  LET failed == "error" \in DOMAIN outcome
  IN CASE r.endpoint \in {"v11", "v11_path"} ->
            Http(200, IF failed THEN Response(1400, Null) ELSE outcome)
       [] r.endpoint \in {"v12", "v12_path"} ->
            Http(200, IF failed THEN Response(20002, Null) ELSE TranslateV11Response(r.action, outcome))
       [] r.endpoint = "satori" ->
            IF failed THEN Http(500, Null) ELSE Http(200, TranslateResponse(r.action, outcome))

\* The answer to what no ApiRequest was made of.
Refusal(r) ==
  CASE r.endpoint = "v11" -> Http(200, Response(1400, Null))
    [] r.endpoint = "v12" -> Http(200, Response(10001, Null))
    [] r.endpoint = "satori" -> Http(IF r.wellformed THEN 404 ELSE 400, Null)

-----------------------------------------------------------------------------
(* The exchange *)

Request(endpoint, action, params, self, wellformed) ==
  [endpoint |-> endpoint, action |-> action, params |-> params, self |-> self,
   wellformed |-> wellformed]

Wellformed(endpoint, action, params, self) == Request(endpoint, action, params, self, TRUE)

\* A conforming client's reply with the content it was sent.
ReplyTo(p, b) ==
  CASE p = "v11" -> Wellformed("v11", "send_msg",
                               [k \in DOMAIN b \ {"post_type", "self_id"} |-> b[k]], {b.self_id})
    [] p = "v12" -> Wellformed("v12", "send_message",
                               [k \in DOMAIN b \ {"type", "self"} |-> b[k]], {b.self})
    [] p = "satori" -> Wellformed("satori", "message.create",
                                  [channel_id |-> b.channel.id, content |-> b.content], {b.login})

\* Requests of a client's own: any method with some ids, each a number of its
\* own or none.
IdNumber == [guild_id |-> 1, channel_id |-> 2, user_id |-> 3, message_id |-> 4, group_id |-> 5]

SomeIds(fields) ==
  {[f \in S |-> IF f \in numeric THEN IdStr(IdNumber[f]) ELSE Opaque] : S, numeric \in SUBSET fields}

SatoriCalls ==
  {Request("satori", method, ids, self, ok) :
     method \in SatoriMethods \cup {"unsupported"},
     ids \in SomeIds({"guild_id", "channel_id", "user_id", "message_id"}),
     self \in {{}, {Opaque}}, ok \in BOOLEAN}

SatoriMutes ==
  {Wellformed("satori", "guild.member.mute", Merge(ids, [duration |-> Integer(ms)]), {}) :
     ids \in SomeIds({"guild_id", "user_id"}), ms \in Durations}

SatoriRequests ==
  SatoriCalls \cup SatoriMutes
  \cup {Wellformed("satori", "message.create", [channel_id |-> Opaque, content |-> <<"a">>], {})}

V12Calls ==
  {Request(endpoint, action, ids, self, ok) :
     endpoint \in {"v12", "v12_path"},
     action \in DOMAIN V12Actions \cup {"get_message", "other"},
     ids \in SomeIds({"group_id", "user_id", "message_id"}), self \in {{}, {Opaque}}, ok \in BOOLEAN}

V12Sends ==
  {Wellformed("v12", "send_message", Merge(ids, [detail_type |-> d]), {}) :
     ids \in SomeIds({"group_id", "user_id"}), d \in {"group", "private", "channel"}}

V12Requests == V12Calls \cup V12Sends

V11Requests ==
  {Request(endpoint, "send_msg", [user_id |-> Integer(1)], self, ok) :
     endpoint \in {"v11", "v11_path"}, self \in {{}} \cup {{Integer(a)} : a \in Accounts}, ok \in BOOLEAN}

Init ==
  /\ stage = "idle"
  /\ event = None
  /\ proto = None
  /\ body = None
  /\ asked = None
  /\ request = None
  /\ answer = None

Receive ==
  /\ stage = "idle"
  /\ \E raw \in RawEvents : event' = ParseEvent(raw)
  /\ stage' = "parsed"
  /\ UNCHANGED <<proto, body, asked, request, answer>>

Deliver ==
  /\ stage = "parsed"
  /\ \E p \in Protocols : proto' = p /\ body' = EventToClient(p, event)
  /\ stage' = "delivered"
  /\ UNCHANGED <<event, asked, request, answer>>

Reply ==
  /\ stage = "delivered" /\ event.kind = "message"
  /\ asked' = ReplyTo(proto, body)
  /\ stage' = "asked"
  /\ UNCHANGED <<event, proto, body, request, answer>>

Ask ==
  /\ stage = "idle"
  /\ \E r \in SatoriRequests \cup V12Requests \cup V11Requests : asked' = r
  /\ stage' = "asked"
  /\ UNCHANGED <<event, proto, body, request, answer>>

Route ==
  /\ stage = "asked"
  /\ \E r \in ParseRequest(asked) : request' = r
  /\ stage' = "routed"
  /\ UNCHANGED <<event, proto, body, asked, answer>>

Refuse ==
  /\ stage = "asked" /\ ParseRequest(asked) = {}
  /\ answer' = Refusal(asked)
  /\ stage' = "answered"
  /\ UNCHANGED <<event, proto, body, asked, request>>

Execute ==
  /\ stage = "routed"
  /\ \E o \in Outcomes : answer' = AnswerTo(asked, o)
  /\ stage' = "answered"
  /\ UNCHANGED <<event, proto, body, asked, request>>

\* The next exchange: nothing is kept between two.
Finish ==
  /\ stage \in {"delivered", "answered"}
  /\ stage' = "idle"
  /\ event' = None
  /\ proto' = None
  /\ body' = None
  /\ asked' = None
  /\ request' = None
  /\ answer' = None

Next == Receive \/ Deliver \/ Reply \/ Ask \/ Route \/ Refuse \/ Execute \/ Finish

Spec == Init /\ [][Next]_vars

-----------------------------------------------------------------------------
(* Properties *)

\* Each stage has made what the next one reads: a client has its event, a
\* routed request its integer account, an answer its HTTP code.
TypeOK ==
  /\ stage \in {"idle", "parsed", "delivered", "asked", "routed", "answered"}
  /\ stage \in {"parsed", "delivered"} => event # None
  /\ stage = "delivered" => proto \in Protocols
  /\ stage \in {"asked", "routed", "answered"} => asked.wellformed \in BOOLEAN
  /\ stage = "routed" => request.self_id \in SUBSET Accounts
  /\ stage = "answered" => answer.http \in {200, 400, 404, 500}

Replied == stage = "routed" /\ event # None

\* Where OneBot v11 delivers a message.
Destination(r) ==
  LET at(type, k) == {<<type, r.params[f].int>> : f \in DOMAIN r.params \cap {k}}
  IN IF r.action = "send_group_msg" \/ (r.action = "send_msg" /\ r.params.message_type = "group")
     THEN at("group", "group_id") ELSE at("private", "user_id")

ChatOf(e) == IF e.message_type = "group" THEN {<<"group", g>> : g \in e.group_id}
                                         ELSE {<<"private", e.user_id>>}

\* A reply to a message reaches the chat it came from, in every protocol and
\* whatever numbers users and groups share, and leaves through the account the
\* message came to (self_id, "self", login).  The exception is message.create
\* of Satori (satori.rs:533-545): every numeric channel is taken for a group,
\* so the reply to a direct message goes to the group with the sender's number
\* (and the one to a group message without a group to group 0).
ReplyReachesChat ==
  Replied =>
    /\ \/ Destination(request) = ChatOf(event)
       \/ proto = "satori" /\ Destination(request) = {<<"group",
            IF event.message_type = "private" THEN event.user_id ELSE 0>>}
    /\ request.self_id = {event.self_id}

\* What a message is to a reader of Satori's elements: cards are text, text
\* runs together, a media segment is its source, a poke is dropped, and a reply
\* whose id holds the word "forward" is a forward.
KeptInSatori(segments) ==
  LET TextIn(s) == IF s.type = "text" THEN s.data.text ELSE s.data.data
      Step(r, s) ==
        CASE s.type \in {"text", "json", "xml"} ->
               IF TextIn(s) = <<>> THEN r
               ELSE [open |-> TRUE,
                     done |-> IF r.open
                              THEN Append(Front(r.done), Text(Last(r.done).data.text \o TextIn(s)))
                              ELSE Append(r.done, Text(TextIn(s)))]
          [] s.type = "poke" -> [r EXCEPT !.open = FALSE]
          [] s.type \in {"image", "record", "video"} ->
               [open |-> FALSE, done |-> Append(r.done, Segment(s.type,
                                  [file |-> Source(s.data), url |-> Source(s.data)]))]
          [] s.type = "reply" /\ Contains(s.data.id, "forward") ->
               [open |-> FALSE, done |-> Append(r.done, Segment("forward", s.data))]
          [] OTHER -> [open |-> FALSE, done |-> Append(r.done, s)]
  IN FoldLeft(Step, [open |-> FALSE, done |-> <<>>], segments).done

\* The segments a OneBot v11 backend reads, by the names that
\* parse_single_segment of onebot_v11.rs reads them by.
ReadByV11(s) ==
  \/ s.type \in {"text", "at", "face", "forward", "json", "xml", "poke", "record"}
  \/ s.type \in {"image", "video"} /\ "file" \in DOMAIN s.data
  \/ s.type = "reply" /\ "id" \in DOMAIN s.data

\* A reply with the content of a message brings the backend that content: all
\* of it in v11, and what Satori's elements can say in Satori, where no text and
\* no attribute is lost to its own &, <, > or quotation marks.  (In v12 the
\* segments are passed on as they are, onebot_v12.rs:247.)
ReplyKeepsContent ==
  Replied =>
    /\ proto = "v11"    => request.params.message = event.message
    /\ proto = "satori" => request.params.message = KeptInSatori(event.message)

\* The ids an action of OneBot v11 requires.
Required(action) ==
  CASE action \in {"get_msg", "delete_msg"} -> {"message_id"}
    [] action \in {"get_group_info", "get_group_member_list"} -> {"group_id"}
    [] action \in {"get_group_member_info", "set_group_kick", "set_group_ban"} -> {"group_id", "user_id"}
    [] action = "get_stranger_info" -> {"user_id"}
    [] OTHER -> {}

\* The field of a Satori request that means one of a backend's ids.
GivenAs(method, k) ==
  IF k # "group_id" THEN k
  ELSE IF method \in {"channel.get", "message.create"} THEN "channel_id" ELSE "guild_id"

\* A Satori request reaches the backend with every id its action requires that
\* the client gave as a number, each as an integer and with the number of the
\* field that means it, and a mute with the whole seconds of its milliseconds.
\* (With the types: an account that is no number is never made one.)
RequestsComplete ==
  /\ TypeOK
  /\ stage = "routed" /\ asked.endpoint = "satori" /\ event = None =>
    /\ \A k \in DOMAIN request.params \ {"message"} : "int" \in DOMAIN request.params[k]
    /\ \A k \in Required(request.action) :
         IdIn(asked.params, GivenAs(asked.action, k)) # {} => k \in DOMAIN request.params
    /\ \A k \in DOMAIN request.params \cap {"group_id", "user_id", "message_id"} :
         request.params[k].int \in IdIn(asked.params, GivenAs(asked.action, k))
    /\ "duration" \in DOMAIN request.params =>
         LET ms == asked.params.duration.int
             s  == request.params.duration.int
         IN s * 1000 <= ms /\ ms < (s + 1) * 1000

\* Methods whose response Satori passes on as it is.
PassedThrough == {"message.get", "message.delete", "guild.member.kick", "guild.member.mute"}

\* No failure looks like a success: an answer that some failure gives is given
\* by no success, except by the Satori methods passed through, where a failed
\* response is answered 200 with no data, as a kick that worked is.
AnswerTellsFailure ==
  stage = "answered" /\ (asked.endpoint # "satori" \/ asked.action \notin PassedThrough) =>
    \A good, bad \in {o \in Outcomes : asked.wellformed} :
      /\ "retcode" \in DOMAIN good /\ good.retcode = 0
      /\ "error" \in DOMAIN bad \/ bad.retcode # 0
      => ~(answer = AnswerTo(asked, good) /\ answer = AnswerTo(asked, bad))

=============================================================================
