# ferroq: a verification project

TLA+ modules, TLC runs and TLAPS proofs about ferroq, the QQ-bot gateway of this
repository (Rust; paths below are relative to the repository root). The modules are
translated from the code. Two runs state what a comment and the documents promise and the
code does not do (`lagrange_second_loss`, `backends_unreachable`); TLC finds them violated,
and PROJECT.json lists them under `findings`. Other differences met are described in
section 4.

    tlc -workers 2 -config MCLagrange_calls.cfg MCLagrange.tla     a run
    tlapm LagrangeAdapterProofs.tla                                 the proofs of a module

PROJECT.json maps every definition to its source lines and lists runs, mutants, findings,
hazards and theorems.

## 1. The system

Backends (Lagrange.OneBot, NapCat, the official API) are reached through **adapters**. An
adapter's events go through an unbounded channel to a **forwarding task**, past the
**deduplication filter**, to the **event bus** (a tokio broadcast channel), and from there
to every client connection of the **protocol servers**, to the HTTP POST and reverse
WebSocket tasks and to the **persistence task**. API requests go the other way: server →
**router** → adapter → backend. The **management API** adds, removes and reconnects
adapters and reloads the configuration while all this runs; a **stats refresher** checks
the adapters' health every five seconds and tells the router which account id each serves.

All of it runs on a multi-threaded tokio runtime. Shared state is behind parking_lot locks
that are never held over an await, so every operation is a sequence of short critical
sections with anything in between.

| Component | Source | State | Operations | What makes it correct | Modelled by |
|---|---|---|---|---|---|
| Lagrange adapter | gateway `adapter/lagrange.rs` | state, writer channel, task handles, pending calls, echo counter | connect, disconnect, call_api, reader, writer and monitor tasks | each call gets its own answer or an error; a loss is repaired; disconnect leaves nothing | LagrangeAdapter |
| API router | gateway `router.rs` | adapter list, id table, default index | register, unregister, associate_self_id, route_named | an id leads to its adapter, indices stay in bounds | ApiRouter |
| Adapter manager | gateway `adapter_manager.rs` | live map, forwarding task handles | register_running, add, remove, reconnect, shutdown | live map, router and tasks agree under overlapping requests | AdapterManager |
| Gateway runtime | gateway `runtime.rs` | background task handles | start, stats refresher, persistence, shutdown | routing follows the adapters | AdapterManager, EventPipeline |
| Deduplication filter | gateway `dedup.rs` | map of fingerprints, time of last sweep | is_duplicate, maybe_evict | one event per fingerprint and window, bounded memory | DedupFilter |
| Event bus, protocol servers | gateway `bus.rs`, `server/onebot_v11.rs`, `server/onebot_v12.rs`, `server/satori.rs` | subscription, outbound queue, permits, phase of the handshake | identify, push, writer, reader, API tasks, reverse dial | order, accounting of loss, one reply per request, clean end | WsConnection; HTTP endpoints in Conversation, the HTTP POST task in EventPipeline |
| Official adapter | gateway `adapter/official.rs` | state, event channel, preferred mode, id | connect with a probe, disconnect, call_api over the modes | one try per mode, no dead Connected | OfficialAdapter |
| Failover adapter | gateway `adapter/failover.rs` | two adapters | the same, on primary and fallback | when the fallback is asked, how often a request is executed | FailoverAdapter |
| Event forwarding | gateway `forward.rs` | counters | forward_events | one publication per event, counters agree | EventPipeline; the task's life in AdapterManager |
| Message storage, persistence task | gateway `storage.rs`, `runtime.rs` | SQLite table, the insert under way | insert, query, cleanup | every message accounted for, retention, complete paging | EventPipeline |
| Rate limiter, token check | gateway `middleware.rs` | tokens, rps, burst | refill, try_acquire, update_config | bounded rate over changes of the parameters, no lockout | ConfigReload |
| Reload, validation | gateway `management.rs`, `shared_config.rs`; core `validation.rs` | access token, limiter | handle_reload | only accepted files are applied, and unmixed unless reloads overlap | ConfigReload |
| Plugin engine | gateway `plugin_engine.rs`; core `plugin.rs` | plugin instances, result buffer | load_plugins, process_event, process_api_call, set_plugin_enabled | an item stays itself through the chain; what a trap leaves behind is taken once | PluginEngine |
| Protocol conversion | gateway `onebot_v11.rs`, `onebot_v12.rs`, `satori.rs` | none | events, segments, requests and responses in three protocols | replies reach their chat with their content; failures show | Segments, Conversation |
| Statistics | gateway `stats.rs` | counters | record_* | counters agree with what happened | part of EventPipeline and WsConnection |
| Tuning, dashboard, CLI, example plugin | gateway `tuning.rs`; `ferroq-web`; `ferroq/src/main.rs`; `plugins/echo` | none | constants, wiring | | not modelled (section 7) |

("gateway" is `crates/ferroq-gateway/src`.)

The hard behaviours, listed with their lines under `hazards`: overlapping connect,
disconnect and management requests; tasks that an abort stops only at their next await;
answers, timeouts and losses racing; values read before an await and used after it; queues
at their limit; a reader blocked by its own reply; clock readings taken before a lock;
calls repeated on another adapter; settings stored one by one; what a trapped plugin leaves
behind; identities that two protocols write differently.

## 2. The plan

| # | Modules | Composes | State |
|---|---|---|---|
| 1 | ApiCall (abstract), LagrangeAdapter, LagrangeAdapterProofs | ApiCall as refinement | checked and proved |
| 2 | ApiRouter, AdapterManager, AdapterManagerProofs | router, manager, refresher, forwarding tasks | checked and proved |
| 3 | OncePerWindow (abstract), DedupFilter, EventProofs | OncePerWindow as refinement | checked and proved |
| 4 | WsConnection, WsConnectionProofs | bus subscription, queue, permits, writer, for four kinds of connection | checked and proved |
| 5 | OfficialAdapter, FailoverAdapter, FailoverAdapterProofs | failover over two adapters, official or Lagrange | checked and proved |
| 6 | PluginEngine, PluginEngineProofs | | checked and proved |
| 7 | Segments, Conversation, EventProofs | an event out to a client and its reply back, in each protocol | checked; proved but for the encodings of a text |
| 8 | ConfigReload, ConfigReloadProofs | validation, reloads, limiter and refill task | checked and proved |
| 9 | EventPipeline, EventPipelineProofs | forwarders, filter, bus, persistence, store, HTTP POST task, shutdown | checked and proved |

"Proved" is said of the safety properties; liveness is only model-checked (section 6).

## 3. The modules

### ApiCall, LagrangeAdapter

`ApiCall` is the contract of `BackendAdapter::call_api`: a call returns at most once, Ok only
after the backend executed the request, and a request is executed at most once.

`LagrangeAdapter` has one variable per field of `Inner` and per kind of task. Its actions
are the critical sections: `SendRequest` is the locked part of `call_api` (register, then
queue), `HandleApiResponse` the reader's removal and send, `ReaderMark` the reader's exit,
`MonitorNotice/Mark/Dial/Install` the four segments of the monitor between awaits,
`ConnectOpen/ConnectInstall` the two of `connect`, `Disconnect` the whole of `disconnect`.
`JoinHandle::abort` acts at an await: an aborted monitor in phase "lost" or "opened" still
takes the step it has begun. The connectors are the start-up of the account and management
requests that reconnect or remove it.

Abstractions: the outbox is a set (its order tells no property apart); backoff durations,
pings and the event half of the reader are left out; a request whose socket was closed
under it may be lost silently or fail. Identities of connections and monitors are recycled,
so losses and reconnects are unbounded; only their number at one time is bounded.

### ApiRouter, AdapterManager

`ApiRouter` holds the router's three fields and its operations; `RouteNamed` is the choice
`route_named` makes. `AdapterManager` extends it with the live map, the forwarding tasks
and, for each management request, the phases between its awaits and locks: `AddCheck`,
`AddConnect`, `AddRegister`, `AddInsert`; `RemoveTake`, `RemoveDisconnect`,
`RemoveUnregister`; `ReconnectTake`, `ReconnectDisconnect`, `ReconnectBegin`,
`ReconnectConnect`, `ReconnectStore`. `RequestDropped` is a handler whose client went away
during the connect.
The refresher is `RefreshList`, `RefreshNames`, then one `RefreshVisit` per adapter, with a
health check (an await) in between. An adapter is reduced to its account, the sender in its
field `event_tx`, the readers of its connections and the connection whose handles it has
stored. `BeginConnect` is the critical section of `connect`: it stores the sender before the
dial, and neither a failed dial nor a loss nor `disconnect` takes it out again
(`lagrange.rs:464`, `467`, `472`), so that whichever reader runs sends into the channel stored
last. `EndConnect` is the outcome of the dial, `Disconnect` ends the reader whose handle was
stored last. A forwarding task ends when nothing holds its sender any more (`Held`).

Two history variables serve the properties: `displaced`, the adapters still in the router
whose live entry was overwritten by an overlapping add or drained by the shutdown, and
`contested`, the names that overlapping requests have been adding at once.

### OncePerWindow, DedupFilter

`OncePerWindow` remembers every acceptance and never forgets. `DedupFilter` is the code's
map with its lazy sweeps, called by several tasks that read the clock before they take the
lock. The refinement mapping is the identity on the history variables `accepted` and
`decision`. `MaxDelay` bounds how old a reading may be when it is used.
Init, Next and the type invariant are named with `Filter`, because EventProofs extends DedupFilter
together with Conversation.

### WsConnection

One WebSocket connection: push task, writer, reader and API tasks around the bounded queue.
The constant `Protocols` says which servers are tried: a forward client of the v11, v12 or
Satori server, or the reverse connection of v11. They share queue, bus and tasks and differ
in how they open: `Accept` serves a OneBot client at once; a Satori client is counted
(`AcceptSatori`), may fail to identify itself (`IdentifyFails`: timeout, wrong token, gone),
gets READY and is subscribed only then; a reverse connection is dialled again after each
loss (`Dial`), and `StopBackground` ends its reader but not the tasks it spawned. `Reply` is
the `send().await` of API tasks and of the reader's own answers (overload, malformed v12
request, Satori pong); while the latter wait (`ReaderBlocked`) the reader takes no step.
tokio hands freed room to waiting senders first, so `try_send` may report a full queue
whenever somebody waits; `PushDrop` allows it, `PushQueue` does not require it.
The properties speak of places in `Outbound`: what the client has got, then what the writer
holds, then the queue.

### OfficialAdapter, FailoverAdapter

`OfficialAdapter` holds the fields of official adapters and the steps of their operations
that take the lock; `FailoverAdapter` strings them together. A task performs one operation
of the account: `AtSide` is where it stands, `task[j].modes` the modes it has still to post,
`SideReturns` what the failover adapter makes of a side's answer;
the modes are those of the configuration with the preferred one moved to the front
(`CandidateModes`). Each post is a step, and
so is the end of `connect`, which nothing re-checks after the probe. A side may also be a
Lagrange adapter, reduced to what `ApiCall` promises (one post, which may be executed
although its answer is lost) and to the states its monitor and its connects give it.
The histories of a call are its executions, the modes it was posted in and, for each side, what
it met there (`fate`): a backend that took it, one that rejected it, one that could not be
reached. `FailsOver` says when the fallback must be asked (the primary was not connected, or is a
Lagrange one that gave no answer) and when it must not (an official primary took the request);
of an official primary that is connected but unreachable it says nothing. `UnreachableFailsOver` says what the comment of
`is_connection_error` does, that no call returns with a primary unreachable and the fallback
unasked, and is violated.

### PluginEngine

A step is the call of one plugin's hook, with everything the host does around it: allocate,
call, take the result buffer, parse, free. What the guest does is free: no result, garbage or
an edit of the item it was given, any code, a trap at any point. `unread`
(history) holds the items whose edit a trap left behind; `left` and `stale` (histories) count
the calls that ended without their result being taken and those that took an earlier one's. The memory of the guests is left out, and with it what stays allocated there when a call
traps, a write fails after its allocation (`plugin_engine.rs:387`) or the deallocator is
missing or traps (`plugin_engine.rs:396`).
`SkipPlugin` is every reason why `load_plugins` goes on without a plugin.

### Segments, Conversation

Texts are sequences of pieces, the characters and words the encodings tell apart, so
escaping, tags and entities are real operations on them. `Segments` holds the segments
themselves and their v11, v12 and Satori encodings both ways. `Conversation` is an exchange:
a raw event is parsed, written for a client of one protocol, the client replies with the
content it got where it was told to; or a client makes a request of its own; the request
becomes an `ApiRequest`, is executed with any outcome, and its response is written back. An
optional value is a set of at most one element. The client and the backend are external.
A tag of Satori is recognized by what it begins with, and the word "forward" anywhere in a
`message` tag makes it a forward (`satori.rs:412`): a word that begins with or holds one of
these is written as several pieces, and a reply whose id holds "forward" is among the samples.

### ConfigReload

A step is one access to shared state: the refill task reads rps, reads burst, updates the
bucket; a reload reads and validates the file, compares the token, stores it, stores rps,
stores burst. `Valid` is the conjunction of the checks that are errors. `group` (history)
holds the files of reloads that overlap: it starts afresh with a reload that finds none
under way.

### EventPipeline

The bus is the sequence of all events published while somebody was subscribed, a receiver
the index it reads next; `PersistLag` is `RecvError::Lagged`. The insert of a message runs on
a blocking thread (`JobInserts`, `JobFails`) while the persistence task waits, and goes on
when the task is aborted. Times are parts of a day, as retention compares day against day.
The deduplication filter is what `OncePerWindow` leaves of it, a set of keys; `Forget` is
the end of a window or an eviction at any time, which DedupFilter makes precise. The store is a set of
rows; `kept` (history) is what was ever inserted, in order. A client pages through it one row
at a time, with inserts and deletions between its pages: a page is the row of a `Rank` in the
order of the query. The
shutdown aborts the server's task, the forwarding tasks and the persistence task in the
order of `main`.

## 4. The runs

| Run | Shows | Bounds |
|---|---|---|
| lagrange_calls | answers reach their own call, the pending map is exact, Connected implies a writer, Disconnected a clean slate, ApiCall is implemented | 2 calls (one may be dropped), the start-up and an overlapping management request, 3 connections and 2 monitors at a time |
| lagrange_liveness | a loss is repaired while a monitor is left; every call returns | one request, one call, 3 connections |
| lagrange_second_loss | finding | one connector, 2 connections |
| manager_requests | router, live map and forwarding tasks agree; stale entries of the table are repaired | 2 overlapping requests, 1 configured account, one adapter more of its name and two of another name to add |
| dedup_window | the swept map decides as one that forgets nothing; sweeps are complete | 2 tasks, window 3, sweeps at 4, readings 2 old, 9 ticks (three windows, two sweeps) |
| ws_connection | order and accounting of events, one reply per request with its echo, the handler of a closed connection ends, a reading client gets every reply | each of the four kinds, 3 events on a bus of 2 and a queue of 1, 3 requests (one malformed) for 1 permit |
| backends_failover | executions are explained and each mode is tried once, what a call met before it returned, no dead Connected but for an overtaken connect | one call and two other operations, sides of either kind, 3 and 4 modes |
| backends_unreachable | finding | one call and one other operation |
| plugins_chain | results belong to the call that made them or to one that trapped, each is taken once, an item stays itself | 2 plugins of equal or different names, 3 passes over 2 events and a request |
| conversions | replies reach chat, account and content; ids and failures are not lost | every text of up to 3 pieces, every pair of 15 segments of 13 kinds, 2 accounts, 2 numbers used by users and groups alike, every method and endpoint with and without each id, each a number of its own or none |
| reload | settings come from accepted files, the rate is bounded, the bucket refills | 2 overlapping reloads, 2 valid files (one with rps 0) and one refused, every other reason to refuse as an assumption of MCConfigReload |
| pipeline | order, accounting, counters, retention, paging, nothing left waiting | 2 adapters that send 4 events, 2 of them one message, a bus of 1, half-days, one day of retention, one client paging |

Why these bounds are enough. The races need two or three actors: the third connection lets an
action meet the leftovers of two earlier ones; two management requests overlap, and what they
leave is met by the start-up's account, the refresher and losses (the proofs of section 6 are for
any number of requests). Queues and
permits of one are at their limit at once; the bus of two laps its subscriber. Three
windows let an entry be recorded, expire, be swept and be recorded again. Each property is
also violated by a mutant of the code under the same bounds (`mutants`), so the bounds do
reach the case.

In the runs that have no invariant `TypeOK` of their own, the type invariant is a conjunct of
the accounting one (`EventsAccounted`, `LeftoversTakenOnce`, `ExecutionsExplained`,
`RequestsComplete`, `SettingsExplained`, `MessagesAccounted`).

Deadlock is checked where the system never stops (conversions, reload). The other systems
stop legitimately: bounded requests, a closed connection, a shut-down gateway, the end of the
bounded clock.

Findings:

- an adapter reconnects only once in its life, because its monitor ends with its first success
  (`lagrange.rs:276`): `lagrange_second_loss`;
- a call to an official primary that cannot be reached returns `GatewayError::Http`, which
  `is_connection_error` does not count (`failover.rs:48`), so the fallback is never asked,
  although `failover.rs:46` speaks of an adapter that is "disconnected / unreachable" and
  `docs/src/en/guide/failover.md:24` promises a retry "on connection error":
  `backends_unreachable`.

Behaviours met while modelling for which no run is kept:

- two overlapping adds of one name both pass the check of `add_adapter`
  (`adapter_manager.rs:93`): the name is in the router twice, and if the adapter inserted
  first is removed before the second insert, `unregister` takes the adapter that stays. The
  refresher finds the first of the two by the name and associates the id of the live one with
  it. `LiveIsRouted` and `RoutingConverges` therefore except names in `contested`;
- of two reconnects that overlap, the one that stored the sender last may be dropped in its
  dial while the other succeeds (`adapter_manager.rs:201`): the adapter is connected and sends
  into a channel without a receiver until the next reconnect. `LiveIsForwarded` excepts exactly
  the senders of dropped requests;
- a reader that ends between its spawn (`lagrange.rs:185`) and the assignment of Connected
  (193) marks nothing: the adapter stays Connected without a reader;
- a send on a writer channel that is closed (`lagrange.rs:520`) returns before the removal
  its sibling branch makes, which is why `EntriesExplained` admits "send_failed";
- a monitor between two awaits when `disconnect` aborts it goes on to set the state of the
  disconnected adapter, which is why `DisconnectedIsClean` speaks of the state Disconnected
  and not of everything after a disconnect;
- an adapter whose first connect fails never retries: `connect` returns before it spawns a
  monitor (`lagrange.rs:467`), though `runtime.rs:147` logs "will retry";
- the refresher writes an index it read before a health check (`runtime.rs:188`,
  `router.rs:53`): until its next round an id may lead to another adapter or past the end,
  which is why routing is stated as `RoutingConverges`;
- a removal overlapping a reconnect of the same adapter leaves it connected and forwarded,
  though nobody manages it (`adapter_manager.rs:201`, `214`);
- a v12 response carries the echo the adapter put on the forwarded request
  (`server/onebot_v12.rs:347`), hence the exception in `AnsweredOnce`;
- a Lagrange primary's timeout counts as a connection error: the request may be executed on
  both sides (`failover.rs:151`);
- `connect` of an official adapter sets Connected after its probe although a disconnect came
  in between, and without an event channel (`official.rs:326`): the adapter is Connected for good. `ConnectedIsOpen` excepts the adapters
  in `overtaken`, and so shows only that there is no other way to a dead Connected;
- a plugin that traps after `set_result` leaves its result in the buffer: its next call takes
  it, and another event, or a request of an earlier pass, is replaced by the old one;
- the gateway loads plugins and never calls `process_event` or `process_api_call`
  (`main.rs:142`);
- a rate or burst of 0 is valid; once applied it locks out every request, `POST /api/reload`
  included (the rate limit is its outermost layer, `main.rs:442`). A reload applies the limits
  of a file even if that file disables rate limiting, and does not apply its accounts;
- a lowered burst takes effect at a refill: until then the bucket holds more than it;
- a Satori channel of a direct message is its sender's number, and `message.create` sends to
  the group of that number (`satori.rs:541`); of a direct message in Satori `ReplyReachesChat`
  says that the reply goes there;
- `send_message` of v12 passes its v12 segments to the v11 backend unchanged
  (`onebot_v12.rs:247`), though the comment above it calls the format compatible: of the
  segments the gateway itself writes for v12, those a v11 backend reads by its own names are
  the texts (`V12RepliesKeepText`). `ReplyKeepsContent` makes no claim about v12;
- in Satori a poke is lost, a reply whose id holds "forward" comes back as a forward, and
  `read_entity` swallows everything up to the next semicolon;
- a mute of less than a second becomes one of 0, which lifts the mute (`satori.rs:666`);
  `RequestsComplete` states the whole seconds, of which there are none;
- a Satori method whose backend failed is answered 200 with the data of the failed response
  (`satori.rs:705`): the methods `PassedThrough` show no difference between a kick that worked
  and one that did not;
- the endpoints that name the action in their path have no account and treat a body that is
  no JSON as no parameters; `message_sent` becomes `message`; numeric ids of forward and
  poke segments are lost; the `sn` of a Satori IDENTIFY is ignored;
- retention keeps the whole day of its cutoff: the texts it compares differ at the `T`
  (`storage.rs:307`), so a message may live almost a day longer than `max_days`;
- the fingerprint of a meta event has more fields (`dedup.rs:154`) than `dedup.rs:16` says.

## 5. Fairness

LagrangeAdapter: spawned tasks run, a closed socket is reported to its reader,
timers fire, a dial ends within its timeout and a backend dialled for ever accepts in the
end. Nothing is assumed of callers, of the backend answering, or of the writer. `EveryCallReturns`
thus rests on the timeout alone, as in the code.

AdapterManager: weak fairness of a request's next step (connects have a timeout), of
start-up and of the refresher (health checks have one too). Requests need not be made.

WsConnection: tasks are scheduled, routed calls return (timeout), a write on a closed
connection ends, a client that does not identify itself runs into the timeout.
`ClosedIsCleaned` does not assume that the client reads; `ReadIsAnswered` has it as its
hypothesis (`ClientReads`).

ConfigReload: the interval of the refill task ticks for ever. No reload need ever be finished.

EventPipeline: the persistence task is polled when it can go on and the thread pool runs what
it was given. Forwarders, the HTTP target, the cleanup and clients may stop at any time.

## 6. The proofs

`LagrangeAdapterProofs` proves, for any sets of connections, monitors, connectors and calls
(`ConstantsAssumption`): the types, `AnswersMatch`, `ConnectedHasWriter`,
`DisconnectedIsClean`, `EntriesExplained`, and that the adapter implements `ApiCall`. The inductive invariant `IInv` adds what these need:

- echoes are below the counter and differ (`EchoesUnique`), so the entries under one key
  belong to one call; without it an answer could wake somebody else;
- a request is in a channel or at the backend only after its call was registered
  (`RequestsRegistered`), hence a response meets no unregistered call;
- a request is in at most one channel, and in none once executed (`ExecutedOnce`), the
  at-most-once half of the contract;
- a task past its dial holds a connection (`HoldsConnection`), so what it stores as the
  writer is one.

`EventProofs` holds the proofs about what becomes of one event. Of DedupFilter it proves, for
any tasks, events, window, sweep interval and delay (`DedupAssumption`), that the filter implements `OncePerWindow` with slack `MaxDelay` and
that sweeps are complete. The invariant says that an entry of the map is the last
acceptance, and that an entry the map has lost had expired by the clock; a pending reading
is at most `MaxDelay` behind the clock, hence at most that far inside a forgotten window.

Of Conversation it proves, for any accounts, numbers, durations, texts and segments
(`NoneAssumption`: an event is not `None`), `ReplyReachesChat`, `RequestsComplete` (each id under
the name and with the number of the field that means it, `IdsMeant`)
and `AnswerTellsFailure`. The invariant (`ConversationInv`) says that each stage holds what the
conversion before it made: the body of the event that arrived (`Replying`), the request of
that body or of a client's own (`Asking`), the answer of some outcome. What remains is one
lemma per conversion and back. They rest on what an object is made of: `Merge` of two objects
has the fields of both and the first has the say (`MergeDomain`, `MergeFirst`, `MergeSecond`),
an optional field is there exactly if it has a value (`FieldDomain`, `FieldValue`), a string of
digits gives its number back and any other none (`OneIdIn`, `NoIdIn`). Of a mute the proof divides
milliseconds by 1000; of the answers it compares, for each Satori method outside
`PassedThrough`, the shape of a success with that of every failure.

Of `ReplyKeepsContent` it proves the part of v11 (`V11RepliesKeepContent`), and of v12 that the
segments of a reply which a v11 backend reads are the texts of the message, unchanged and in
place (`V12RepliesKeepText`, from `OnlyTextSurvives` about any segment).

`AdapterManagerProofs` proves, for any finite sets of requests and adapters and any names and
account ids (`RouterAssumption`, `ManagerAssumption`: configured names differ, as the
configuration's validation demands), all the safety `manager_requests` checks, for more
overlapping requests than the run has, too. It starts with what the router's searches return (the first of a name,
the last of an id) and what a removal from the list leaves. Then:

- `DefaultCorrect` and `EntriesKept` follow from these: an index is kept by an append, and a
  rebuilt table holds only right entries;
- `AccountingCorrect` counts: an append adds one place of a name, `unregister` takes one
  (a bijection between the places left and those before), and each request step moves one
  between the live map, the requests in progress and the displaced. `LifeInv` supplies
  that these three never share an adapter, so the count is exact;
- `LiveRouted` needs the order of the list as well (`LiveFor`): of a name whose additions
  have not overlapped, the live adapter is the last in the list, while `unregister` takes
  the first. By the accounting a removal in progress means that there are at least two, so
  the two are not the same;
- `ForwardingCorrect` needs to know whose a channel is (`ChannelInv`): the account's that was
  started with it or the target's of its request, whatever handle is stored under whatever
  name, and so is the sender in an adapter's field. Then a live adapter whose sender nobody
  forwards has a request that is about to replace the sender or to start the forwarding task,
  or one that was dropped before it could (`ForwardInv`); when no request is in progress only
  the dropped one is left.

`WsConnectionProofs` proves, for any number of requests and any capacities of bus, queue and
permits (`WsAssumption`: they are positive, and an adapter's own echo is no request's),
`EventsInOrder`, `EventsAccounted` and `AnsweredOnce` of all four kinds of connection. They
are nearly inductive; `IInv` adds that nothing exists of a connection before it is opened
(`Fresh`), which gives the accounting its start after each dial; that messages are on their
way only while the writer runs, and it runs while the handler serves an open socket
(`WriterAlive`), so nothing is lost from an open connection; and that the push task is
beyond every event it has pushed (`PushedBefore`), from which their order follows. The
lemmas say what an append, a move from queue to writer to client, and a loss make of
`Outbound`.

`FailoverAdapterProofs` proves, for any calls, administrative tasks and modes
(`FailoverAssumption`: the two kinds of task differ, as do modes and results from `None`),
`ExecutionsExplained`, `FailsOver` and `ConnectedIsOpen`. The invariant says of each task that
what it has left to try are different modes of its side (`TaskOk`), that a connect past its
first step has the event channel unless it was overtaken (`ProbeOk`), and of a call that each
mode of its side is either tried or left to try and never both (`CallOk`): it returns
an HTTP error when none is left, so all were tried. `HistoryOk` keeps of a call that has
returned what it met at each side (`FailedOver`). A preferred mode is one of the adapter's
(`PreferredKnown`); hence moving it to the front neither loses nor repeats one.

`PluginEngineProofs` proves, for any chain, events and requests and any guest
(`PluginAssumption`: an event is no request, and neither an empty nor a garbled buffer is a
value), `ItemKept` and `LeftoversTakenOnce`. The invariant says that a buffer holds only what a trap
left (`BuffersExplained`), and of the value on its way what `ItemKept` says of the one that
leaves (`ValueKept`).

`ConfigReloadProofs` proves, for any files and reloads (`ConfigAssumption`: ports, rates and
bursts are natural numbers), `SettingsExplained` and `RateBounded`. While reloads are under
way a setting may be of no file of the group, but then a reload is still before the
step that stores it (`GroupInv`); since each stores all three in the same order, none is left
when the last has ended. What the refill task has read is the parameter in force
unless it changed since (`RefillInv`).

`EventPipelineProofs` proves, for any adapters, whatever they send at whatever time, any bus
and any retention (`PipelineAssumption`), `OnceInOrder`, `MessagesAccounted`,
`PagingSkipsNothing` and `RetentionKept`. The invariant says:

- what is on the bus is in the filter or was forgotten by it (`BusInv`), so that of two equal
  events one was forgotten;
- the indices between the first and the next of the persistence task that are messages have
  gone one of four disjoint ways (`PersistInv`), and the insert under way is beyond
  what was inserted before, also when the task was aborted;
- a row is an inserted message (`RowsInv`), and every row a client still has to see has a rank
  at or beyond its offset (`PageInv`): a new row moves others only away from the front, and a
  cleanup leaves the ranks of what it keeps, because it never deletes a row that is newer than
  one it keeps. Both follow from the lemmas about `Rank`.

`RetentionCorrect` needs only the types and arithmetic of days and their parts.

Each inductive invariant holds under TLC within the bounds of its run, too.

Only model-checked are the liveness properties (`LossRepaired`, `EveryCallReturns`,
`RoutingConverges`, `ClosedIsCleaned`, `ReadIsAnswered`, `BucketRefills`,
`EventuallySettled`), which are beyond the prover, and the rest of `ReplyKeepsContent`: that
a text comes back from Satori's entities and tags as it was is an induction over a sequence,
which the installed provers cannot make. `conversions` checks them for every text of up to 3 pieces and every pair of segments.

## 7. Not modelled

- The handlers of `management.rs` that list accounts, statistics and the redacted configuration
  only read; those of adapters are requests of AdapterManager.
- `stats.rs` beyond the counters named above: the health and Prometheus documents are formats.
- `tuning.rs`: two environment values read once and clamped; the modules take the results as
  constants for all positive values.
- The filters and the count of a message query, SQLite, wasmtime, hyper and reqwest themselves.
- The sequence number of Satori events, which all clients share and the server never reads
  back; backoff durations; the signature of HTTP posts; names, roles, avatars, time and font of
  events.
- The wiring in `ferroq/src/main.rs` beyond the order of start, layers and shutdown; the
  dashboard's static files; the example plugin, which is a guest; logging, TLS and HTTP.
