--------------------------- MODULE LagrangeAdapter ---------------------------
(***************************************************************************)
(* The WebSocket adapter to a Lagrange.OneBot backend,                     *)
(* crates/ferroq-gateway/src/adapter/lagrange.rs.                          *)
(*                                                                         *)
(* One parking_lot mutex guards Inner; every action below is one critical  *)
(* section, or one step of a task between two of them.  A connection has a *)
(* reader and a writer task; each successful connect() spawns a monitor    *)
(* task that waits for the state to leave Connected and then dials again.  *)
(* JoinHandle::abort stops a task only at an await point: the phases a     *)
(* task passes through without awaiting ("exiting", "lost", "opened")      *)
(* survive it.                                                             *)
(*                                                                         *)
(* connect, disconnect and call_api take &self and run concurrently: the   *)
(* connectors are the tasks that call connect and disconnect: the start-up  *)
(* (or the addition) of the account, and management requests that each      *)
(* reconnect or remove it once.  The calls are the invocations of call_api. *)
(*                                                                         *)
(* Connection and monitor identities are recycled once nothing refers to   *)
(* them, so losses are not bounded; |Conns| bounds the connections and      *)
(* |Monitors| the monitor tasks alive at the same time, |Connectors| the    *)
(* management requests.                                                     *)
(***************************************************************************)
EXTENDS Naturals

CONSTANTS
  Conns,        \* identities of connections, with their reader and writer tasks
  Monitors,     \* identities of monitor tasks
  Connectors,   \* tasks that call connect and disconnect, once each
  Starter,      \* the connector that makes the first connect
  Calls,        \* invocations of call_api
  Cancellable,  \* the calls whose future may be dropped while it waits
  None          \* Option::None

ASSUME ConstantsAssumption ==
  /\ None \notin Conns \cup Monitors \cup Calls
  /\ Starter \in Connectors
  /\ Cancellable \subseteq Calls

VARIABLES
  \* Inner
  state,              \* AdapterState
  ws_writer_tx,       \* the connection whose writer channel is stored
  rw_handles,         \* the connection whose reader_handle and writer_handle are stored
  reconnect_handle,   \* the monitor whose handle is stored
  pending_calls,      \* the calls that have an entry; an entry's key is the call's echo
  \* connections and their tasks
  sock,               \* is the socket open or closed by the peer
  reader,             \* phase of the reader task
  writer,             \* phase of the writer task
  outbox,             \* requests in the writer channel (FIFO order abstracted)
  received,           \* requests received by the backend whose response the reader may still read
  \* monitor tasks
  monitor,            \* phase
  dialed,             \* the connection a monitor has opened and not yet stored
  aborted,            \* monitors whose abort awaits their next await point
  \* connectors
  registry,           \* is the adapter not yet, now, or no longer in the manager's map
  pc,                 \* phase of a connector
  opened,             \* the connection a connector has opened and not yet stored
  \* calls
  echo_counter,       \* the atomic counter
  call,               \* phase or result of a call
  echo,               \* the echo a call drew
  answer,             \* the request whose response resolved the call
  executions          \* how often the backend received the request

innerVars == <<state, ws_writer_tx, rw_handles, reconnect_handle>>
taskVars  == <<sock, reader, writer, outbox, received>>
monVars   == <<monitor, dialed, aborted>>
ctlVars   == <<registry, pc, opened>>
callVars  == <<call, echo, answer>>
vars == <<innerVars, pending_calls, taskVars, monVars, ctlVars, echo_counter,
          callVars, executions>>

\* Failed exists in the enum but no code sets it.
AdapterState == {"Disconnected", "Connecting", "Connected", "Reconnecting"}
Returned == {"ok", "not_connected", "send_failed", "no_writer", "dropped", "timed_out",
             "cancelled"}
CallPhase == {"new", "echoed", "waiting"} \cup Returned

TypeOK ==
  /\ state \in AdapterState
  /\ ws_writer_tx \in Conns \cup {None}
  /\ rw_handles \in Conns \cup {None}
  /\ reconnect_handle \in Monitors \cup {None}
  /\ pending_calls \in SUBSET Calls
  /\ sock \in [Conns -> {"open", "closed"}]
  /\ reader \in [Conns -> {"idle", "reading", "exiting"}]
  /\ writer \in [Conns -> {"idle", "running"}]
  /\ outbox \in [Conns -> SUBSET Calls]
  /\ received \in [Conns -> SUBSET Calls]
  /\ monitor \in [Monitors -> {"idle", "polling", "lost", "dialing", "opened"}]
  /\ dialed \in [Monitors -> Conns \cup {None}]
  /\ aborted \in SUBSET Monitors
  /\ registry \in {"new", "live", "gone"}
  /\ pc \in [Connectors -> {"idle", "reconnect", "remove", "connect", "establishing", "opened",
                           "done"}]
  /\ opened \in [Connectors -> Conns \cup {None}]
  /\ echo_counter \in Nat
  /\ call \in [Calls -> CallPhase]
  /\ echo \in [Calls -> Nat]
  /\ answer \in [Calls -> Calls \cup {None}]
  /\ executions \in [Calls -> Nat]

Init ==
  /\ state = "Disconnected"
  /\ ws_writer_tx = None
  /\ rw_handles = None
  /\ reconnect_handle = None
  /\ pending_calls = {}
  /\ sock = [c \in Conns |-> "closed"]
  /\ reader = [c \in Conns |-> "idle"]
  /\ writer = [c \in Conns |-> "idle"]
  /\ outbox = [c \in Conns |-> {}]
  /\ received = [c \in Conns |-> {}]
  /\ monitor = [m \in Monitors |-> "idle"]
  /\ dialed = [m \in Monitors |-> None]
  /\ aborted = {}
  /\ registry = "new"
  /\ pc = [k \in Connectors |-> IF k = Starter THEN "connect" ELSE "idle"]
  /\ opened = [k \in Connectors |-> None]
  /\ echo_counter = 1
  /\ call = [q \in Calls |-> "new"]
  /\ echo = [q \in Calls |-> 0]
  /\ answer = [q \in Calls |-> None]
  /\ executions = [q \in Calls |-> 0]

-----------------------------------------------------------------------------
(* Connections *)

\* A connection opened by a task that has not stored it yet: the task still
\* owns its writer channel.
Held(c) == (\E m \in Monitors : dialed[m] = c) \/ (\E k \in Connectors : opened[k] = c)

\* An identity nothing refers to any more.
Free(c) ==
  /\ reader[c] = "idle"
  /\ writer[c] = "idle"
  /\ c \notin {ws_writer_tx, rw_handles}
  /\ ~Held(c)

\* A connection is open and both its tasks are spawned.
SpawnTasks(c) ==
  /\ Free(c)
  /\ sock' = [sock EXCEPT ![c] = "open"]
  /\ reader' = [reader EXCEPT ![c] = "reading"]
  /\ writer' = [writer EXCEPT ![c] = "running"]
  /\ outbox' = [outbox EXCEPT ![c] = {}]
  /\ received' = [received EXCEPT ![c] = {}]

\* The critical section that stores a new connection.
Install(c) ==
  /\ ws_writer_tx' = c
  /\ rw_handles' = c
  /\ state' = "Connected"

\* The peer or the network closes an open connection.
BackendClose(c) ==
  /\ sock[c] = "open"
  /\ sock' = [sock EXCEPT ![c] = "closed"]
  /\ UNCHANGED <<innerVars, pending_calls, reader, writer, outbox, received, monVars, ctlVars,
                 echo_counter, callVars, executions>>

\* Mutant: the request stays queued when it is written.
WriterSend_Again(c, q) ==
  /\ writer[c] = "running"
  /\ q \in outbox[c]
  /\ sock[c] = "open"
  /\ executions' = [executions EXCEPT ![q] = @ + 1]
  /\ received' = [received EXCEPT ![c] = @ \cup {q}]
  /\ UNCHANGED <<innerVars, pending_calls, sock, reader, writer, outbox, monVars, ctlVars,
                 echo_counter, callVars>>

\* writer_loop writes a queued request; on a closed socket it may be lost
\* in the send buffer ...
WriterSend(c, q) ==
  /\ writer[c] = "running"
  /\ q \in outbox[c]
  /\ outbox' = [outbox EXCEPT ![c] = @ \ {q}]
  /\ executions' = IF sock[c] = "open" THEN [executions EXCEPT ![q] = @ + 1] ELSE executions
  /\ received' = IF sock[c] = "open" /\ reader[c] = "reading"
                   THEN [received EXCEPT ![c] = @ \cup {q}] ELSE received
  /\ UNCHANGED <<innerVars, pending_calls, sock, reader, writer, monVars, ctlVars, echo_counter,
                 callVars>>

\* ... or fail, which ends the task and closes its channel.
WriterFail(c) ==
  /\ writer[c] = "running"
  /\ sock[c] = "closed"
  /\ outbox[c] # {}
  /\ writer' = [writer EXCEPT ![c] = "idle"]
  /\ outbox' = [outbox EXCEPT ![c] = {}]
  /\ UNCHANGED <<innerVars, pending_calls, sock, reader, received, monVars, ctlVars, echo_counter,
                 callVars, executions>>

\* The writer ends when every sender of its channel is dropped.
WriterEnd(c) ==
  /\ writer[c] = "running"
  /\ outbox[c] = {}
  /\ ws_writer_tx # c
  /\ ~Held(c)
  /\ writer' = [writer EXCEPT ![c] = "idle"]
  /\ UNCHANGED <<innerVars, pending_calls, sock, reader, outbox, received, monVars, ctlVars,
                 echo_counter, callVars, executions>>

\* reader_loop leaves its loop on a close frame, the end of the stream or an error.
ReaderExit(c) ==
  /\ reader[c] = "reading"
  /\ sock[c] = "closed"
  /\ reader' = [reader EXCEPT ![c] = "exiting"]
  /\ received' = [received EXCEPT ![c] = {}]
  /\ UNCHANGED <<innerVars, pending_calls, sock, writer, outbox, monVars, ctlVars, echo_counter,
                 callVars, executions>>

\* After the loop the reader, whichever connection it served, marks the
\* adapter as lost.
ReaderMark(c) ==
  /\ reader[c] = "exiting"
  /\ reader' = [reader EXCEPT ![c] = "idle"]
  /\ state' = IF state = "Connected" THEN "Reconnecting" ELSE state
  /\ UNCHANGED <<ws_writer_tx, rw_handles, reconnect_handle, pending_calls, sock, writer, outbox,
                 received, monVars, ctlVars, echo_counter, callVars, executions>>

-----------------------------------------------------------------------------
(* The monitor task *)

FreeMonitor(m) == monitor[m] = "idle" /\ m # reconnect_handle

\* Mutant: the poll waits for Disconnected instead of leaving Connected.
MonitorNotice_Disconnected(m) ==
  /\ monitor[m] = "polling"
  /\ state = "Disconnected"
  /\ monitor' = [monitor EXCEPT ![m] = "lost"]
  /\ UNCHANGED <<innerVars, pending_calls, taskVars, dialed, aborted, ctlVars, echo_counter,
                 callVars, executions>>

\* The poll, once a second, finds the state no longer Connected.
MonitorNotice(m) ==
  /\ monitor[m] = "polling"
  /\ state # "Connected"
  /\ monitor' = [monitor EXCEPT ![m] = "lost"]
  /\ UNCHANGED <<innerVars, pending_calls, taskVars, dialed, aborted, ctlVars, echo_counter,
                 callVars, executions>>

\* Mutant: the writer is taken but the state is left as the reader set it.
MonitorMark_NoState(m) ==
  /\ monitor[m] = "lost"
  /\ ws_writer_tx' = None
  /\ monitor' = [monitor EXCEPT ![m] = IF m \in aborted THEN "idle" ELSE "dialing"]
  /\ aborted' = aborted \ {m}
  /\ UNCHANGED <<state, rw_handles, reconnect_handle, pending_calls, taskVars, dialed, ctlVars,
                 echo_counter, callVars, executions>>

\* It then marks the adapter Reconnecting whatever the state is by now, and
\* reaches its first await, the backoff sleep.
MonitorMark(m) ==
  /\ monitor[m] = "lost"
  /\ state' = "Reconnecting"
  /\ ws_writer_tx' = None
  /\ monitor' = [monitor EXCEPT ![m] = IF m \in aborted THEN "idle" ELSE "dialing"]
  /\ aborted' = aborted \ {m}
  /\ UNCHANGED <<rw_handles, reconnect_handle, pending_calls, taskVars, dialed, ctlVars,
                 echo_counter, callVars, executions>>

\* A dial succeeds.  A failed dial only repeats the backoff.
MonitorDial(m, c) ==
  /\ monitor[m] = "dialing"
  /\ SpawnTasks(c)
  /\ monitor' = [monitor EXCEPT ![m] = "opened"]
  /\ dialed' = [dialed EXCEPT ![m] = c]
  /\ UNCHANGED <<innerVars, pending_calls, aborted, ctlVars, echo_counter, callVars, executions>>

\* The new connection is stored and the task ends: nothing watches the new
\* connection.
MonitorInstall(m) ==
  /\ monitor[m] = "opened"
  /\ Install(dialed[m])
  /\ monitor' = [monitor EXCEPT ![m] = "idle"]
  /\ dialed' = [dialed EXCEPT ![m] = None]
  /\ aborted' = aborted \ {m}
  /\ UNCHANGED <<reconnect_handle, pending_calls, taskVars, ctlVars, echo_counter, callVars,
                 executions>>

-----------------------------------------------------------------------------
(* connect and disconnect *)

\* A management task fetches the adapter to reconnect it, or takes it out of
\* the manager's map to remove it.
BeginReconnect(k) ==
  /\ registry = "live"
  /\ pc[k] = "idle"
  /\ pc' = [pc EXCEPT ![k] = "reconnect"]
  /\ UNCHANGED <<innerVars, pending_calls, taskVars, monVars, registry, opened, echo_counter,
                 callVars, executions>>

BeginRemove(k) ==
  /\ registry = "live"
  /\ pc[k] = "idle"
  /\ pc' = [pc EXCEPT ![k] = "remove"]
  /\ registry' = "gone"
  /\ UNCHANGED <<innerVars, pending_calls, taskVars, monVars, opened, echo_counter, callVars,
                 executions>>

BeginConnect(k) ==
  /\ pc[k] = "connect"
  /\ state' = "Connecting"
  /\ pc' = [pc EXCEPT ![k] = "establishing"]
  /\ UNCHANGED <<ws_writer_tx, rw_handles, reconnect_handle, pending_calls, taskVars, monVars,
                 registry, opened, echo_counter, callVars, executions>>

\* The first connect makes the adapter known to the manager, failed or not.
ConnectReturns(k) ==
  /\ pc' = [pc EXCEPT ![k] = "done"]
  /\ registry' = IF registry = "new" THEN "live" ELSE registry

\* Mutant: a failed connect marks the adapter Failed.
ConnectFail_Failed(k) ==
  /\ pc[k] = "establishing"
  /\ state' = "Failed"
  /\ ConnectReturns(k)
  /\ UNCHANGED <<ws_writer_tx, rw_handles, reconnect_handle, pending_calls, taskVars, monVars,
                 opened, echo_counter, callVars, executions>>

\* establish_ws fails or times out: `?` returns with the state still Connecting.
ConnectFail(k) ==
  /\ pc[k] = "establishing"
  /\ ConnectReturns(k)
  /\ UNCHANGED <<innerVars, pending_calls, taskVars, monVars, opened, echo_counter, callVars,
                 executions>>

\* establish_ws succeeds; spawn_ws_tasks spawns both loops before it locks.
ConnectOpen(k, c) ==
  /\ pc[k] = "establishing"
  /\ SpawnTasks(c)
  /\ pc' = [pc EXCEPT ![k] = "opened"]
  /\ opened' = [opened EXCEPT ![k] = c]
  /\ UNCHANGED <<innerVars, pending_calls, monVars, registry, echo_counter, callVars, executions>>

\* The critical section of spawn_ws_tasks: handles stored earlier are
\* overwritten, not aborted.
ConnectInstall(k, m) ==
  /\ pc[k] = "opened"
  /\ FreeMonitor(m)
  /\ Install(opened[k])
  /\ reconnect_handle' = m
  /\ monitor' = [monitor EXCEPT ![m] = "polling"]
  /\ opened' = [opened EXCEPT ![k] = None]
  /\ ConnectReturns(k)
  /\ UNCHANGED <<pending_calls, taskVars, dialed, aborted, echo_counter, callVars, executions>>

\* Mutant: the map is cleared into a copy that keeps the channels alive.
Drop_None(Q) == call

\* Dropping the response channels of a set of entries wakes their callers.
Drop(Q) == [q \in Calls |-> IF q \in Q /\ call[q] = "waiting" THEN "dropped" ELSE call[q]]

\* A task waiting at an await point; the others run to their next one.
AwaitingMonitor(m) == monitor[m] \in {"polling", "dialing"}

\* Aborting both tasks drops both halves of the socket.
AbortIo ==
  /\ reader' = [c \in Conns |->
       IF c = rw_handles /\ reader[c] = "reading" THEN "idle" ELSE reader[c]]
  /\ writer' = [c \in Conns |-> IF c = rw_handles THEN "idle" ELSE writer[c]]
  /\ outbox' = [c \in Conns |-> IF c = rw_handles THEN {} ELSE outbox[c]]
  /\ received' = [c \in Conns |-> IF c = rw_handles THEN {} ELSE received[c]]
  /\ sock' = [c \in Conns |-> IF c = rw_handles THEN "closed" ELSE sock[c]]

AbortMonitor ==
  /\ monitor' = [m \in Monitors |->
       IF m = reconnect_handle /\ AwaitingMonitor(m) THEN "idle" ELSE monitor[m]]
  /\ aborted' = aborted \cup {m \in Monitors :
       m = reconnect_handle /\ monitor[m] \in {"lost", "opened"}}

\* disconnect is a single critical section.
Disconnect(k) ==
  /\ pc[k] \in {"reconnect", "remove"}
  /\ ws_writer_tx' = None
  /\ rw_handles' = None
  /\ reconnect_handle' = None
  /\ AbortIo
  /\ AbortMonitor
  /\ state' = "Disconnected"
  /\ pending_calls' = {}
  /\ call' = Drop(pending_calls)
  /\ pc' = [pc EXCEPT ![k] = IF pc[k] = "reconnect" THEN "connect" ELSE "done"]
  /\ UNCHANGED <<dialed, registry, opened, echo_counter, echo, answer, executions>>

-----------------------------------------------------------------------------
(* call_api *)

\* Mutant: no entry is removed.
Keyed_None(e) == {}

\* The entries under a key; echoes are unique, so there is at most one.
Keyed(e) == {q \in pending_calls : echo[q] = e}

\* Mutant: the counter is read, not incremented.
NextEcho_Repeated(q) ==
  /\ call[q] = "new"
  /\ registry # "new"
  /\ echo' = [echo EXCEPT ![q] = echo_counter]
  /\ call' = [call EXCEPT ![q] = "echoed"]
  /\ UNCHANGED <<innerVars, pending_calls, taskVars, monVars, ctlVars, echo_counter, answer,
                 executions>>

NextEcho(q) ==
  /\ call[q] = "new"
  /\ registry # "new"
  /\ echo' = [echo EXCEPT ![q] = echo_counter]
  /\ echo_counter' = echo_counter + 1
  /\ call' = [call EXCEPT ![q] = "echoed"]
  /\ UNCHANGED <<innerVars, pending_calls, taskVars, monVars, ctlVars, answer, executions>>

\* The critical section: registered, then queued for the writer.  When the
\* writer has ended the send fails and `?` leaves the entry behind.
SendRequest(q) ==
  /\ call[q] = "echoed"
  /\ IF state # "Connected"
       THEN /\ call' = [call EXCEPT ![q] = "not_connected"]
            /\ UNCHANGED <<pending_calls, outbox>>
       ELSE IF ws_writer_tx = None
       THEN /\ call' = [Drop(Keyed(echo[q])) EXCEPT ![q] = "no_writer"]
            /\ pending_calls' = pending_calls \ Keyed(echo[q])
            /\ UNCHANGED outbox
       ELSE LET sent == writer[ws_writer_tx] = "running" IN
            /\ call' = [Drop(Keyed(echo[q])) EXCEPT ![q] =
                          IF sent THEN "waiting" ELSE "send_failed"]
            /\ pending_calls' = (pending_calls \ Keyed(echo[q])) \cup {q}
            /\ outbox' = IF sent THEN [outbox EXCEPT ![ws_writer_tx] = @ \cup {q}] ELSE outbox
  /\ UNCHANGED <<innerVars, sock, reader, writer, received, monVars, ctlVars, echo_counter, echo,
                 answer, executions>>

\* The reader of connection c reads the response to request r: it resolves
\* the entry under r's echo.  The backend may answer twice, or too late.
HandleApiResponse(c, r) ==
  /\ reader[c] = "reading"
  /\ r \in received[c]
  /\ pending_calls' = pending_calls \ Keyed(echo[r])
  /\ LET woken == {q \in Keyed(echo[r]) : call[q] = "waiting"} IN
     /\ call' = [q \in Calls |-> IF q \in woken THEN "ok" ELSE call[q]]
     /\ answer' = [q \in Calls |-> IF q \in woken THEN r ELSE answer[q]]
  /\ UNCHANGED <<innerVars, taskVars, monVars, ctlVars, echo_counter, echo, executions>>

\* Mutant: the timeout only runs while the connection is up.
CallTimeout_Connected(q) ==
  /\ call[q] = "waiting"
  /\ state = "Connected"
  /\ call' = [call EXCEPT ![q] = "timed_out"]
  /\ pending_calls' = pending_calls \ Keyed(echo[q])
  /\ UNCHANGED <<innerVars, taskVars, monVars, ctlVars, echo_counter, echo, answer, executions>>

\* api_timeout elapses.
CallTimeout(q) ==
  /\ call[q] = "waiting"
  /\ call' = [call EXCEPT ![q] = "timed_out"]
  /\ pending_calls' = pending_calls \ Keyed(echo[q])
  /\ UNCHANGED <<innerVars, taskVars, monVars, ctlVars, echo_counter, echo, answer, executions>>

\* The caller's future is dropped, as an HTTP handler's is when its client
\* goes away: nothing removes the entry.
CallCancel(q) ==
  /\ q \in Cancellable
  /\ call[q] = "waiting"
  /\ call' = [call EXCEPT ![q] = "cancelled"]
  /\ UNCHANGED <<innerVars, pending_calls, taskVars, monVars, ctlVars, echo_counter, echo, answer,
                 executions>>

-----------------------------------------------------------------------------

ConnNext(c) ==
  \/ BackendClose(c) \/ WriterFail(c) \/ WriterEnd(c) \/ ReaderExit(c) \/ ReaderMark(c)
  \/ \E q \in Calls : WriterSend(c, q) \/ HandleApiResponse(c, q)

MonitorNext(m) ==
  \/ MonitorNotice(m) \/ MonitorMark(m) \/ MonitorInstall(m)
  \/ \E c \in Conns : MonitorDial(m, c)

ConnectorNext(k) ==
  \/ BeginReconnect(k) \/ BeginRemove(k) \/ BeginConnect(k) \/ ConnectFail(k) \/ Disconnect(k)
  \/ \E c \in Conns : ConnectOpen(k, c)
  \/ \E m \in Monitors : ConnectInstall(k, m)

CallNext(q) == NextEcho(q) \/ SendRequest(q) \/ CallTimeout(q) \/ CallCancel(q)

Next ==
  \/ \E c \in Conns : ConnNext(c)
  \/ \E m \in Monitors : MonitorNext(m)
  \/ \E k \in Connectors : ConnectorNext(k)
  \/ \E q \in Calls : CallNext(q)

Spec == Init /\ [][Next]_vars

-----------------------------------------------------------------------------
(* What is assumed of the scheduler and of the peer: a spawned task runs,   *)
(* a closed socket is reported to its reader, timers fire, connect_async    *)
(* ends within connect_timeout, and a backend that is dialed over and over  *)
(* accepts in the end.  Nothing is assumed of callers, of administrators,   *)
(* of requests being written, or of the backend answering.                  *)
Fairness ==
  /\ \A c \in Conns :
       WF_vars(ReaderExit(c)) /\ WF_vars(ReaderMark(c)) /\ WF_vars(WriterEnd(c))
  /\ \A m \in Monitors :
       /\ WF_vars(MonitorNotice(m)) /\ WF_vars(MonitorMark(m)) /\ WF_vars(MonitorInstall(m))
       /\ WF_vars(\E c \in Conns : MonitorDial(m, c))
  /\ \A k \in Connectors :
       /\ WF_vars(BeginConnect(k)) /\ WF_vars(Disconnect(k))
       /\ WF_vars(ConnectFail(k) \/ \E c \in Conns : ConnectOpen(k, c))
       /\ WF_vars(\E m \in Monitors : ConnectInstall(k, m))
  /\ \A q \in Calls : WF_vars(SendRequest(q)) /\ WF_vars(CallTimeout(q))

FairSpec == Spec /\ Fairness

-----------------------------------------------------------------------------
(* Safety *)

\* A call is only ever resolved by the response to its own request, however
\* late or often the backend answers and whatever connection the answer comes
\* in on: the echo counter outlives connections (next_echo, handle_api_response).
AnswersMatch == \A q \in Calls : answer[q] \in {None, q}

\* Whenever the state says Connected a writer channel is stored, through
\* concurrent connects, losses and aborts: the "no ws writer available"
\* branch of call_api cannot be taken.
ConnectedHasWriter ==
  /\ state = "Connected" => ws_writer_tx # None
  /\ \A q \in Calls : call[q] # "no_writer"

\* While the adapter is Disconnected nobody waits for an answer and nothing
\* of an earlier connection is left in Inner: disconnect wakes every caller,
\* and call_api registers none until the state is Connected again.
DisconnectedIsClean ==
  state = "Disconnected" =>
    /\ \A q \in Calls : call[q] # "waiting"
    /\ pending_calls = {}
    /\ {ws_writer_tx, rw_handles, reconnect_handle} = {None}

\* A waiting caller's entry is in the map, so that an answer or disconnect
\* can wake it: no other call's answer, timeout or registration removes it.
WaitingIsRegistered == \A q \in Calls : call[q] = "waiting" => q \in pending_calls

\* An entry whose caller no longer waits was left by a failed send or by a
\* dropped future; answers, timeouts and disconnect leave none.
StaleEntriesExplained ==
  \A q \in pending_calls : call[q] \in {"waiting", "send_failed", "cancelled"}

\* The map of pending calls is exact.
EntriesExplained == WaitingIsRegistered /\ StaleEntriesExplained

-----------------------------------------------------------------------------
(* The contract of call_api *)

CallOutcome(p) ==
  CASE p = "new" -> "new"
    [] p \in {"echoed", "waiting"} -> "active"
    [] p = "ok" -> "ok"
    [] OTHER -> "failed"

Contract == INSTANCE ApiCall WITH
  outcome <- [q \in Calls |-> CallOutcome(call[q])],
  executions <- executions

\* The adapter implements the contract: at most one execution of a request,
\* an Ok only after it, one return per call.
ImplementsApiCall == Contract!Safety

\* Every call returns, even when the connection is lost under it: only the
\* timeout saves a caller whose connection went away.
EveryCallReturns == Contract!Termination

(* Liveness *)

MonitorAlive == \E m \in Monitors \ aborted : monitor[m] # "idle"

\* A loss is repaired, or the adapter disconnected, as long as a monitor task
\* is left that nobody aborted: the reader's mark, the monitor's poll and its dials cooperate.
LossRepaired == (state = "Reconnecting" /\ MonitorAlive) ~> (state # "Reconnecting")

-----------------------------------------------------------------------------
(* What comments and documents say and the code does not do *)

\* "Reconnection is handled internally": an account's adapter that lost its
\* connection is Connected again, disconnected on request, or removed.
EveryLossRepaired ==
  (state = "Reconnecting" /\ registry = "live") ~> (state # "Reconnecting" \/ registry = "gone")

=============================================================================
