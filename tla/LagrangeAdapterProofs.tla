------------------------ MODULE LagrangeAdapterProofs ------------------------
(* Theorems about LagrangeAdapter for every set of connections, monitors,   *)
(* connectors and calls.                                                    *)
EXTENDS LagrangeAdapter, TLAPS

-----------------------------------------------------------------------------
(* The inductive invariant *)

\* A task that has passed its successful dial holds a connection.
HoldsConnection ==
  /\ \A m \in Monitors : monitor[m] = "opened" => dialed[m] \in Conns
  /\ \A k \in Connectors : pc[k] = "opened" => opened[k] \in Conns

\* Echoes are drawn below the counter and never twice.
Started(q) == call[q] # "new"
EchoesUnique ==
  /\ \A q \in Calls : Started(q) => echo[q] < echo_counter
  /\ \A p, q \in Calls : Started(p) /\ Started(q) /\ p # q => echo[p] # echo[q]

\* A request is in a writer channel, or at the backend, only after its call
\* has been registered.
Registered(q) == call[q] \notin {"new", "echoed"}
RequestsRegistered ==
  /\ \A c \in Conns : \A q \in outbox[c] \cup received[c] : Registered(q)
  /\ \A q \in pending_calls : Registered(q)

\* A request is executed at most once: it is in at most one writer channel,
\* and in none once executed.
ExecutedOnce ==
  /\ \A q \in Calls : executions[q] \in {0, 1}
  /\ \A q \in Calls : ~Registered(q) => executions[q] = 0
  /\ \A c \in Conns : \A q \in outbox[c] : executions[q] = 0
  /\ \A c, d \in Conns : c # d => outbox[c] \cap outbox[d] = {}
  /\ \A c \in Conns : \A q \in received[c] : executions[q] = 1

CallInv ==
  /\ EchoesUnique
  /\ RequestsRegistered
  /\ ExecutedOnce
  /\ AnswersMatch
  /\ WaitingIsRegistered
  /\ StaleEntriesExplained

ControlInv ==
  /\ HoldsConnection
  /\ ConnectedHasWriter
  /\ DisconnectedIsClean

IInv == TypeOK /\ ControlInv /\ CallInv

-----------------------------------------------------------------------------
(* Initial states *)

LEMMA InitInv == Init => IInv
BY ConstantsAssumption
DEF Init, IInv, TypeOK, CallPhase, Returned, AdapterState, ControlInv, HoldsConnection,
    ConnectedHasWriter, DisconnectedIsClean, CallInv, EchoesUnique, Started, RequestsRegistered,
    Registered, ExecutedOnce, AnswersMatch, WaitingIsRegistered, StaleEntriesExplained

-----------------------------------------------------------------------------
(* Every step preserves the types *)

LEMMA TypeOKConn ==
  ASSUME TypeOK, NEW c \in Conns, ConnNext(c)
  PROVE  TypeOK'
<1> USE DEF TypeOK, CallPhase, Returned, AdapterState,
            innerVars, taskVars, monVars, ctlVars, callVars
<1>1. CASE BackendClose(c)
  BY <1>1, ConstantsAssumption DEF BackendClose
<1>2. CASE WriterFail(c)
  BY <1>2, ConstantsAssumption DEF WriterFail
<1>3. CASE WriterEnd(c)
  BY <1>3, ConstantsAssumption DEF WriterEnd
<1>4. CASE ReaderExit(c)
  BY <1>4, ConstantsAssumption DEF ReaderExit
<1>5. CASE ReaderMark(c)
  BY <1>5, ConstantsAssumption DEF ReaderMark
<1>6. ASSUME NEW q \in Calls, WriterSend(c, q)
      PROVE  TypeOK'
  BY <1>6, ConstantsAssumption DEF WriterSend
<1>7. ASSUME NEW q \in Calls, HandleApiResponse(c, q)
      PROVE  TypeOK'
  BY <1>7, ConstantsAssumption DEF HandleApiResponse, Keyed
<1> QED
  BY <1>1, <1>2, <1>3, <1>4, <1>5, <1>6, <1>7 DEF ConnNext

LEMMA TypeOKMonitor ==
  ASSUME TypeOK, NEW m \in Monitors, MonitorNext(m)
  PROVE  TypeOK'
<1> USE DEF TypeOK, CallPhase, Returned, AdapterState,
            innerVars, taskVars, monVars, ctlVars, callVars
<1>1. CASE MonitorNotice(m)
  BY <1>1, ConstantsAssumption DEF MonitorNotice
<1>2. CASE MonitorMark(m)
  BY <1>2, ConstantsAssumption DEF MonitorMark
<1>3. CASE MonitorInstall(m)
  BY <1>3, ConstantsAssumption DEF MonitorInstall, Install
<1>4. ASSUME NEW c \in Conns, MonitorDial(m, c)
      PROVE  TypeOK'
  BY <1>4, ConstantsAssumption DEF MonitorDial, SpawnTasks
<1> QED
  BY <1>1, <1>2, <1>3, <1>4 DEF MonitorNext

LEMMA TypeOKConnector ==
  ASSUME TypeOK, NEW k \in Connectors, ConnectorNext(k)
  PROVE  TypeOK'
<1> USE DEF TypeOK, CallPhase, Returned, AdapterState,
            innerVars, taskVars, monVars, ctlVars, callVars
<1>1. CASE BeginReconnect(k)
  BY <1>1, ConstantsAssumption DEF BeginReconnect
<1>2. CASE BeginRemove(k)
  BY <1>2, ConstantsAssumption DEF BeginRemove
<1>3. CASE BeginConnect(k)
  BY <1>3, ConstantsAssumption DEF BeginConnect
<1>4. CASE ConnectFail(k)
  BY <1>4, ConstantsAssumption DEF ConnectFail, ConnectReturns
<1>5. CASE Disconnect(k)
  BY <1>5, ConstantsAssumption DEF Disconnect, AbortIo, AbortMonitor, Drop
<1>6. ASSUME NEW c \in Conns, ConnectOpen(k, c)
      PROVE  TypeOK'
  BY <1>6, ConstantsAssumption DEF ConnectOpen, SpawnTasks
<1>7. ASSUME NEW m \in Monitors, ConnectInstall(k, m)
      PROVE  TypeOK'
  BY <1>7, ConstantsAssumption DEF ConnectInstall, Install, ConnectReturns
<1> QED
  BY <1>1, <1>2, <1>3, <1>4, <1>5, <1>6, <1>7 DEF ConnectorNext

LEMMA TypeOKCall ==
  ASSUME TypeOK, NEW q \in Calls, CallNext(q)
  PROVE  TypeOK'
<1> USE DEF TypeOK, CallPhase, Returned, AdapterState,
            innerVars, taskVars, monVars, ctlVars, callVars
<1>1. CASE NextEcho(q)
  BY <1>1, ConstantsAssumption DEF NextEcho
<1>2. CASE SendRequest(q)
  <2>1. Keyed(echo[q]) \in SUBSET Calls
    BY <1>2 DEF Keyed
  <2>2. Drop(Keyed(echo[q])) \in [Calls -> CallPhase]
    BY <2>1 DEF Drop
  <2>3. CASE state # "Connected"
    BY <1>2, <2>3, ConstantsAssumption DEF SendRequest
  <2>4. CASE state = "Connected" /\ ws_writer_tx = None
    BY <1>2, <2>1, <2>2, <2>4, ConstantsAssumption DEF SendRequest
  <2>5. CASE state = "Connected" /\ ws_writer_tx # None /\ writer[ws_writer_tx] = "running"
    BY <1>2, <2>1, <2>2, <2>5, ConstantsAssumption DEF SendRequest
  <2>6. CASE state = "Connected" /\ ws_writer_tx # None /\ writer[ws_writer_tx] # "running"
    BY <1>2, <2>1, <2>2, <2>6, ConstantsAssumption DEF SendRequest
  <2> QED
    BY <2>3, <2>4, <2>5, <2>6
<1>3. CASE CallTimeout(q)
  BY <1>3, ConstantsAssumption DEF CallTimeout, Keyed
<1>4. CASE CallCancel(q)
  BY <1>4, ConstantsAssumption DEF CallCancel
<1> QED
  BY <1>1, <1>2, <1>3, <1>4 DEF CallNext

\* Under the invariant call_api's critical section has three outcomes: no
\* entry is ever displaced, and the branch without a writer is dead.
Rejected(q) ==
  /\ state # "Connected"
  /\ call' = [call EXCEPT ![q] = "not_connected"]
  /\ UNCHANGED <<pending_calls, outbox>>
Queued(q) ==
  /\ state = "Connected"
  /\ ws_writer_tx \in Conns
  /\ call' = [call EXCEPT ![q] = "waiting"]
  /\ pending_calls' = pending_calls \cup {q}
  /\ outbox' = [outbox EXCEPT ![ws_writer_tx] = @ \cup {q}]
SendFailed(q) ==
  /\ state = "Connected"
  /\ ws_writer_tx \in Conns
  /\ call' = [call EXCEPT ![q] = "send_failed"]
  /\ pending_calls' = pending_calls \cup {q}
  /\ UNCHANGED outbox

LEMMA SendRequestCases ==
  ASSUME IInv, NEW q \in Calls, SendRequest(q)
  PROVE  /\ call[q] = "echoed"
         /\ Rejected(q) \/ Queued(q) \/ SendFailed(q)
         /\ UNCHANGED <<innerVars, sock, reader, writer, received, monVars, ctlVars, echo_counter,
                        echo, answer, executions>>
<1>1. call[q] = "echoed" /\ TypeOK
  BY DEF SendRequest, IInv
<1>2. Keyed(echo[q]) = {}
  BY <1>1 DEF IInv, CallInv, EchoesUnique, Started, RequestsRegistered, Registered, Keyed, TypeOK
<1>3. Drop(Keyed(echo[q])) = call
  BY <1>1, <1>2 DEF Drop, TypeOK
<1>4. CASE state # "Connected"
  BY <1>1, <1>4 DEF SendRequest, Rejected
<1>5. CASE state = "Connected"
  <2>1. ws_writer_tx \in Conns /\ ws_writer_tx # None
    BY <1>1, <1>5, ConstantsAssumption DEF IInv, ControlInv, ConnectedHasWriter, TypeOK
  <2>2. CASE writer[ws_writer_tx] = "running"
    BY <1>1, <1>2, <1>3, <1>5, <2>1, <2>2 DEF SendRequest, Queued
  <2>3. CASE writer[ws_writer_tx] # "running"
    BY <1>1, <1>2, <1>3, <1>5, <2>1, <2>3 DEF SendRequest, SendFailed
  <2> QED
    BY <2>2, <2>3
<1> QED
  BY <1>1, <1>4, <1>5 DEF SendRequest

-----------------------------------------------------------------------------
(* Every step preserves the control part *)

LEMMA ControlInvConn ==
  ASSUME IInv, NEW c \in Conns, ConnNext(c)
  PROVE  ControlInv'
<1> USE DEF TypeOK, CallPhase, Returned, AdapterState,
            innerVars, taskVars, monVars, ctlVars, callVars,
            IInv, ControlInv, HoldsConnection, ConnectedHasWriter, DisconnectedIsClean, CallInv,
            WaitingIsRegistered
<1>1. CASE BackendClose(c)
  BY <1>1, ConstantsAssumption DEF BackendClose
<1>2. CASE WriterFail(c)
  BY <1>2, ConstantsAssumption DEF WriterFail
<1>3. CASE WriterEnd(c)
  BY <1>3, ConstantsAssumption DEF WriterEnd
<1>4. CASE ReaderExit(c)
  BY <1>4, ConstantsAssumption DEF ReaderExit
<1>5. CASE ReaderMark(c)
  BY <1>5, ConstantsAssumption DEF ReaderMark
<1>6. ASSUME NEW q \in Calls, WriterSend(c, q)
      PROVE  ControlInv'
  BY <1>6, ConstantsAssumption DEF WriterSend
<1>7. ASSUME NEW q \in Calls, HandleApiResponse(c, q)
      PROVE  ControlInv'
  BY <1>7, ConstantsAssumption DEF HandleApiResponse, Keyed
<1> QED
  BY <1>1, <1>2, <1>3, <1>4, <1>5, <1>6, <1>7 DEF ConnNext

LEMMA ControlInvMonitor ==
  ASSUME IInv, NEW m \in Monitors, MonitorNext(m)
  PROVE  ControlInv'
<1> USE DEF TypeOK, CallPhase, Returned, AdapterState,
            innerVars, taskVars, monVars, ctlVars, callVars,
            IInv, ControlInv, HoldsConnection, ConnectedHasWriter, DisconnectedIsClean, CallInv,
            WaitingIsRegistered
<1>1. CASE MonitorNotice(m)
  BY <1>1, ConstantsAssumption DEF MonitorNotice
<1>2. CASE MonitorMark(m)
  BY <1>2, ConstantsAssumption DEF MonitorMark
<1>3. CASE MonitorInstall(m)
  BY <1>3, ConstantsAssumption DEF MonitorInstall, Install
<1>4. ASSUME NEW c \in Conns, MonitorDial(m, c)
      PROVE  ControlInv'
  BY <1>4, ConstantsAssumption DEF MonitorDial, SpawnTasks
<1> QED
  BY <1>1, <1>2, <1>3, <1>4 DEF MonitorNext

LEMMA ControlInvConnector ==
  ASSUME IInv, NEW k \in Connectors, ConnectorNext(k)
  PROVE  ControlInv'
<1> USE DEF TypeOK, CallPhase, Returned, AdapterState,
            innerVars, taskVars, monVars, ctlVars, callVars,
            IInv, ControlInv, HoldsConnection, ConnectedHasWriter, DisconnectedIsClean, CallInv,
            WaitingIsRegistered
<1>1. CASE BeginReconnect(k)
  BY <1>1, ConstantsAssumption DEF BeginReconnect
<1>2. CASE BeginRemove(k)
  BY <1>2, ConstantsAssumption DEF BeginRemove
<1>3. CASE BeginConnect(k)
  BY <1>3, ConstantsAssumption DEF BeginConnect
<1>4. CASE ConnectFail(k)
  BY <1>4, ConstantsAssumption DEF ConnectFail, ConnectReturns
<1>5. CASE Disconnect(k)
  BY <1>5, ConstantsAssumption DEF Disconnect, AbortIo, AbortMonitor, Drop
<1>6. ASSUME NEW c \in Conns, ConnectOpen(k, c)
      PROVE  ControlInv'
  BY <1>6, ConstantsAssumption DEF ConnectOpen, SpawnTasks
<1>7. ASSUME NEW m \in Monitors, ConnectInstall(k, m)
      PROVE  ControlInv'
  BY <1>7, ConstantsAssumption DEF ConnectInstall, Install, ConnectReturns
<1> QED
  BY <1>1, <1>2, <1>3, <1>4, <1>5, <1>6, <1>7 DEF ConnectorNext

LEMMA ControlInvCall ==
  ASSUME IInv, NEW q \in Calls, CallNext(q)
  PROVE  ControlInv'
<1> USE DEF TypeOK, CallPhase, Returned, AdapterState,
            innerVars, taskVars, monVars, ctlVars, callVars,
            IInv, ControlInv, HoldsConnection, ConnectedHasWriter, DisconnectedIsClean, CallInv,
            WaitingIsRegistered
<1>1. CASE NextEcho(q)
  BY <1>1, ConstantsAssumption DEF NextEcho
<1>2. CASE SendRequest(q)
  <2>1. CASE Rejected(q)
    <3>1. /\ UNCHANGED <<innerVars, monVars, ctlVars, pending_calls>>
          /\ call' = [call EXCEPT ![q] = "not_connected"] /\ call \in [Calls -> CallPhase]
      BY <1>2, <2>1, SendRequestCases DEF Rejected
    <3>2. \A r \in Calls : call'[r] \in {call[r], "not_connected"}
      BY <3>1
    <3> QED BY <3>1, <3>2
  <2>2. CASE Queued(q)
    BY <1>2, <2>2, SendRequestCases DEF Queued
  <2>3. CASE SendFailed(q)
    BY <1>2, <2>3, SendRequestCases DEF SendFailed
  <2> QED
    BY <1>2, <2>1, <2>2, <2>3, SendRequestCases
<1>3. CASE CallTimeout(q)
  BY <1>3, ConstantsAssumption DEF CallTimeout, Keyed
<1>4. CASE CallCancel(q)
  BY <1>4, ConstantsAssumption DEF CallCancel
<1> QED
  BY <1>1, <1>2, <1>3, <1>4 DEF CallNext

\* Queueing a request: it was nowhere, and is now in one channel and the map.
LEMMA QueuedCallInv ==
  ASSUME IInv, NEW q \in Calls, call[q] = "echoed", Queued(q),
         UNCHANGED <<received, echo_counter, echo, answer, executions>>
  PROVE  CallInv'
<1>1. /\ outbox \in [Conns -> SUBSET Calls] /\ received \in [Conns -> SUBSET Calls]
      /\ call \in [Calls -> CallPhase] /\ pending_calls \in SUBSET Calls
      /\ RequestsRegistered /\ ExecutedOnce /\ ~Registered(q) /\ Started(q)
  BY DEF IInv, TypeOK, CallInv, Registered, Started
<1>2. \A c \in Conns : outbox'[c] = outbox[c] \/ (c = ws_writer_tx /\ outbox'[c] = outbox[c] \cup {q})
  BY <1>1 DEF Queued
<1>3. call' = [call EXCEPT ![q] = "waiting"] /\ pending_calls' = pending_calls \cup {q}
  BY DEF Queued
<1>4. \A p \in Calls : Registered(p)' <=> (Registered(p) \/ p = q)
  BY <1>1, <1>3 DEF Registered
<1>5. EchoesUnique' /\ AnswersMatch'
  BY <1>1, <1>3 DEF EchoesUnique, Started, AnswersMatch, IInv, CallInv
<1>6. RequestsRegistered'
  <2>1. \A c \in Conns : \A p \in outbox'[c] \cup received'[c] : p = q \/ Registered(p)
    BY <1>1, <1>2 DEF RequestsRegistered
  <2>2. \A c \in Conns : outbox'[c] \cup received'[c] \subseteq Calls
    BY <1>1, <1>2
  <2>3. \A p \in pending_calls' : p \in Calls /\ (p = q \/ Registered(p))
    BY <1>1, <1>3 DEF RequestsRegistered
  <2> QED
    BY <1>4, <2>1, <2>2, <2>3 DEF RequestsRegistered
<1>7. ExecutedOnce'
  <2>1. executions[q] = 0 /\ \A c \in Conns : q \notin outbox[c]
    BY <1>1 DEF ExecutedOnce, RequestsRegistered
  <2>2. \A c, d \in Conns : c # d => outbox'[c] \cap outbox'[d] = {}
    BY <1>1, <1>2, <2>1 DEF ExecutedOnce
  <2>3. \A c \in Conns : \A p \in outbox'[c] : executions[p] = 0
    BY <1>1, <1>2, <2>1 DEF ExecutedOnce
  <2>4. \A p \in Calls : ~Registered(p)' => executions[p] = 0
    BY <1>1, <1>4 DEF ExecutedOnce
  <2>5. /\ \A p \in Calls : executions[p] \in {0, 1}
        /\ \A c \in Conns : \A p \in received[c] : executions[p] = 1
    BY <1>1 DEF ExecutedOnce
  <2> QED
    BY <2>2, <2>3, <2>4, <2>5 DEF ExecutedOnce
<1>8. WaitingIsRegistered' /\ StaleEntriesExplained'
  BY <1>1, <1>3 DEF WaitingIsRegistered, StaleEntriesExplained, IInv, CallInv
<1> QED
  BY <1>5, <1>6, <1>7, <1>8 DEF CallInv

-----------------------------------------------------------------------------
(* Every step preserves the call part *)

LEMMA CallInvConn ==
  ASSUME IInv, NEW c \in Conns, ConnNext(c)
  PROVE  CallInv'
<1> USE DEF TypeOK, CallPhase, Returned, AdapterState,
            innerVars, taskVars, monVars, ctlVars, callVars,
            IInv, CallInv, EchoesUnique, Started, RequestsRegistered, Registered, ExecutedOnce,
            AnswersMatch, WaitingIsRegistered, StaleEntriesExplained
<1>1. CASE BackendClose(c)
  BY <1>1, ConstantsAssumption DEF BackendClose
<1>2. CASE WriterFail(c)
  BY <1>2, ConstantsAssumption DEF WriterFail
<1>3. CASE WriterEnd(c)
  BY <1>3, ConstantsAssumption DEF WriterEnd
<1>4. CASE ReaderExit(c)
  BY <1>4, ConstantsAssumption DEF ReaderExit
<1>5. CASE ReaderMark(c)
  BY <1>5, ConstantsAssumption DEF ReaderMark
<1>6. ASSUME NEW q \in Calls, WriterSend(c, q)
      PROVE  CallInv'
  BY <1>6, ConstantsAssumption DEF WriterSend
<1>7. ASSUME NEW q \in Calls, HandleApiResponse(c, q)
      PROVE  CallInv'
  BY <1>7, ConstantsAssumption DEF HandleApiResponse, Keyed
<1> QED
  BY <1>1, <1>2, <1>3, <1>4, <1>5, <1>6, <1>7 DEF ConnNext

LEMMA CallInvMonitor ==
  ASSUME IInv, NEW m \in Monitors, MonitorNext(m)
  PROVE  CallInv'
<1> USE DEF TypeOK, CallPhase, Returned, AdapterState,
            innerVars, taskVars, monVars, ctlVars, callVars,
            IInv, CallInv, EchoesUnique, Started, RequestsRegistered, Registered, ExecutedOnce,
            AnswersMatch, WaitingIsRegistered, StaleEntriesExplained
<1>1. CASE MonitorNotice(m)
  BY <1>1, ConstantsAssumption DEF MonitorNotice
<1>2. CASE MonitorMark(m)
  BY <1>2, ConstantsAssumption DEF MonitorMark
<1>3. CASE MonitorInstall(m)
  BY <1>3, ConstantsAssumption DEF MonitorInstall, Install
<1>4. ASSUME NEW c \in Conns, MonitorDial(m, c)
      PROVE  CallInv'
  BY <1>4, ConstantsAssumption DEF MonitorDial, SpawnTasks
<1> QED
  BY <1>1, <1>2, <1>3, <1>4 DEF MonitorNext

LEMMA CallInvConnector ==
  ASSUME IInv, NEW k \in Connectors, ConnectorNext(k)
  PROVE  CallInv'
<1> USE DEF TypeOK, CallPhase, Returned, AdapterState,
            innerVars, taskVars, monVars, ctlVars, callVars,
            IInv, CallInv, EchoesUnique, Started, RequestsRegistered, Registered, ExecutedOnce,
            AnswersMatch, WaitingIsRegistered, StaleEntriesExplained
<1>1. CASE BeginReconnect(k)
  BY <1>1, ConstantsAssumption DEF BeginReconnect
<1>2. CASE BeginRemove(k)
  BY <1>2, ConstantsAssumption DEF BeginRemove
<1>3. CASE BeginConnect(k)
  BY <1>3, ConstantsAssumption DEF BeginConnect
<1>4. CASE ConnectFail(k)
  BY <1>4, ConstantsAssumption DEF ConnectFail, ConnectReturns
<1>5. CASE Disconnect(k)
  BY <1>5, ConstantsAssumption DEF Disconnect, AbortIo, AbortMonitor, Drop
<1>6. ASSUME NEW c \in Conns, ConnectOpen(k, c)
      PROVE  CallInv'
  BY <1>6, ConstantsAssumption DEF ConnectOpen, SpawnTasks
<1>7. ASSUME NEW m \in Monitors, ConnectInstall(k, m)
      PROVE  CallInv'
  BY <1>7, ConstantsAssumption DEF ConnectInstall, Install, ConnectReturns
<1> QED
  BY <1>1, <1>2, <1>3, <1>4, <1>5, <1>6, <1>7 DEF ConnectorNext

LEMMA CallInvCall ==
  ASSUME IInv, NEW q \in Calls, CallNext(q)
  PROVE  CallInv'
<1> USE DEF TypeOK, CallPhase, Returned, AdapterState,
            innerVars, taskVars, monVars, ctlVars, callVars,
            IInv, CallInv, EchoesUnique, Started, RequestsRegistered, Registered, ExecutedOnce,
            AnswersMatch, WaitingIsRegistered, StaleEntriesExplained
<1>1. CASE NextEcho(q)
  BY <1>1, ConstantsAssumption DEF NextEcho
<1>2. CASE SendRequest(q)
  <2>1. CASE Rejected(q)
    BY <1>2, <2>1, SendRequestCases DEF Rejected
  <2>2. CASE Queued(q)
    BY <1>2, <2>2, SendRequestCases, QueuedCallInv
  <2>3. CASE SendFailed(q)
    BY <1>2, <2>3, SendRequestCases DEF SendFailed
  <2> QED
    BY <1>2, <2>1, <2>2, <2>3, SendRequestCases
<1>3. CASE CallTimeout(q)
  BY <1>3, ConstantsAssumption DEF CallTimeout, Keyed
<1>4. CASE CallCancel(q)
  BY <1>4, ConstantsAssumption DEF CallCancel
<1> QED
  BY <1>1, <1>2, <1>3, <1>4 DEF CallNext

-----------------------------------------------------------------------------
(* The theorems *)

LEMMA StutterInv == IInv /\ UNCHANGED vars => IInv'
<1> SUFFICES ASSUME IInv, UNCHANGED vars
             PROVE  IInv'
  OBVIOUS
<1> USE DEF vars, innerVars, taskVars, monVars, ctlVars, callVars
<1>1. TypeOK'
  BY DEF IInv, TypeOK
<1>2. ControlInv'
  BY DEF IInv, ControlInv, HoldsConnection, ConnectedHasWriter, DisconnectedIsClean
<1>3. EchoesUnique' /\ AnswersMatch' /\ WaitingIsRegistered' /\ StaleEntriesExplained'
  BY DEF IInv, CallInv, EchoesUnique, Started, AnswersMatch, WaitingIsRegistered,
         StaleEntriesExplained
<1>4. RequestsRegistered' /\ ExecutedOnce'
  BY DEF IInv, CallInv, RequestsRegistered, Registered, ExecutedOnce
<1> QED
  BY <1>1, <1>2, <1>3, <1>4 DEF IInv, CallInv

LEMMA StepInv == IInv /\ [Next]_vars => IInv'
<1> SUFFICES ASSUME IInv, Next
             PROVE  IInv'
  BY StutterInv
<1>0. TypeOK
  BY DEF IInv
<1>1. ASSUME NEW c \in Conns, ConnNext(c)
      PROVE  IInv'
  BY <1>0, <1>1, TypeOKConn, ControlInvConn, CallInvConn DEF IInv
<1>2. ASSUME NEW m \in Monitors, MonitorNext(m)
      PROVE  IInv'
  BY <1>0, <1>2, TypeOKMonitor, ControlInvMonitor, CallInvMonitor DEF IInv
<1>3. ASSUME NEW k \in Connectors, ConnectorNext(k)
      PROVE  IInv'
  BY <1>0, <1>3, TypeOKConnector, ControlInvConnector, CallInvConnector DEF IInv
<1>4. ASSUME NEW q \in Calls, CallNext(q)
      PROVE  IInv'
  BY <1>0, <1>4, TypeOKCall, ControlInvCall, CallInvCall DEF IInv
<1> QED
  BY <1>1, <1>2, <1>3, <1>4 DEF Next

\* The invariant the theorems below rest on.
THEOREM Invariance == Spec => []IInv
BY InitInv, StepInv, PTL DEF Spec

\* The variables keep their types: in particular no code path sets Failed.
THEOREM TypeCorrect == Spec => []TypeOK
<1>1. IInv => TypeOK
  BY DEF IInv
<1> QED
  BY <1>1, Invariance, PTL

\* handle_api_response resolves a call only with the response to its own
\* request, over any number of connections and reconnects.
THEOREM AnswersCorrect == Spec => []AnswersMatch
<1>1. IInv => AnswersMatch
  BY DEF IInv, CallInv
<1> QED
  BY <1>1, Invariance, PTL

\* Whatever connects, losses and aborts overlap, Connected implies a stored
\* writer, and call_api never takes its "no ws writer available" branch.
THEOREM WriterCorrect == Spec => []ConnectedHasWriter
<1>1. IInv => ConnectedHasWriter
  BY DEF IInv, ControlInv
<1> QED
  BY <1>1, Invariance, PTL

\* disconnect wakes every waiting caller and leaves nothing behind, and no
\* call registers until the adapter is Connected again.
THEOREM DisconnectCorrect == Spec => []DisconnectedIsClean
<1>1. IInv => DisconnectedIsClean
  BY DEF IInv, ControlInv
<1> QED
  BY <1>1, Invariance, PTL

\* A waiting call has its entry, and an entry without a waiting caller was
\* left by a failed send or a dropped future.
THEOREM EntriesCorrect == Spec => []EntriesExplained
<1>1. IInv => EntriesExplained
  BY DEF IInv, CallInv, EntriesExplained
<1> QED
  BY <1>1, Invariance, PTL

-----------------------------------------------------------------------------
(* The adapter implements ApiCall *)

LEMMA ContractInit == Init => Contract!Init
BY DEF Init, Contract!Init, CallOutcome

\* A step that touches neither the calls nor the executions is a stutter.
LEMMA ContractStutter ==
  ASSUME UNCHANGED <<call, executions>>
  PROVE  UNCHANGED Contract!vars
BY DEF Contract!vars, CallOutcome

LEMMA ContractConn ==
  ASSUME IInv, NEW c \in Conns, ConnNext(c)
  PROVE  [Contract!Next]_(Contract!vars)
<1> USE DEF taskVars, monVars, ctlVars, callVars, innerVars
<1>1. CASE BackendClose(c) \/ WriterFail(c) \/ WriterEnd(c) \/ ReaderExit(c) \/ ReaderMark(c)
  <2>1. UNCHANGED <<call, executions>>
    BY <1>1 DEF BackendClose, WriterFail, WriterEnd, ReaderExit, ReaderMark
  <2> QED
    BY <2>1, ContractStutter
<1>2. ASSUME NEW q \in Calls, WriterSend(c, q)
      PROVE  [Contract!Next]_(Contract!vars)
  <2>1. /\ q \in outbox[c] /\ UNCHANGED call
        /\ executions' = IF sock[c] = "open" THEN [executions EXCEPT ![q] = @ + 1] ELSE executions
    BY <1>2 DEF WriterSend
  <2>2. /\ executions[q] = 0 /\ call[q] \notin {"new", "echoed"}
        /\ executions \in [Calls -> Nat]
    BY <2>1 DEF IInv, TypeOK, CallInv, ExecutedOnce, RequestsRegistered, Registered
  <2>3. CASE sock[c] = "open"
    <3>1. executions' = [executions EXCEPT ![q] = 1]
      BY <2>1, <2>2, <2>3
    <3>2. Contract!Execute(q)
      BY <2>1, <2>2, <3>1 DEF Contract!Execute, CallOutcome
    <3> QED
      BY <3>2 DEF Contract!Next
  <2>4. CASE sock[c] # "open"
    BY <2>1, <2>4, ContractStutter
  <2> QED
    BY <2>3, <2>4
<1>3. ASSUME NEW r \in Calls, HandleApiResponse(c, r)
      PROVE  [Contract!Next]_(Contract!vars)
  <2> DEFINE woken == {q \in Keyed(echo[r]) : call[q] = "waiting"}
  <2>1. /\ r \in received[c] /\ UNCHANGED executions
        /\ call' = [q \in Calls |-> IF q \in woken THEN "ok" ELSE call[q]]
    BY <1>3 DEF HandleApiResponse
  <2>2. executions[r] = 1 /\ woken \subseteq {r} /\ call \in [Calls -> CallPhase]
    BY <2>1 DEF IInv, TypeOK, CallInv, ExecutedOnce, RequestsRegistered, Registered, EchoesUnique,
                Started, Keyed
  <2>3. CASE woken = {}
    <3>1. call' = call
      BY <2>1, <2>2, <2>3
    <3> QED
      BY <2>1, <3>1, ContractStutter
  <2>4. CASE woken = {r}
    <3>1. call[r] = "waiting"
      BY <2>4
    <3>2. \A q \in Calls : call'[q] = IF q = r THEN "ok" ELSE call[q]
      BY <2>1, <2>4
    <3>3. Contract!ReturnOk(r)
      BY <2>1, <2>2, <3>1, <3>2 DEF Contract!ReturnOk, CallOutcome
    <3> QED
      BY <3>3 DEF Contract!Next
  <2> QED
    BY <2>2, <2>3, <2>4
<1> QED
  BY <1>1, <1>2, <1>3 DEF ConnNext

LEMMA ContractMonitor ==
  ASSUME NEW m \in Monitors, MonitorNext(m)
  PROVE  [Contract!Next]_(Contract!vars)
<1>1. UNCHANGED <<call, executions>>
  BY DEF MonitorNext, MonitorNotice, MonitorMark, MonitorInstall, MonitorDial, callVars
<1> QED
  BY <1>1, ContractStutter

\* Calls of a set that were active and are now failed returned an error.
LEMMA ContractErr ==
  ASSUME NEW Q \in SUBSET Calls, Q # {}, UNCHANGED executions,
         \A q \in Q : CallOutcome(call[q]) = "active" /\ CallOutcome(call'[q]) = "failed",
         \A q \in Calls \ Q : call'[q] = call[q]
  PROVE  Contract!Next
<1>1. Contract!ReturnErr(Q)
  BY DEF Contract!ReturnErr
<1> QED
  BY <1>1 DEF Contract!Next

LEMMA ContractConnector ==
  ASSUME IInv, NEW k \in Connectors, ConnectorNext(k)
  PROVE  [Contract!Next]_(Contract!vars)
<1>1. CASE Disconnect(k)
  <2> DEFINE woken == {q \in pending_calls : call[q] = "waiting"}
  <2>1. /\ UNCHANGED executions /\ woken \in SUBSET Calls
        /\ \A q \in Calls : call'[q] = IF q \in woken THEN "dropped" ELSE call[q]
    BY <1>1 DEF Disconnect, Drop, IInv, TypeOK
  <2>2. \A q \in woken : CallOutcome(call[q]) = "active" /\ CallOutcome(call'[q]) = "failed"
    BY <2>1 DEF CallOutcome
  <2>3. CASE woken = {}
    <3>1. call' = call
      BY <1>1, <2>3 DEF Disconnect, Drop, IInv, TypeOK
    <3> QED
      BY <2>1, <3>1, ContractStutter
  <2>4. CASE woken # {}
    BY <2>1, <2>2, <2>4, ContractErr
  <2> QED
    BY <2>3, <2>4
<1>2. CASE ~Disconnect(k)
  <2>1. UNCHANGED <<call, executions>>
    BY <1>2 DEF ConnectorNext, BeginReconnect, BeginRemove, BeginConnect, ConnectFail, ConnectOpen,
                ConnectInstall, callVars
  <2> QED
    BY <2>1, ContractStutter
<1> QED
  BY <1>1, <1>2

LEMMA ContractCall ==
  ASSUME IInv, NEW q \in Calls, CallNext(q)
  PROVE  [Contract!Next]_(Contract!vars)
<1>0. call \in [Calls -> CallPhase]
  BY DEF IInv, TypeOK
<1>1. CASE NextEcho(q)
  <2>1. Contract!Start(q)
    BY <1>0, <1>1 DEF NextEcho, Contract!Start, CallOutcome
  <2> QED
    BY <2>1 DEF Contract!Next
<1>2. CASE SendRequest(q)
  <2>1. call[q] = "echoed" /\ UNCHANGED executions
    BY <1>2, SendRequestCases
  <2>2. CASE Queued(q)
    <3>1. UNCHANGED Contract!vars
      BY <1>0, <2>1, <2>2 DEF Queued, Contract!vars, CallOutcome
    <3> QED
      BY <3>1
  <2>3. CASE Rejected(q) \/ SendFailed(q)
    <3>1. /\ CallOutcome(call[q]) = "active" /\ CallOutcome(call'[q]) = "failed"
          /\ \A p \in Calls \ {q} : call'[p] = call[p]
      BY <1>0, <2>1, <2>3 DEF Rejected, SendFailed, CallOutcome
    <3> QED
      BY <2>1, <3>1, ContractErr
  <2> QED
    BY <1>2, <2>2, <2>3, SendRequestCases
<1>3. CASE CallTimeout(q) \/ CallCancel(q)
  <2>1. /\ CallOutcome(call[q]) = "active" /\ CallOutcome(call'[q]) = "failed"
        /\ \A p \in Calls \ {q} : call'[p] = call[p]
        /\ UNCHANGED executions
    BY <1>0, <1>3 DEF CallTimeout, CallCancel, CallOutcome
  <2> QED
    BY <2>1, ContractErr
<1> QED
  BY <1>1, <1>2, <1>3 DEF CallNext

LEMMA ContractStep == IInv /\ [Next]_vars => [Contract!Next]_(Contract!vars)
<1> SUFFICES ASSUME IInv, [Next]_vars
             PROVE  [Contract!Next]_(Contract!vars)
  OBVIOUS
<1>1. CASE UNCHANGED vars
  BY <1>1, ContractStutter DEF vars, callVars
<1>2. CASE Next
  BY <1>2, ContractConn, ContractMonitor, ContractConnector, ContractCall DEF Next
<1> QED
  BY <1>1, <1>2

\* The adapter executes a request at most once and returns at most once, Ok
\* only after the execution: LagrangeAdapter refines ApiCall.
THEOREM Refinement == Spec => ImplementsApiCall
BY Invariance, ContractInit, ContractStep, PTL DEF Spec, ImplementsApiCall, Contract!Safety

=============================================================================
