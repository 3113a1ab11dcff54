--------------------------- MODULE FailoverAdapter ---------------------------
(***************************************************************************)
(* An account with a primary and a fallback backend,                       *)
(* crates/ferroq-gateway/src/adapter/failover.rs, over two adapters that   *)
(* are official (OfficialAdapter) or Lagrange ones.  Of a Lagrange adapter *)
(* the callers see what ApiCall promises and its state, which its monitor  *)
(* and the connects change.                                                *)
(*                                                                         *)
(* A task performs one operation of the account, which visits the sides in *)
(* turn and at a side posts a request in one mode after the other; an      *)
(* operation waits between any two steps.  What becomes of a post is free. *)
(***************************************************************************)
EXTENDS OfficialAdapter, FiniteSets

CONSTANTS
  Calls,   \* tasks that call call_api
  Admins   \* tasks that connect, disconnect or check the health

ASSUME FailoverAssumption ==
  /\ Sides = {"primary", "fallback"}
  /\ Templated \subseteq Sides
  /\ Calls \cap Admins = {}
  /\ None \notin Modes \cup {"ok", "connection", "http", "rejected", "unreachable", "reached"}

VARIABLES
  kind,        \* what the sides are
  task,        \* what each task does: [op, side, modes, connected]
  result,      \* how it ended
  attempts,    \* history: the posts of a call, <<side, mode>>
  executions,  \* history: how often a backend has executed it
  lost,        \* history: executions whose answer was lost
  fate,        \* history: what came of a call at each side
  overtaken    \* history: sides disconnected while a connect was probing

historyVars == <<attempts, executions, lost, fate, overtaken>>
vars == <<officialVars, kind, task, result, historyVars>>

Tasks == Calls \cup Admins

\* "ws" stands for the one way a Lagrange adapter sends a request.
TypeOK ==
  /\ OfficialTypeOK
  /\ kind \in [Sides -> {"official", "lagrange"}]
  /\ task \in [Tasks -> [op : {"idle", "call", "connect", "disconnect", "health"},
                         side : Sides, modes : Seq(Modes \cup {"ws"}), connected : BOOLEAN]]
  /\ result \in [Tasks -> {None, "ok", "connection", "http"}]
  /\ attempts \in [Calls -> Seq(Sides \X (Modes \cup {"ws"}))]
  /\ executions \in [Calls -> Nat]
  /\ lost \in [Calls -> Nat]
  /\ fate \in [Calls -> [Sides -> {None, "rejected", "unreachable", "reached"}]]
  /\ overtaken \subseteq Sides

Idle == [op |-> "idle", side |-> "primary", modes |-> <<>>, connected |-> FALSE]

Init ==
  /\ OfficialInit
  /\ kind \in [Sides -> {"official", "lagrange"}]
  /\ task = [j \in Tasks |-> Idle]
  /\ result = [j \in Tasks |-> None]
  /\ attempts = [q \in Calls |-> <<>>]
  /\ executions = [q \in Calls |-> 0]
  /\ lost = [q \in Calls |-> 0]
  /\ fate = [q \in Calls |-> [s \in Sides |-> None]]
  /\ overtaken = {}

-----------------------------------------------------------------------------
(* Operations and the sides they visit *)

Start(j, op) ==
  /\ task[j].op = "idle" /\ result[j] = None
  /\ op = "call" <=> j \in Calls
  /\ task' = [task EXCEPT ![j].op = op]
  /\ UNCHANGED <<officialVars, kind, result, historyVars>>

\* The operation returns, or goes on to the fallback.
Return(j, r) ==
  /\ result' = [result EXCEPT ![j] = r]
  /\ task' = [task EXCEPT ![j] = Idle]

ToFallback(j, connected) ==
  /\ task' = [task EXCEPT ![j] = [op |-> task[j].op, side |-> "fallback", modes |-> <<>>,
                                  connected |-> connected]]
  /\ UNCHANGED result

\* Mutant: an HTTP error counts as one too.
IsConnectionError_Http(r) == r \in {"connection", "http"}

IsConnectionError(r) == r = "connection"

\* One side has answered an operation.
SideReturns(j, r) ==
  LET t == task[j] IN
  IF t.side = "primary"
  THEN CASE t.op = "call"    -> IF IsConnectionError(r) THEN ToFallback(j, FALSE) ELSE Return(j, r)
         [] t.op = "health"  -> IF r = "ok" THEN Return(j, r) ELSE ToFallback(j, FALSE)
         [] t.op = "connect" -> ToFallback(j, r = "ok")
         [] OTHER            -> ToFallback(j, FALSE)
  ELSE Return(j, IF t.connected THEN "ok" ELSE r)

AtSide(j, op) == task[j].op = op /\ task[j].modes = <<>>

\* What a request is sent in.
Ways(s) == IF kind[s] = "official" THEN CandidateModes(s) ELSE <<"ws">>

\* What came of a call at a side: the last that is known, or that the side
\* was reached.
Met(j, f) ==
  fate' = IF j \in Calls
          THEN [fate EXCEPT ![j][task[j].side] = IF @ = "reached" THEN @ ELSE f]
          ELSE fate

\* call_api and health_check begin with the state of the adapter.
Reject(j) ==
  /\ AtSide(j, "call") \/ AtSide(j, "health")
  /\ state[task[j].side] # "Connected"
  /\ SideReturns(j, "connection")
  /\ Met(j, "rejected")
  /\ UNCHANGED <<officialVars, kind, attempts, executions, lost, overtaken>>

Discover(j) ==
  /\ AtSide(j, "call") \/ AtSide(j, "health")
  /\ state[task[j].side] = "Connected"
  /\ task' = [task EXCEPT ![j].modes = Ways(task[j].side)]
  /\ UNCHANGED <<officialVars, kind, result, historyVars>>

\* An official adapter probes in connect.
Probe(j) ==
  /\ AtSide(j, "connect")
  /\ kind[task[j].side] = "official"
  /\ ConnectBegin(task[j].side)
  /\ overtaken' = overtaken \ {task[j].side}
  /\ task' = [task EXCEPT ![j].modes = CandidateModes(task[j].side)]
  /\ UNCHANGED <<kind, result, attempts, executions, lost, fate>>

\* A Lagrange adapter connects, or fails to and remains Connecting.
LagrangeConnect(j, r) ==
  LET s == task[j].side IN
  /\ AtSide(j, "connect")
  /\ kind[s] = "lagrange"
  /\ r \in {"ok", "connection"}
  /\ state' = [state EXCEPT ![s] = IF r = "ok" THEN "Connected" ELSE "Connecting"]
  /\ event_tx' = [event_tx EXCEPT ![s] = TRUE]
  /\ SideReturns(j, r)
  /\ UNCHANGED <<preferred_mode, self_id, kind, historyVars>>

\* Its connection is lost, its monitor connects again.
LagrangeMonitor(s) ==
  /\ kind[s] = "lagrange"
  /\ \/ state[s] = "Connected" /\ state' = [state EXCEPT ![s] = "Reconnecting"]
     \/ state[s] = "Reconnecting" /\ state' = [state EXCEPT ![s] = "Connected"]
  /\ UNCHANGED <<event_tx, preferred_mode, self_id, kind, task, result, historyVars>>

\* Is a connect waiting for its probe of this side?
Probing(s) ==
  \E j \in Admins : task[j].op = "connect" /\ task[j].side = s /\ task[j].modes # <<>>

DisconnectSide(j) ==
  LET s == task[j].side IN
  /\ AtSide(j, "disconnect")
  /\ Disconnect(s)
  /\ overtaken' = IF Probing(s) THEN overtaken \cup {s} ELSE overtaken
  /\ SideReturns(j, "ok")
  /\ UNCHANGED <<kind, attempts, executions, lost, fate>>

-----------------------------------------------------------------------------
(* Posts *)

Posting(j) == task[j].modes # <<>>
Way(j) == Head(task[j].modes)

\* What a call's post adds to the history.
Recorded(j, executed, answered) ==
  IF j \in Calls
  THEN /\ attempts' = [attempts EXCEPT ![j] = Append(@, <<task[j].side, Way(j)>>)]
       /\ executions' = [executions EXCEPT ![j] = IF executed THEN @ + 1 ELSE @]
       /\ lost' = [lost EXCEPT ![j] = IF executed /\ ~answered THEN @ + 1 ELSE @]
  ELSE UNCHANGED <<attempts, executions, lost>>

\* Mutant: the discovery goes on after an answer.
PostAnswered_GoOn(j, learned) ==
  /\ Posting(j) /\ Len(task[j].modes) > 1
  /\ ModeSelected(task[j].side, Way(j), learned)
  /\ Recorded(j, TRUE, TRUE)
  /\ Met(j, "reached")
  /\ task' = [task EXCEPT ![j].modes = Tail(@)]
  /\ UNCHANGED <<kind, result, overtaken>>

\* A post is answered with a success status and valid JSON: that mode is the
\* preferred one and the discovery ends.  A health check fails if the answer
\* carries an error code.
PostAnswered(j, learned) ==
  /\ Posting(j)
  /\ task[j].op # "connect"
  /\ learned => task[j].op = "call"
  /\ IF kind[task[j].side] = "official" THEN ModeSelected(task[j].side, Way(j), learned)
     ELSE UNCHANGED officialVars
  /\ Recorded(j, TRUE, TRUE)
  /\ Met(j, "reached")
  /\ \/ SideReturns(j, "ok")
     \/ task[j].op = "health" /\ SideReturns(j, "http")
  /\ UNCHANGED <<kind, overtaken>>

\* connect's probe is answered; Connected follows in a step of its own.
ProbeAnswered(j, learned) ==
  /\ Posting(j)
  /\ task[j].op = "connect"
  /\ Way(j) # "ws"
  /\ ModeSelected(task[j].side, Way(j), learned)
  /\ task' = [task EXCEPT ![j].modes = <<"ws">>]
  /\ UNCHANGED <<kind, result, historyVars>>

\* A post fails, whether it reached the backend and was executed or not: it
\* cannot be sent, times out, or its answer has another status or does not
\* parse.  The next mode follows; after the last one the side has failed.
PostFailed(j, reached, executed) ==
  /\ Posting(j)
  /\ task[j].op # "connect"
  /\ executed => reached
  /\ Recorded(j, executed, FALSE)
  /\ Met(j, IF reached THEN "reached" ELSE "unreachable")
  /\ IF Len(task[j].modes) > 1
     THEN task' = [task EXCEPT ![j].modes = Tail(@)] /\ UNCHANGED result
     ELSE SideReturns(j, IF kind[task[j].side] = "official" THEN "http" ELSE "connection")
  /\ UNCHANGED <<officialVars, kind, overtaken>>

ProbeFailed(j) ==
  /\ Posting(j)
  /\ task[j].op = "connect"
  /\ Way(j) # "ws"
  /\ task' = [task EXCEPT ![j].modes = IF Len(@) > 1 THEN Tail(@) ELSE <<"ws">>]
  /\ UNCHANGED <<officialVars, kind, result, historyVars>>

\* connect is back from its probe, whatever came of it.
Connected(j) ==
  /\ task[j].op = "connect"
  /\ task[j].modes = <<"ws">>
  /\ ConnectEnd(task[j].side)
  /\ SideReturns(j, "ok")
  /\ UNCHANGED <<kind, historyVars>>

Step(j) ==
  \/ Reject(j) \/ Discover(j) \/ Probe(j) \/ DisconnectSide(j) \/ ProbeFailed(j) \/ Connected(j)
  \/ \E r \in {"ok", "connection"} : LagrangeConnect(j, r)
  \/ \E b \in BOOLEAN : PostAnswered(j, b) \/ ProbeAnswered(j, b)
  \/ \E reached, executed \in BOOLEAN : PostFailed(j, reached, executed)

Next ==
  \/ \E j \in Tasks : Step(j)
  \/ \E j \in Tasks, op \in {"call", "connect", "disconnect", "health"} : Start(j, op)
  \/ \E s \in Sides : LagrangeMonitor(s)

Spec == Init /\ [][Next]_vars

-----------------------------------------------------------------------------
(* Properties *)

\* Retries repeat a request only after an execution whose answer was lost: a
\* request answered is executed once more than answers were lost, and never
\* again after its answer.  No way of sending is tried twice for one request,
\* though other tasks change the preferred mode meanwhile, and an HTTP error is
\* returned only when every mode of the adapter has been tried.
ExecutionsExplained ==
  /\ TypeOK
  /\ \A q \in Calls :
       /\ executions[q] = lost[q] + (IF result[q] = "ok" THEN 1 ELSE 0)
       /\ IsInjective(attempts[q])
       /\ result[q] = "http" =>
            \E s \in Sides : \A i \in DOMAIN OrderedModes(s) :
              Contains(attempts[q], <<s, OrderedModes(s)[i]>>)

\* A call asks the fallback only if the request did not get to its primary, or the
\* primary is a Lagrange one that did not answer it: what an official primary took
\* is not executed again elsewhere.  And the fallback is asked before the caller
\* gets an error of a primary that was not connected, or of a Lagrange one,
\* whatever connects, losses and other tasks do between the two sides.  Of an
\* official primary that is connected and cannot be reached it says nothing:
\* UnreachableFailsOver does.
FailsOver ==
  \A q \in Calls : result[q] # None =>
    IF fate[q]["fallback"] = None
    THEN \/ result[q] = "ok"
         \/ kind["primary"] = "official" /\ fate[q]["primary"] \notin {None, "rejected"}
    ELSE fate[q]["primary"] \in {"rejected", "unreachable"} \/ kind["primary"] = "lagrange"

\* What the comments promise: a call whose primary is unreachable, none of its
\* posts having got there, is retried on the fallback before it returns an error.
\* An official primary reports an HTTP error, which is_connection_error denies.
UnreachableFailsOver ==
  \A q \in Calls :
    result[q] \in {"connection", "http"} /\ fate[q]["primary"] = "unreachable" =>
      fate[q]["fallback"] # None

\* An official adapter that was disconnected reports Connected, without an
\* event channel, only if the disconnect came in the middle of a connect.
ConnectedIsOpen ==
  \A s \in Sides : kind[s] = "official" /\ state[s] = "Connected" =>
    event_tx[s] \/ s \in overtaken

=============================================================================
