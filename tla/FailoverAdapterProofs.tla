------------------------ MODULE FailoverAdapterProofs ------------------------
(***************************************************************************)
(* Proofs about FailoverAdapter, for any number of calls and of tasks that *)
(* connect, disconnect or check the account: how often a request is        *)
(* executed, when the fallback is asked, and that a Connected adapter has  *)
(* an event channel.                                                       *)
(***************************************************************************)
EXTENDS FailoverAdapter, SequenceTheorems, TLAPS

AllWays == Modes \cup {"ws"}

Made(q, s, m) == Contains(attempts[q], <<s, m>>)
Left(j, m) == Contains(task[j].modes, m)
Known(s, m) == Contains(OrderedModes(s), m)

\* A preferred mode is one of the adapter's.
PreferredKnown == \A s \in Sides : preferred_mode[s] # None => Known(s, preferred_mode[s])

\* What a task is at, and what it has left to try.
TaskOk(j) ==
  /\ task[j].op # "idle" => (task[j].op = "call" <=> j \in Calls)
  /\ task[j].op = "idle" => task[j] = Idle
  /\ result[j] # None => task[j].op = "idle"
  /\ IsInjective(task[j].modes)
  /\ \A m \in AllWays : Left(j, m) /\ kind[task[j].side] = "official" =>
       Known(task[j].side, m) \/ (m = "ws" /\ task[j].op = "connect")

\* A connect past its first step.
ProbeOk(j) ==
  task[j].op = "connect" /\ task[j].modes # <<>> =>
    /\ kind[task[j].side] = "official"
    /\ event_tx[task[j].side] \/ task[j].side \in overtaken

\* A request in flight: a mode is tried or left to try, and not both, and the
\* fallback is at it only if the primary has rejected it or is a Lagrange one.
CallOk(q) ==
  task[q].op = "call" =>
    /\ ~task[q].connected
    /\ task[q].side = "primary" => fate[q]["fallback"] = None
    /\ task[q].side = "fallback" => fate[q]["primary"] = "rejected" \/ kind["primary"] = "lagrange"
    /\ task[q].modes = <<>> => fate[q][task[q].side] = None
    /\ \A m \in AllWays :
         /\ Made(q, task[q].side, m) => task[q].modes # <<>> /\ ~Left(q, m)
         /\ Made(q, "fallback", m) => task[q].side = "fallback"
         /\ task[q].modes # <<>> /\ kind[task[q].side] = "official" /\ Known(task[q].side, m) =>
              Left(q, m) \/ Made(q, task[q].side, m)

\* What FailsOver says of a call that has returned.
FailedOver(q) ==
  IF fate[q]["fallback"] = None
  THEN \/ result[q] = "ok"
       \/ kind["primary"] = "official" /\ fate[q]["primary"] \notin {None, "rejected"}
  ELSE fate[q]["primary"] \in {"rejected", "unreachable"} \/ kind["primary"] = "lagrange"

\* What ExecutionsExplained and FailsOver say of one call.
HistoryOk(q) ==
  /\ executions[q] = lost[q] + (IF result[q] = "ok" THEN 1 ELSE 0)
  /\ IsInjective(attempts[q])
  /\ task[q].op = "idle" /\ result[q] = None =>
       attempts[q] = <<>> /\ \A s \in Sides : fate[q][s] = None
  /\ result[q] = "http" => \E s \in Sides : \A m \in Modes : Known(s, m) => Made(q, s, m)
  /\ result[q] # None => FailedOver(q)

IInv ==
  /\ TypeOK
  /\ PreferredKnown
  /\ ConnectedIsOpen
  /\ \A j \in Tasks : TaskOk(j) /\ ProbeOk(j)
  /\ \A q \in Calls : CallOk(q) /\ HistoryOk(q)

-----------------------------------------------------------------------------
(* The modes *)

LEMMA Ordered ==
  ASSUME NEW s \in Sides
  PROVE  /\ OrderedModes(s) \in Seq(Modes) /\ OrderedModes(s) # <<>> /\ IsInjective(OrderedModes(s))
         /\ Len(OrderedModes(s)) \in Nat \ {0} /\ DOMAIN OrderedModes(s) = 1..Len(OrderedModes(s))
<1>1. CASE s \in Templated
  <2> DEFINE o == <<"Template", "ApiPrefixed", "DirectAction", "LegacyBody">>
  <2>1. OrderedModes(s) = o
    BY <1>1 DEF OrderedModes
  <2>2. o \in Seq(Modes) /\ Len(o) = 4 /\ o # <<>> /\ DOMAIN o = 1..4
    BY DEF Modes
  <2>3. IsInjective(o)
    BY <2>2 DEF IsInjective
  <2> QED BY <2>1, <2>2, <2>3
<1>2. CASE s \notin Templated
  <2> DEFINE o == <<"ApiPrefixed", "DirectAction", "LegacyBody">>
  <2>1. OrderedModes(s) = o
    BY <1>2 DEF OrderedModes
  <2>2. o \in Seq(Modes) /\ Len(o) = 3 /\ o # <<>> /\ DOMAIN o = 1..3
    BY DEF Modes
  <2>3. IsInjective(o)
    BY <2>2 DEF IsInjective
  <2> QED BY <2>1, <2>2, <2>3
<1> QED
  BY <1>1, <1>2

\* The modes of a request are the adapter's modes, each of them once.
LEMMA Candidates ==
  ASSUME IInv, NEW s \in Sides
  PROVE  /\ CandidateModes(s) \in Seq(Modes) /\ CandidateModes(s) # <<>>
         /\ IsInjective(CandidateModes(s))
         /\ \A m \in AllWays : Contains(CandidateModes(s), m) <=> Known(s, m)
<1> DEFINE modes == OrderedModes(s)  first == preferred_mode[s]
<1>1. first = None \/ first \in Modes
  BY DEF IInv, TypeOK, OfficialTypeOK
<1>2. CASE first = None
  BY <1>2, Ordered DEF CandidateModes, Known
<1>3. CASE first # None
  <2>1. Contains(modes, first)
    BY <1>3 DEF IInv, PreferredKnown, Known
  <2> DEFINE Later(i) == \E k \in i..Len(modes) : modes[k] = first
             c == [i \in DOMAIN modes |-> IF i = 1 THEN first
                                         ELSE IF Later(i) THEN modes[i - 1] ELSE modes[i]]
  <2>2. CandidateModes(s) = c
    BY <1>3 DEF CandidateModes
  <2>3. PICK n \in Nat \ {0} : n = Len(modes) /\ DOMAIN modes = 1..n /\ modes \in [1..n -> Modes]
    BY Ordered
  <2>4. PICK k \in 1..n : modes[k] = first
    BY <2>1, <2>3 DEF Contains
  <2>5. \A a, b \in 1..n : modes[a] = modes[b] => a = b
    BY <2>3, Ordered DEF IsInjective
  <2> HIDE DEF modes, first
  <2>6. \A i \in 1..n : Later(i) <=> i <= k
    BY <2>3, <2>4, <2>5
  <2>7. DOMAIN c = 1..n /\ \A i \in 1..n : c[i] = IF i = 1 THEN modes[k]
                                                ELSE IF i <= k THEN modes[i - 1] ELSE modes[i]
    BY <2>3, <2>4, <2>6
  <2> HIDE DEF c, Later
  <2>8. c \in [1..n -> Modes]
    <3>1. \A i \in 1..n : c[i] \in Modes
      BY <2>3, <2>7
    <3>2. c = [i \in DOMAIN c |-> c[i]]
      BY DEF c
    <3> QED BY <2>7, <3>1, <3>2
  <2>9. c \in Seq(Modes) /\ Len(c) = n /\ c # <<>>
    BY <2>8
  <2>10. \A a, b \in 1..n : c[a] = c[b] => a = b
    BY <2>3, <2>5, <2>7
  <2>11. \A a \in 1..n : \E b \in 1..n : c[a] = modes[b]
    BY <2>7, <2>3
  <2>12. \A b \in 1..n : \E a \in 1..n : c[a] = modes[b]
    <3> TAKE b \in 1..n
    <3>1. CASE b = k
      BY <3>1, <2>7
    <3>2. CASE b < k
      <4>1. b + 1 \in 1..n /\ b + 1 # 1 /\ b + 1 <= k /\ (b + 1) - 1 = b
        BY <3>2
      <4>2. c[b + 1] = modes[b]
        BY <4>1, <2>7
      <4> QED BY <4>1, <4>2
    <3>3. CASE b > k
      BY <3>3, <2>7
    <3> QED BY <3>1, <3>2, <3>3
  <2>13. IsInjective(c)
    BY <2>7, <2>10 DEF IsInjective
  <2>14. \A m : (\E a \in 1..n : c[a] = m) <=> (\E b \in 1..n : modes[b] = m)
    BY <2>11, <2>12
  <2>15. \A m : Contains(c, m) <=> Contains(modes, m)
    BY <2>3, <2>9, <2>14 DEF Contains
  <2> QED
    BY <2>2, <2>9, <2>13, <2>15 DEF Known, modes
<1> QED
  BY <1>1, <1>2, <1>3

-----------------------------------------------------------------------------
(* Steps of a task *)

\* The task's step leaves the other tasks alone.
Alone(j) ==
  /\ kind' = kind
  /\ \A k \in Tasks \ {j} : task'[k] = task[k] /\ result'[k] = result[k]
  /\ \A q \in Calls \ {j} : /\ attempts'[q] = attempts[q] /\ fate'[q] = fate[q]
                            /\ executions'[q] = executions[q] /\ lost'[q] = lost[q]

LEMMA OthersOk ==
  ASSUME IInv, NEW j \in Tasks, Alone(j)
  PROVE  /\ \A k \in Tasks \ {j} : TaskOk(k)'
         /\ \A q \in Calls \ {j} : CallOk(q)' /\ HistoryOk(q)'
<1>1. ASSUME NEW k \in Tasks \ {j} PROVE TaskOk(k)'
  BY <1>1 DEF IInv, Alone, TaskOk, Left
<1>2. ASSUME NEW q \in Calls \ {j} PROVE CallOk(q)' /\ HistoryOk(q)'
  <2>1. CallOk(q) /\ HistoryOk(q) /\ q \in Tasks
    BY DEF IInv, Tasks
  <2>2. CallOk(q)'
    BY <2>1 DEF Alone, CallOk, Left, Made
  <2>3. HistoryOk(q)'
    BY <2>1 DEF Alone, HistoryOk, Made, FailedOver
  <2> QED BY <2>2, <2>3
<1> QED
  BY <1>1, <1>2

\* What is known of a task.
LEMMA TaskTypes ==
  ASSUME IInv, NEW j \in Tasks
  PROVE  /\ task[j].side \in Sides /\ task[j].side \in {"primary", "fallback"}
         /\ task[j].modes \in Seq(AllWays) /\ TaskOk(j) /\ ProbeOk(j)
         /\ task[j].op \in {"idle", "call", "connect", "disconnect", "health"}
         /\ task[j].connected \in BOOLEAN
         /\ task[j].op = "call" => j \in Calls /\ CallOk(j) /\ HistoryOk(j) /\ result[j] = None
BY FailoverAssumption DEF IInv, TypeOK, AllWays, TaskOk

\* A side has answered: the operation has returned, or is at the fallback.
LEMMA Answered ==
  ASSUME IInv, NEW j \in Tasks, NEW r \in {"ok", "connection", "http"}, task[j].op # "idle",
         SideReturns(j, r), UNCHANGED kind
  PROVE  /\ task' \in [Tasks -> [op : {"idle", "call", "connect", "disconnect", "health"}, side : Sides,
                                 modes : Seq(Modes \cup {"ws"}), connected : BOOLEAN]]
         /\ result' \in [Tasks -> {None, "ok", "connection", "http"}]
         /\ \A k \in Tasks \ {j} : task'[k] = task[k] /\ result'[k] = result[k]
         /\ TaskOk(j)' /\ ProbeOk(j)' /\ task'[j].modes = <<>>
         /\ task[j].op = "call" /\ ~task[j].connected =>
              \/ task'[j] = Idle /\ result'[j] = r
              \/ /\ task'[j].op = "call" /\ task'[j].side = "fallback" /\ ~task'[j].connected
                 /\ r = "connection" /\ task[j].side = "primary" /\ result'[j] = result[j]
<1> DEFINE T == [op : {"idle", "call", "connect", "disconnect", "health"}, side : Sides,
                 modes : Seq(Modes \cup {"ws"}), connected : BOOLEAN]
<1>1. /\ task \in [Tasks -> T] /\ result \in [Tasks -> {None, "ok", "connection", "http"}]
      /\ task[j] \in T
  BY DEF IInv, TypeOK
<1>2. task[j].side \in {"primary", "fallback"} /\ TaskOk(j)
  BY TaskTypes
<1>3. Idle \in T /\ Idle.op = "idle" /\ Idle.modes = <<>>
  BY FailoverAssumption DEF Idle
<1>4. CASE \E e \in {"ok", "connection", "http"} :
             /\ Return(j, e)
             /\ task[j].op = "call" /\ ~task[j].connected => e = r
  <2>1. PICK e \in {"ok", "connection", "http"} :
          /\ Return(j, e)
          /\ task[j].op = "call" /\ ~task[j].connected => e = r
    BY <1>4
  <2>2. result' = [result EXCEPT ![j] = e] /\ task' = [task EXCEPT ![j] = Idle]
    BY <2>1 DEF Return
  <2>3. task' \in [Tasks -> T] /\ result' \in [Tasks -> {None, "ok", "connection", "http"}]
    BY <1>1, <1>3, <2>2
  <2>4. /\ task'[j] = Idle /\ result'[j] = e
        /\ \A k \in Tasks \ {j} : task'[k] = task[k] /\ result'[k] = result[k]
    BY <1>1, <2>2
  <2>5. TaskOk(j)'
    BY <2>4, <1>3 DEF TaskOk, IsInjective, Left, Contains, Idle
  <2>6. ProbeOk(j)'
    BY <2>4, <1>3 DEF ProbeOk
  <2> QED
    BY <1>3, <2>1, <2>3, <2>4, <2>5, <2>6
<1>5. CASE \E c \in BOOLEAN : /\ ToFallback(j, c) /\ task[j].side = "primary"
                              /\ task[j].op = "call" => r = "connection" /\ c = FALSE
  <2>1. PICK c \in BOOLEAN : /\ ToFallback(j, c) /\ task[j].side = "primary"
                             /\ task[j].op = "call" => r = "connection" /\ c = FALSE
    BY <1>5
  <2> DEFINE t == [op |-> task[j].op, side |-> "fallback", modes |-> <<>>, connected |-> c]
  <2>2. result' = result /\ task' = [task EXCEPT ![j] = t]
    BY <2>1 DEF ToFallback
  <2>3. t \in T /\ t.op = task[j].op /\ t.side = "fallback" /\ t.modes = <<>> /\ t.connected = c
    BY <1>1, FailoverAssumption
  <2> HIDE DEF t
  <2>4. task' \in [Tasks -> T] /\ result' \in [Tasks -> {None, "ok", "connection", "http"}]
    BY <1>1, <2>2, <2>3
  <2>5. task'[j] = t /\ \A k \in Tasks \ {j} : task'[k] = task[k]
    BY <1>1, <2>2
  <2>6. TaskOk(j)'
    <3>1. IsInjective(<<>>) /\ \A m : ~Contains(<<>>, m)
      BY DEF IsInjective, Contains
    <3> QED
      BY <1>2, <2>2, <2>3, <2>5, <3>1 DEF TaskOk, Left
  <2>7. ProbeOk(j)'
    BY <2>3, <2>5 DEF ProbeOk
  <2> QED
    BY <2>1, <2>2, <2>3, <2>4, <2>5, <2>6, <2>7
<1>6. CASE task[j].side = "primary"
  <2> USE <1>4, <1>5, <1>6 DEF SideReturns, IsConnectionError
  <2>1. CASE task[j].op = "call"
    <3>1. IF r = "connection" THEN ToFallback(j, FALSE) ELSE Return(j, r)
      BY <2>1
    <3> QED BY <2>1, <3>1
  <2>2. CASE task[j].op = "health"
    <3>1. IF r = "ok" THEN Return(j, r) ELSE ToFallback(j, FALSE)
      BY <2>2
    <3> QED BY <2>2, <3>1
  <2>3. CASE task[j].op = "connect"
    <3>1. ToFallback(j, r = "ok")
      BY <2>3
    <3> QED BY <2>3, <3>1
  <2>4. CASE task[j].op \notin {"call", "health", "connect"}
    <3>1. ToFallback(j, FALSE)
      BY <2>4
    <3> QED BY <2>4, <3>1
  <2> QED BY <2>1, <2>2, <2>3, <2>4
<1>7. CASE task[j].side = "fallback"
  <2>1. Return(j, IF task[j].connected THEN "ok" ELSE r)
    BY <1>7 DEF SideReturns
  <2> QED BY <2>1, <1>4
<1> QED
  BY <1>2, <1>6, <1>7

LEMMA StepDone ==
  ASSUME IInv, NEW j \in Tasks, Alone(j), TypeOK', PreferredKnown', ConnectedIsOpen', TaskOk(j)',
         \A k \in Tasks : ProbeOk(k)', j \in Calls => CallOk(j)' /\ HistoryOk(j)'
  PROVE  IInv'
BY OthersOk DEF IInv

\* The other connects, when no side changes.
LEMMA ProbesKept ==
  ASSUME IInv, NEW j \in Tasks, Alone(j), UNCHANGED <<event_tx, overtaken>>, ProbeOk(j)'
  PROVE  \A k \in Tasks : ProbeOk(k)'
BY DEF IInv, Alone, ProbeOk

\* A post a call makes.
LEMMA Recording ==
  ASSUME IInv, NEW j \in Tasks, Posting(j), task[j].op = "call" <=> j \in Calls,
         NEW executed \in BOOLEAN, NEW answered \in BOOLEAN, Recorded(j, executed, answered)
  PROVE  /\ attempts' \in [Calls -> Seq(Sides \X (Modes \cup {"ws"}))]
         /\ executions' \in [Calls -> Nat] /\ lost' \in [Calls -> Nat]
         /\ Way(j) \in AllWays /\ Left(j, Way(j))
         /\ \A q \in Calls \ {j} : /\ attempts'[q] = attempts[q]
                                   /\ executions'[q] = executions[q] /\ lost'[q] = lost[q]
         /\ j \in Calls =>
              /\ IsInjective(attempts'[j])
              /\ \A s \in Sides, m \in AllWays :
                   Made(j, s, m)' <=> Made(j, s, m) \/ (s = task[j].side /\ m = Way(j))
              /\ executions'[j] = lost'[j] + (IF executed /\ answered THEN 1 ELSE 0)
<1>1. /\ task[j].modes \in Seq(AllWays) /\ task[j].modes # <<>> /\ task[j].side \in Sides
  BY TaskTypes DEF Posting
<1>2. /\ Way(j) \in AllWays /\ Left(j, Way(j))
  BY <1>1, HeadTailProperties DEF Way, Left, Contains
<1>3. /\ attempts \in [Calls -> Seq(Sides \X AllWays)]
      /\ executions \in [Calls -> Nat] /\ lost \in [Calls -> Nat]
  BY DEF IInv, TypeOK, AllWays
<1>4. CASE j \notin Calls
  BY <1>2, <1>3, <1>4 DEF Recorded, AllWays
<1>5. CASE j \in Calls
  <2> DEFINE e == <<task[j].side, Way(j)>>  old == attempts[j]
  <2>1. attempts' = [attempts EXCEPT ![j] = Append(old, e)]
    BY <1>5 DEF Recorded
  <2>2. /\ executions' = [executions EXCEPT ![j] = IF executed THEN executions[j] + 1 ELSE executions[j]]
        /\ lost' = [lost EXCEPT ![j] = IF executed /\ ~answered THEN lost[j] + 1 ELSE lost[j]]
    BY <1>5 DEF Recorded
  <2>3. task[j].op = "call" /\ CallOk(j) /\ HistoryOk(j) /\ result[j] = None
    BY <1>5, TaskTypes
  <2>4. /\ e \in Sides \X AllWays /\ old \in Seq(Sides \X AllWays)
    BY <1>1, <1>2, <1>3, <1>5
  <2>5. ~Contains(old, e) /\ IsInjective(old)
    BY <1>2, <2>3 DEF CallOk, HistoryOk, Made
  <2> HIDE DEF e, old
  <2>6. /\ Append(old, e) \in Seq(Sides \X AllWays) /\ Len(Append(old, e)) = Len(old) + 1
        /\ \A i \in 1..Len(old) : Append(old, e)[i] = old[i]
        /\ Append(old, e)[Len(old) + 1] = e /\ Len(old) \in Nat
    BY <2>4, AppendProperties
  <2>7. IsInjective(Append(old, e))
    <3>1. DOMAIN Append(old, e) = 1..(Len(old) + 1) /\ DOMAIN old = 1..Len(old)
      BY <2>4, <2>6
    <3>2. \A i \in 1..Len(old) : old[i] # e
      BY <2>5 DEF Contains
    <3>3. \A i, k \in 1..Len(old) : old[i] = old[k] => i = k
      BY <2>5, <3>1 DEF IsInjective
    <3> QED
      BY <2>6, <3>1, <3>2, <3>3 DEF IsInjective
  <2>8. \A x : Contains(Append(old, e), x) <=> Contains(old, x) \/ x = e
    BY <2>6 DEF Contains
  <2>9. attempts'[j] = Append(old, e) /\ \A q \in Calls \ {j} : attempts'[q] = attempts[q]
    BY <1>3, <1>5, <2>1
  <2>10. \A s \in Sides, m \in AllWays :
           Made(j, s, m)' <=> Made(j, s, m) \/ (s = task[j].side /\ m = Way(j))
    <3> TAKE s \in Sides, m \in AllWays
    <3>1. <<s, m>> = e <=> s = task[j].side /\ m = Way(j)
      BY DEF e
    <3>2. Made(j, s, m) <=> Contains(old, <<s, m>>)
      BY DEF Made, old
    <3>3. Made(j, s, m)' <=> Contains(Append(old, e), <<s, m>>)
      BY <2>9 DEF Made
    <3> QED BY <2>8, <3>1, <3>2, <3>3
  <2>11. attempts' \in [Calls -> Seq(Sides \X AllWays)]
    BY <1>3, <2>1, <2>6
  <2>12. /\ executions' \in [Calls -> Nat] /\ lost' \in [Calls -> Nat]
         /\ executions'[j] = IF executed THEN executions[j] + 1 ELSE executions[j]
         /\ lost'[j] = IF executed /\ ~answered THEN lost[j] + 1 ELSE lost[j]
         /\ \A q \in Calls \ {j} : executions'[q] = executions[q] /\ lost'[q] = lost[q]
    BY <1>3, <1>5, <2>2
  <2>13. executions[j] = lost[j] /\ lost[j] \in Nat
    <3>1. result[j] # "ok"
      BY <2>3, FailoverAssumption
    <3> QED BY <1>3, <1>5, <2>3, <3>1 DEF HistoryOk
  <2>14. executions'[j] = lost'[j] + (IF executed /\ answered THEN 1 ELSE 0)
    BY <2>12, <2>13
  <2> QED
    BY <1>2, <1>5, <2>7, <2>9, <2>10, <2>11, <2>12, <2>14 DEF AllWays
<1> QED
  BY <1>4, <1>5

\* What came of a call at a side.
LEMMA Meeting ==
  ASSUME IInv, NEW j \in Tasks, NEW f \in {"rejected", "unreachable", "reached"}, Met(j, f)
  PROVE  /\ fate' \in [Calls -> [Sides -> {None, "rejected", "unreachable", "reached"}]]
         /\ \A q \in Calls \ {j} : fate'[q] = fate[q]
         /\ j \in Calls =>
              /\ \A s \in Sides \ {task[j].side} : fate'[j][s] = fate[j][s]
              /\ fate'[j][task[j].side] \in {f, "reached"}
              /\ fate[j][task[j].side] = None => fate'[j][task[j].side] = f
<1> DEFINE s == task[j].side  F == [Sides -> {None, "rejected", "unreachable", "reached"}]
<1>1. fate \in [Calls -> F] /\ s \in Sides
  BY TaskTypes DEF IInv, TypeOK
<1>2. CASE j \notin Calls
  BY <1>1, <1>2 DEF Met
<1>3. CASE j \in Calls
  <2> DEFINE g == IF fate[j][s] = "reached" THEN fate[j][s] ELSE f
  <2>1. fate' = [fate EXCEPT ![j] = [fate[j] EXCEPT ![s] = g]]
    BY <1>1, <1>3 DEF Met
  <2>2. g \in {f, "reached"} /\ (fate[j][s] = None => g = f)
    BY FailoverAssumption
  <2>3. fate[j] \in F
    BY <1>1, <1>3
  <2> HIDE DEF g, s
  <2>4. /\ [fate[j] EXCEPT ![s] = g] \in F /\ [fate[j] EXCEPT ![s] = g][s] = g
        /\ \A x \in Sides \ {s} : [fate[j] EXCEPT ![s] = g][x] = fate[j][x]
    BY <1>1, <2>2, <2>3
  <2>5. /\ fate'[j] = [fate[j] EXCEPT ![s] = g] /\ fate' \in [Calls -> F]
        /\ \A q \in Calls \ {j} : fate'[q] = fate[q]
    BY <1>1, <1>3, <2>1, <2>4
  <2> QED
    BY <2>2, <2>4, <2>5 DEF s
<1> QED
  BY <1>2, <1>3

-----------------------------------------------------------------------------
(* The actions *)

LEMMA InitIInv == Init => IInv
<1> SUFFICES ASSUME Init PROVE IInv
  OBVIOUS
<1>1. TypeOK
  BY FailoverAssumption DEF Init, TypeOK, OfficialInit, OfficialTypeOK, States, Idle, Tasks
<1>2. IsInjective(<<>>) /\ \A m : ~Contains(<<>>, m)
  BY DEF IsInjective, Contains
<1>3. \A j \in Tasks : TaskOk(j) /\ ProbeOk(j)
  BY <1>2 DEF Init, TaskOk, ProbeOk, Idle, Left
<1>4. \A q \in Calls : q \in Tasks /\ CallOk(q)
  BY DEF Init, CallOk, Idle, Tasks
<1>5. ASSUME NEW q \in Calls PROVE HistoryOk(q)
  <2>1. /\ attempts[q] = <<>> /\ executions[q] = 0 /\ lost[q] = 0 /\ result[q] = None
        /\ \A s \in Sides : fate[q][s] = None
    BY <1>4 DEF Init
  <2>2. \A s, m : ~Made(q, s, m)
    BY <1>2, <2>1 DEF Made
  <2> QED
    BY <1>2, <2>1, <2>2, FailoverAssumption DEF HistoryOk
<1> QED
  BY <1>1, <1>3, <1>4, <1>5 DEF Init, OfficialInit, IInv, PreferredKnown, ConnectedIsOpen

LEMMA StartStep ==
  ASSUME IInv, NEW j \in Tasks, NEW op \in {"call", "connect", "disconnect", "health"}, Start(j, op)
  PROVE  IInv'
<1>1. /\ task[j].op = "idle" /\ result[j] = None /\ (op = "call" <=> j \in Calls)
      /\ task' = [task EXCEPT ![j].op = op]
      /\ UNCHANGED <<officialVars, kind, result, historyVars>>
  BY DEF Start
<1> DEFINE t == [task[j] EXCEPT !.op = op]
<1>2. task[j] = Idle /\ TaskOk(j)
  BY <1>1, TaskTypes DEF TaskOk
<1>3. /\ t \in [op : {"idle", "call", "connect", "disconnect", "health"}, side : Sides,
                modes : Seq(Modes \cup {"ws"}), connected : BOOLEAN]
      /\ t.op = op /\ t.side = "primary" /\ t.modes = <<>> /\ t.connected = FALSE
  <2>1. Idle.side = "primary" /\ Idle.modes = <<>> /\ Idle.connected = FALSE
    BY DEF Idle
  <2>2. task[j] \in [op : {"idle", "call", "connect", "disconnect", "health"}, side : Sides,
                     modes : Seq(Modes \cup {"ws"}), connected : BOOLEAN]
    BY DEF IInv, TypeOK
  <2> QED
    BY <1>2, <2>1, <2>2
<1>4. task' = [task EXCEPT ![j] = t]
  BY <1>1
<1> HIDE DEF t
<1>5. Alone(j)
  BY <1>1, <1>4 DEF Alone, historyVars, IInv, TypeOK
<1>6. TypeOK' /\ task'[j] = t
  <2>1. /\ task' \in [Tasks -> [op : {"idle", "call", "connect", "disconnect", "health"}, side : Sides,
                                modes : Seq(Modes \cup {"ws"}), connected : BOOLEAN]]
        /\ task'[j] = t
    BY <1>3, <1>4 DEF IInv, TypeOK
  <2> QED
    BY <1>1, <2>1 DEF IInv, TypeOK, OfficialTypeOK, officialVars, historyVars
<1>7. IsInjective(<<>>) /\ \A m : ~Contains(<<>>, m)
  BY DEF IsInjective, Contains
<1>8. TaskOk(j)' /\ ProbeOk(j)'
  BY <1>1, <1>3, <1>6, <1>7 DEF TaskOk, ProbeOk, Left
<1>9. j \in Calls => CallOk(j)' /\ HistoryOk(j)'
  <2> SUFFICES ASSUME j \in Calls PROVE CallOk(j)' /\ HistoryOk(j)'
    OBVIOUS
  <2>1. HistoryOk(j) /\ attempts[j] = <<>> /\ \A s \in Sides : fate[j][s] = None
    BY <1>1 DEF IInv, HistoryOk
  <2>2. \A s, m : ~Made(j, s, m)'
    BY <1>1, <1>7, <2>1 DEF Made, historyVars
  <2>3. CallOk(j)'
    <3>1. /\ task'[j].side = "primary" /\ task'[j].connected = FALSE /\ task'[j].modes = <<>>
          /\ fate' = fate /\ "primary" \in Sides /\ "fallback" \in Sides /\ "primary" # "fallback"
      BY <1>1, <1>3, <1>6, FailoverAssumption DEF historyVars
    <3> QED BY <2>1, <2>2, <3>1 DEF CallOk
  <2>4. HistoryOk(j)'
    BY <1>1, <1>6, <2>1, <2>2, FailoverAssumption DEF HistoryOk, historyVars
  <2> QED BY <2>3, <2>4
<1>10. PreferredKnown' /\ ConnectedIsOpen'
  BY <1>1 DEF IInv, PreferredKnown, ConnectedIsOpen, officialVars, historyVars
<1>11. UNCHANGED <<event_tx, overtaken>>
  BY <1>1 DEF officialVars, historyVars
<1> QED
  BY <1>5, <1>6, <1>8, <1>9, <1>10, <1>11, StepDone, ProbesKept

\* A side that is not Connected: the primary's call goes on to the fallback.
LEMMA RejectStep ==
  ASSUME IInv, NEW j \in Tasks, Reject(j)
  PROVE  IInv'
<1>1. /\ task[j].op \in {"call", "health"} /\ task[j].modes = <<>>
      /\ SideReturns(j, "connection") /\ Met(j, "rejected")
      /\ UNCHANGED <<officialVars, kind, attempts, executions, lost, overtaken>>
  BY DEF Reject, AtSide
<1>2. /\ task' \in [Tasks -> [op : {"idle", "call", "connect", "disconnect", "health"}, side : Sides,
                              modes : Seq(Modes \cup {"ws"}), connected : BOOLEAN]]
      /\ result' \in [Tasks -> {None, "ok", "connection", "http"}]
      /\ \A k \in Tasks \ {j} : task'[k] = task[k] /\ result'[k] = result[k]
      /\ TaskOk(j)' /\ ProbeOk(j)' /\ task'[j].modes = <<>>
  BY <1>1, Answered
<1>3. TypeOK' /\ Alone(j)
  BY <1>1, <1>2, Meeting DEF IInv, TypeOK, OfficialTypeOK, officialVars, Alone
<1>4. j \in Calls => CallOk(j)' /\ HistoryOk(j)'
  <2> SUFFICES ASSUME j \in Calls PROVE CallOk(j)' /\ HistoryOk(j)'
    OBVIOUS
  <2>1. task[j].op = "call" /\ CallOk(j) /\ HistoryOk(j) /\ result[j] = None /\ ~task[j].connected
    BY <1>1, TaskTypes DEF TaskOk, CallOk
  <2>2. \A m \in AllWays : ~Made(j, task[j].side, m)
    BY <1>1, <2>1 DEF CallOk
  <2>3. \A s, m : Made(j, s, m)' <=> Made(j, s, m)
    BY <1>1 DEF Made
  <2>4. \/ task'[j] = Idle /\ result'[j] = "connection"
        \/ /\ task'[j].op = "call" /\ task'[j].side = "fallback" /\ ~task'[j].connected
           /\ task[j].side = "primary" /\ result'[j] = result[j]
    BY <1>1, <2>1, Answered
  <2>5. /\ fate'[j][task[j].side] = "rejected" /\ task[j].side \in {"primary", "fallback"}
        /\ \A s \in Sides \ {task[j].side} : fate'[j][s] = fate[j][s]
        /\ Sides = {"primary", "fallback"} /\ "rejected" # None
    BY <1>1, <2>1, Meeting, TaskTypes, FailoverAssumption DEF CallOk
  <2>6. CASE task'[j] = Idle /\ result'[j] = "connection"
    <3>1. task'[j].op = "idle" /\ CallOk(j)'
      BY <2>6 DEF CallOk, Idle
    <3>2. task[j].side = "fallback"
      <4>1. ASSUME task[j].side = "primary" PROVE FALSE
        <5>1. ToFallback(j, FALSE)
          BY <1>1, <2>1, <4>1 DEF SideReturns, IsConnectionError
        <5>2. result'[j] = None
          BY <2>1, <5>1 DEF ToFallback
        <5> QED BY <2>6, <5>2, FailoverAssumption
      <4> QED BY <2>5, <4>1
    <3>3. FailedOver(j)'
      BY <1>1, <2>1, <2>5, <3>2 DEF CallOk, FailedOver
    <3>4. HistoryOk(j)'
      BY <1>1, <2>1, <2>3, <2>6, <3>1, <3>3, FailoverAssumption DEF HistoryOk
    <3> QED BY <3>1, <3>4
  <2>7. CASE /\ task'[j].op = "call" /\ task'[j].side = "fallback" /\ ~task'[j].connected
             /\ task[j].side = "primary" /\ result'[j] = result[j]
    <3>1. fate'[j]["primary"] = "rejected" /\ fate'[j]["fallback"] = None
      BY <2>1, <2>5, <2>7 DEF CallOk
    <3>2. CallOk(j)'
      BY <1>1, <1>2, <2>1, <2>2, <2>3, <2>7, <3>1 DEF CallOk
    <3>3. HistoryOk(j)'
      BY <1>1, <2>1, <2>3, <2>7, FailoverAssumption DEF HistoryOk
    <3> QED BY <3>2, <3>3
  <2> QED BY <2>4, <2>6, <2>7
<1>5. PreferredKnown' /\ ConnectedIsOpen' /\ UNCHANGED <<event_tx, overtaken>>
  BY <1>1 DEF IInv, PreferredKnown, ConnectedIsOpen, officialVars
<1> QED
  BY <1>2, <1>3, <1>4, <1>5, StepDone, ProbesKept

LEMMA DiscoverStep ==
  ASSUME IInv, NEW j \in Tasks, Discover(j)
  PROVE  IInv'
<1> DEFINE s == task[j].side  w == Ways(s)
<1>1. /\ task[j].op \in {"call", "health"} /\ task[j].modes = <<>>
      /\ task' = [task EXCEPT ![j].modes = w]
      /\ UNCHANGED <<officialVars, kind, result, historyVars>>
  BY DEF Discover, AtSide
<1>2. s \in Sides /\ TaskOk(j)
  BY TaskTypes
<1>3. /\ w \in Seq(AllWays) /\ w # <<>> /\ IsInjective(w)
      /\ kind[s] = "official" => \A m \in AllWays : Contains(w, m) <=> Known(s, m)
  <2>1. CASE kind[s] = "official"
    BY <1>2, <2>1, Candidates, SeqMonotonic DEF Ways, AllWays
  <2>2. CASE kind[s] # "official"
    BY <2>2 DEF Ways, AllWays, IsInjective
  <2> QED BY <2>1, <2>2
<1> HIDE DEF w
<1>4. /\ TypeOK' /\ Alone(j) /\ task'[j].modes = w /\ task'[j].side = task[j].side
      /\ task'[j].op = task[j].op /\ task'[j].connected = task[j].connected
  <2>1. /\ w \in Seq(Modes \cup {"ws"})
        /\ task \in [Tasks -> [op : {"idle", "call", "connect", "disconnect", "health"}, side : Sides,
                                modes : Seq(Modes \cup {"ws"}), connected : BOOLEAN]]
    BY <1>3 DEF IInv, TypeOK, AllWays
  <2>2. /\ Alone(j) /\ task'[j].modes = w /\ task'[j].side = task[j].side
        /\ task'[j].op = task[j].op /\ task'[j].connected = task[j].connected
    <3>1. task' = [task EXCEPT ![j] = [task[j] EXCEPT !.modes = w]]
      BY <1>1
    <3>2. task'[j] = [task[j] EXCEPT !.modes = w] /\ \A k \in Tasks \ {j} : task'[k] = task[k]
      BY <2>1, <3>1
    <3>3. DOMAIN task[j] = {"op", "side", "modes", "connected"}
      BY <2>1
    <3>4. Alone(j)
      BY <1>1, <3>2 DEF Alone, historyVars
    <3> QED
      BY <3>2, <3>3, <3>4
  <2>3. task' \in [Tasks -> [op : {"idle", "call", "connect", "disconnect", "health"}, side : Sides,
                             modes : Seq(Modes \cup {"ws"}), connected : BOOLEAN]]
    BY <1>1, <2>1
  <2>4. TypeOK'
    BY <1>1, <2>3 DEF IInv, TypeOK, OfficialTypeOK, officialVars, historyVars
  <2> QED
    BY <2>2, <2>4
<1>5. TaskOk(j)' /\ ProbeOk(j)'
  BY <1>1, <1>2, <1>3, <1>4 DEF TaskOk, ProbeOk, Left
<1>6. j \in Calls => CallOk(j)' /\ HistoryOk(j)'
  <2> SUFFICES ASSUME j \in Calls PROVE CallOk(j)' /\ HistoryOk(j)'
    OBVIOUS
  <2>1. CallOk(j) /\ HistoryOk(j) /\ task[j].op = "call"
    BY <1>1, <1>2 DEF IInv, TaskOk
  <2>2. \A x, m : (Made(j, x, m)' <=> Made(j, x, m)) /\ (Left(j, m)' <=> Contains(w, m))
    BY <1>1, <1>4 DEF Made, Left, historyVars
  <2>3. CallOk(j)'
    BY <1>1, <1>2, <1>3, <1>4, <2>1, <2>2 DEF CallOk, historyVars
  <2>4. HistoryOk(j)'
    BY <1>1, <1>4, <2>1, <2>2 DEF HistoryOk, FailedOver, historyVars
  <2> QED BY <2>3, <2>4
<1>7. PreferredKnown' /\ ConnectedIsOpen' /\ UNCHANGED <<event_tx, overtaken>>
  BY <1>1 DEF IInv, PreferredKnown, ConnectedIsOpen, officialVars, historyVars
<1> QED
  BY <1>4, <1>5, <1>6, <1>7, StepDone, ProbesKept

\* Nothing is at stake for a task that performs no call.
LEMMA NoCall ==
  ASSUME IInv, NEW j \in Tasks, task[j].op \notin {"idle", "call"}
  PROVE  j \notin Calls
BY TaskTypes DEF TaskOk

LEMMA ProbeStep ==
  ASSUME IInv, NEW j \in Tasks, Probe(j)
  PROVE  IInv'
<1> DEFINE s == task[j].side  w == CandidateModes(s)
<1>1. /\ task[j].op = "connect" /\ task[j].modes = <<>> /\ kind[s] = "official"
      /\ state' = [state EXCEPT ![s] = "Connecting"] /\ event_tx' = [event_tx EXCEPT ![s] = TRUE]
      /\ overtaken' = overtaken \ {s}
      /\ task' = [task EXCEPT ![j].modes = w]
      /\ UNCHANGED <<preferred_mode, self_id, kind, result, attempts, executions, lost, fate>>
  BY DEF Probe, AtSide, ConnectBegin
<1>2. s \in Sides /\ TaskOk(j) /\ j \notin Calls
  BY <1>1, TaskTypes, NoCall
<1>3. /\ w \in Seq(AllWays) /\ w # <<>> /\ IsInjective(w)
      /\ \A m \in AllWays : Contains(w, m) <=> Known(s, m)
  BY <1>2, Candidates, SeqMonotonic DEF AllWays
<1> HIDE DEF w
<1>4. /\ Alone(j) /\ task'[j].modes = w /\ task'[j].side = task[j].side
      /\ task'[j].op = task[j].op /\ task'[j].connected = task[j].connected
      /\ task' \in [Tasks -> [op : {"idle", "call", "connect", "disconnect", "health"}, side : Sides,
                              modes : Seq(Modes \cup {"ws"}), connected : BOOLEAN]]
  <2>1. task \in [Tasks -> [op : {"idle", "call", "connect", "disconnect", "health"}, side : Sides,
                            modes : Seq(Modes \cup {"ws"}), connected : BOOLEAN]]
    BY DEF IInv, TypeOK
  <2>2. w \in Seq(Modes \cup {"ws"})
    BY <1>3 DEF AllWays
  <2>3. /\ task' = [task EXCEPT ![j] = task'[j]] /\ task'[j] = [task[j] EXCEPT !.modes = w]
    BY <1>1, <2>1
  <2>4. task'[j] \in [op : {"idle", "call", "connect", "disconnect", "health"}, side : Sides,
                      modes : Seq(Modes \cup {"ws"}), connected : BOOLEAN]
    BY <2>1, <2>2, <2>3
  <2>5. /\ task'[j].modes = w /\ task'[j].side = task[j].side
        /\ task'[j].op = task[j].op /\ task'[j].connected = task[j].connected
    BY <2>1, <2>3
  <2>6. Alone(j)
    BY <1>1, <2>1 DEF Alone
  <2> QED BY <2>1, <2>3, <2>4, <2>5, <2>6
<1>5. /\ event_tx'[s] = TRUE /\ state'[s] = "Connecting"
      /\ \A x \in Sides \ {s} : event_tx'[x] = event_tx[x] /\ state'[x] = state[x]
      /\ event_tx' \in [Sides -> BOOLEAN] /\ state' \in [Sides -> States]
  BY <1>1, <1>2 DEF IInv, TypeOK, OfficialTypeOK, States
<1>6. TypeOK'
  BY <1>1, <1>4, <1>5 DEF IInv, TypeOK, OfficialTypeOK
<1>7. TaskOk(j)'
  BY <1>1, <1>2, <1>3, <1>4 DEF TaskOk, Left
<1>8. \A k \in Tasks : ProbeOk(k)'
  <2> TAKE k \in Tasks
  <2>1. ProbeOk(k) /\ task[k].side \in Sides
    BY TaskTypes
  <2>2. CASE k = j
    BY <1>1, <1>4, <1>5, <2>2 DEF ProbeOk
  <2>3. CASE k # j
    BY <1>1, <1>4, <1>5, <2>1, <2>3 DEF ProbeOk, Alone
  <2> QED BY <2>2, <2>3
<1>9. PreferredKnown' /\ ConnectedIsOpen'
  BY <1>1, <1>5 DEF IInv, PreferredKnown, ConnectedIsOpen
<1> QED
  BY <1>2, <1>4, <1>6, <1>7, <1>8, <1>9, StepDone

\* A side that is closed while a connect probes it is overtaken.
LEMMA DisconnectStep ==
  ASSUME IInv, NEW j \in Tasks, DisconnectSide(j)
  PROVE  IInv'
<1> DEFINE s == task[j].side
<1>1. /\ task[j].op = "disconnect" /\ task[j].modes = <<>>
      /\ state' = [state EXCEPT ![s] = "Disconnected"] /\ event_tx' = [event_tx EXCEPT ![s] = FALSE]
      /\ overtaken' = IF Probing(s) THEN overtaken \cup {s} ELSE overtaken
      /\ SideReturns(j, "ok")
      /\ UNCHANGED <<preferred_mode, self_id, kind, attempts, executions, lost, fate>>
  BY DEF DisconnectSide, AtSide, Disconnect
<1>2. s \in Sides /\ j \notin Calls
  BY <1>1, TaskTypes, NoCall
<1>3. /\ task' \in [Tasks -> [op : {"idle", "call", "connect", "disconnect", "health"}, side : Sides,
                              modes : Seq(Modes \cup {"ws"}), connected : BOOLEAN]]
      /\ result' \in [Tasks -> {None, "ok", "connection", "http"}]
      /\ \A k \in Tasks \ {j} : task'[k] = task[k] /\ result'[k] = result[k]
      /\ TaskOk(j)' /\ ProbeOk(j)'
  BY <1>1, Answered
<1>4. /\ state'[s] = "Disconnected"
      /\ \A x \in Sides \ {s} : event_tx'[x] = event_tx[x] /\ state'[x] = state[x]
      /\ event_tx' \in [Sides -> BOOLEAN] /\ state' \in [Sides -> States]
      /\ overtaken' \subseteq Sides /\ overtaken \subseteq overtaken'
  BY <1>1, <1>2 DEF IInv, TypeOK, OfficialTypeOK, States
<1>5. TypeOK' /\ Alone(j)
  BY <1>1, <1>3, <1>4 DEF IInv, TypeOK, OfficialTypeOK, Alone
<1>6. \A k \in Tasks : ProbeOk(k)'
  <2> TAKE k \in Tasks
  <2>1. CASE k = j
    BY <1>3, <2>1
  <2>2. CASE k # j
    <3>1. ProbeOk(k) /\ TaskOk(k) /\ task[k].side \in Sides /\ task'[k] = task[k]
      BY <1>3, <2>2, TaskTypes
    <3> SUFFICES ASSUME task[k].op = "connect", task[k].modes # <<>>, task[k].side = s
                 PROVE  s \in overtaken'
      BY <1>1, <1>4, <3>1 DEF ProbeOk
    <3>2. k \in Admins
      BY <3>1 DEF TaskOk, Tasks
    <3>3. Probing(s)
      BY <3>2 DEF Probing
    <3> QED BY <1>1, <3>3
  <2> QED BY <2>1, <2>2
<1>7. PreferredKnown' /\ ConnectedIsOpen'
  BY <1>1, <1>4 DEF IInv, PreferredKnown, ConnectedIsOpen
<1> QED
  BY <1>2, <1>3, <1>5, <1>6, <1>7, StepDone

LEMMA LagrangeConnectStep ==
  ASSUME IInv, NEW j \in Tasks, NEW r \in {"ok", "connection"}, LagrangeConnect(j, r)
  PROVE  IInv'
<1> DEFINE s == task[j].side
<1>1. /\ task[j].op = "connect" /\ kind[s] = "lagrange" /\ SideReturns(j, r)
      /\ state' = [state EXCEPT ![s] = IF r = "ok" THEN "Connected" ELSE "Connecting"]
      /\ event_tx' = [event_tx EXCEPT ![s] = TRUE]
      /\ UNCHANGED <<preferred_mode, self_id, kind, historyVars>>
  BY DEF LagrangeConnect, AtSide
<1>2. s \in Sides /\ j \notin Calls
  BY <1>1, TaskTypes, NoCall
<1>3. /\ task' \in [Tasks -> [op : {"idle", "call", "connect", "disconnect", "health"}, side : Sides,
                              modes : Seq(Modes \cup {"ws"}), connected : BOOLEAN]]
      /\ result' \in [Tasks -> {None, "ok", "connection", "http"}]
      /\ \A k \in Tasks \ {j} : task'[k] = task[k] /\ result'[k] = result[k]
      /\ TaskOk(j)' /\ ProbeOk(j)'
  BY <1>1, Answered
<1>4. /\ event_tx'[s] = TRUE
      /\ \A x \in Sides \ {s} : event_tx'[x] = event_tx[x] /\ state'[x] = state[x]
      /\ event_tx' \in [Sides -> BOOLEAN] /\ state' \in [Sides -> States]
  BY <1>1, <1>2 DEF IInv, TypeOK, OfficialTypeOK, States
<1>5. TypeOK' /\ Alone(j)
  BY <1>1, <1>3, <1>4 DEF IInv, TypeOK, OfficialTypeOK, Alone, historyVars
<1>6. \A k \in Tasks : ProbeOk(k)'
  <2> TAKE k \in Tasks
  <2>1. ProbeOk(k) /\ task[k].side \in Sides
    BY TaskTypes
  <2> QED
    BY <1>1, <1>3, <1>4, <2>1 DEF ProbeOk, historyVars
<1>7. PreferredKnown' /\ ConnectedIsOpen'
  BY <1>1, <1>4 DEF IInv, PreferredKnown, ConnectedIsOpen, historyVars
<1> QED
  BY <1>2, <1>3, <1>5, <1>6, <1>7, StepDone

LEMMA MonitorStep ==
  ASSUME IInv, NEW s \in Sides, LagrangeMonitor(s)
  PROVE  IInv'
<1>1. /\ kind[s] = "lagrange"
      /\ UNCHANGED <<event_tx, preferred_mode, self_id, kind, task, result, attempts, executions, lost, fate,
                     overtaken>>
      /\ state' = [state EXCEPT ![s] = "Reconnecting"] \/ state' = [state EXCEPT ![s] = "Connected"]
  BY DEF LagrangeMonitor, historyVars
<1>2. /\ state' \in [Sides -> States] /\ \A x \in Sides \ {s} : state'[x] = state[x]
  BY <1>1 DEF IInv, TypeOK, OfficialTypeOK, States
<1>3. TypeOK' /\ PreferredKnown' /\ ConnectedIsOpen'
  BY <1>1, <1>2 DEF IInv, TypeOK, OfficialTypeOK, PreferredKnown, ConnectedIsOpen
<1>4. \A j \in Tasks : TaskOk(j)' /\ ProbeOk(j)'
  BY <1>1 DEF IInv, TaskOk, ProbeOk, Left
<1>5. \A q \in Calls : CallOk(q)' /\ HistoryOk(q)'
  BY <1>1 DEF IInv, CallOk, HistoryOk, FailedOver, Left, Made
<1> QED
  BY <1>3, <1>4, <1>5 DEF IInv

\* What is left after a mode has been tried.
LEMMA TailLeft ==
  ASSUME IInv, NEW j \in Tasks, Posting(j), Len(task[j].modes) > 1
  PROVE  /\ Tail(task[j].modes) \in Seq(Modes \cup {"ws"}) /\ Tail(task[j].modes) # <<>>
         /\ IsInjective(Tail(task[j].modes))
         /\ \A m : Contains(Tail(task[j].modes), m) <=> Left(j, m) /\ m # Way(j)
<1> DEFINE w == task[j].modes
<1>1. w \in Seq(AllWays) /\ w # <<>> /\ IsInjective(w) /\ DOMAIN w = 1..Len(w) /\ Len(w) \in Nat
  BY TaskTypes DEF Posting, TaskOk
<1> HIDE DEF w
<1>2. /\ Tail(w) \in Seq(AllWays) /\ Len(Tail(w)) = Len(w) - 1
      /\ \A i \in 1..Len(Tail(w)) : Tail(w)[i] = w[i + 1]
  BY <1>1, HeadTailProperties
<1>3. Len(w) > 1 /\ Head(w) = w[1] /\ \A i, k \in 1..Len(w) : w[i] = w[k] => i = k
  BY <1>1 DEF IsInjective, w
<1>4. IsInjective(Tail(w))
  <2>1. DOMAIN Tail(w) = 1..(Len(w) - 1)
    BY <1>1, <1>2
  <2> QED
    BY <1>1, <1>2, <1>3, <2>1 DEF IsInjective
<1>5. ASSUME NEW m PROVE Contains(Tail(w), m) <=> Contains(w, m) /\ m # Head(w)
  <2>1. Contains(Tail(w), m) => Contains(w, m) /\ m # Head(w)
    <3> SUFFICES ASSUME NEW i \in 1..(Len(w) - 1), w[i + 1] = m PROVE Contains(w, m) /\ m # Head(w)
      BY <1>1, <1>2 DEF Contains
    <3>1. i + 1 \in 1..Len(w) /\ 1 \in 1..Len(w) /\ i + 1 # 1
      BY <1>1
    <3> QED BY <1>3, <3>1 DEF Contains
  <2>2. Contains(w, m) /\ m # Head(w) => Contains(Tail(w), m)
    <3> SUFFICES ASSUME NEW i \in 1..Len(w), w[i] = m, i # 1 PROVE Contains(Tail(w), m)
      BY <1>3 DEF Contains
    <3>1. i - 1 \in 1..Len(Tail(w)) /\ (i - 1) + 1 = i
      BY <1>1, <1>2
    <3>2. Tail(w)[i - 1] = m
      BY <1>2, <3>1
    <3> QED BY <3>1, <3>2 DEF Contains
  <2> QED BY <2>1, <2>2
<1>6. Tail(w) # <<>>
  <2>1. Len(Tail(w)) # 0
    BY <1>1, <1>2, <1>3
  <2> QED BY <1>2, <2>1, EmptySeq
<1>7. Tail(w) \in Seq(Modes \cup {"ws"})
  BY <1>2 DEF AllWays
<1>8. \A m : Contains(Tail(w), m) <=> Contains(w, m) /\ m # Head(w)
  BY <1>5
<1> QED
  BY <1>4, <1>6, <1>7, <1>8 DEF w, Left, Way

\* Of a single mode, none is left.
LEMMA LastLeft ==
  ASSUME IInv, NEW j \in Tasks, Posting(j), ~(Len(task[j].modes) > 1)
  PROVE  \A m : Left(j, m) => m = Way(j)
<1>1. task[j].modes \in Seq(AllWays) /\ task[j].modes # <<>> /\ Len(task[j].modes) \in Nat
  BY TaskTypes DEF Posting
<1> DEFINE w == task[j].modes
<1>2. Len(w) = 1
  <2> HIDE DEF w
  <2>1. w \in Seq(AllWays) /\ w # <<>> /\ ~(Len(w) > 1)
    BY <1>1 DEF w
  <2>2. Len(w) # 0
    BY <2>1, EmptySeq
  <2> QED BY <2>1, <2>2
<1> QED
  BY <1>1, <1>2 DEF Left, Way, Contains

\* The mode that is answered is one of the adapter's.
LEMMA Selected ==
  ASSUME IInv, NEW j \in Tasks, Posting(j), kind[task[j].side] = "official", NEW b \in BOOLEAN,
         Way(j) # "ws" \/ task[j].op # "connect", ModeSelected(task[j].side, Way(j), b)
  PROVE  PreferredKnown' /\ OfficialTypeOK' /\ UNCHANGED <<state, event_tx>>
<1>1. /\ preferred_mode' = [preferred_mode EXCEPT ![task[j].side] = Way(j)]
      /\ self_id' = [self_id EXCEPT ![task[j].side] = self_id[task[j].side] \/ b]
      /\ UNCHANGED <<state, event_tx>>
  BY DEF ModeSelected
<1>2. /\ task[j].modes \in Seq(AllWays) /\ task[j].modes # <<>> /\ task[j].side \in Sides /\ TaskOk(j)
  BY TaskTypes DEF Posting
<1>3. /\ Way(j) \in AllWays /\ Left(j, Way(j))
  BY <1>2, HeadTailProperties DEF Way, Left, Contains
<1>4. Known(task[j].side, Way(j))
  BY <1>2, <1>3 DEF TaskOk
<1>5. Way(j) \in Modes
  <2>1. OrderedModes(task[j].side) \in Seq(Modes)
    BY <1>2, Ordered
  <2> QED BY <1>4, <2>1 DEF Known, Contains
<1>6. preferred_mode' \in [Sides -> Modes \cup {None}] /\ PreferredKnown'
  BY <1>1, <1>2, <1>4, <1>5 DEF IInv, TypeOK, OfficialTypeOK, PreferredKnown, Known
<1>7. self_id' \in [Sides -> BOOLEAN]
  BY <1>1 DEF IInv, TypeOK, OfficialTypeOK
<1> QED
  BY <1>1, <1>6, <1>7 DEF IInv, TypeOK, OfficialTypeOK

LEMMA PostAnsweredStep ==
  ASSUME IInv, NEW j \in Tasks, NEW b \in BOOLEAN, PostAnswered(j, b)
  PROVE  IInv'
<1>1. /\ Posting(j) /\ task[j].op # "connect" /\ Recorded(j, TRUE, TRUE) /\ Met(j, "reached")
      /\ UNCHANGED <<kind, overtaken>>
      /\ IF kind[task[j].side] = "official" THEN ModeSelected(task[j].side, Way(j), b)
         ELSE UNCHANGED officialVars
  BY DEF PostAnswered
<1>2. TaskOk(j) /\ task[j].op # "idle" /\ (task[j].op = "call" <=> j \in Calls)
  <2>1. TaskOk(j)
    BY TaskTypes
  <2>2. Idle.modes = <<>>
    BY DEF Idle
  <2> QED BY <1>1, <2>1, <2>2 DEF TaskOk, Posting
<1>3. PICK r \in {"ok", "http"} : SideReturns(j, r) /\ (task[j].op = "call" => r = "ok")
  BY DEF PostAnswered
<1>4. /\ task' \in [Tasks -> [op : {"idle", "call", "connect", "disconnect", "health"}, side : Sides,
                              modes : Seq(Modes \cup {"ws"}), connected : BOOLEAN]]
      /\ result' \in [Tasks -> {None, "ok", "connection", "http"}]
      /\ \A k \in Tasks \ {j} : task'[k] = task[k] /\ result'[k] = result[k]
      /\ TaskOk(j)' /\ ProbeOk(j)'
  BY <1>1, <1>2, <1>3, Answered
<1>5. PreferredKnown' /\ OfficialTypeOK' /\ UNCHANGED <<state, event_tx>>
  <2>1. CASE kind[task[j].side] = "official"
    BY <1>1, <2>1, Selected
  <2>2. CASE kind[task[j].side] # "official"
    BY <1>1, <2>2 DEF officialVars, IInv, TypeOK, OfficialTypeOK, PreferredKnown
  <2> QED BY <2>1, <2>2
<1>6. /\ attempts' \in [Calls -> Seq(Sides \X (Modes \cup {"ws"}))]
      /\ executions' \in [Calls -> Nat] /\ lost' \in [Calls -> Nat]
      /\ \A q \in Calls \ {j} : /\ attempts'[q] = attempts[q]
                                /\ executions'[q] = executions[q] /\ lost'[q] = lost[q]
  BY <1>1, <1>2, Recording
<1>7. TypeOK' /\ Alone(j)
  BY <1>1, <1>4, <1>5, <1>6, Meeting DEF IInv, TypeOK, Alone
<1>8. j \in Calls => CallOk(j)' /\ HistoryOk(j)'
  <2> SUFFICES ASSUME j \in Calls PROVE CallOk(j)' /\ HistoryOk(j)'
    OBVIOUS
  <2>1. task[j].op = "call" /\ CallOk(j) /\ HistoryOk(j) /\ ~task[j].connected /\ task[j].side \in Sides
    BY <1>2, TaskTypes DEF CallOk
  <2>2. task'[j] = Idle /\ result'[j] = "ok" /\ Idle.op = "idle"
    BY <1>1, <1>2, <1>3, <2>1, Answered DEF Idle
  <2>3. /\ IsInjective(attempts'[j]) /\ executions'[j] = lost'[j] + 1
        /\ Way(j) \in AllWays
        /\ \A s \in Sides, m \in AllWays :
             Made(j, s, m)' <=> Made(j, s, m) \/ (s = task[j].side /\ m = Way(j))
    BY <1>1, <1>2, Recording
  <2>4. /\ "fallback" \in Sides /\ "primary" \in Sides
    BY FailoverAssumption
  <2>5. CallOk(j)'
    BY <2>2 DEF CallOk
  <2>6. FailedOver(j)'
    <3>1. CASE task[j].side = "primary"
      <4>1. fate'[j]["fallback"] = None
        BY <2>1, <2>4, <3>1, Meeting, <1>1 DEF CallOk
      <4> QED BY <2>2, <4>1 DEF FailedOver
    <3>2. CASE task[j].side = "fallback"
      <4>1. fate'[j]["primary"] = fate[j]["primary"]
        BY <2>1, <2>4, <3>2, Meeting, <1>1
      <4> QED BY <1>1, <2>1, <2>2, <3>2, <4>1 DEF CallOk, FailedOver
    <3> QED BY <2>1, <3>1, <3>2, FailoverAssumption
  <2>7. HistoryOk(j)'
    BY <1>1, <2>2, <2>3, <2>6, FailoverAssumption DEF HistoryOk
  <2> QED BY <2>5, <2>7
<1>9. ConnectedIsOpen'
  BY <1>1, <1>5 DEF IInv, ConnectedIsOpen
<1> QED
  BY <1>1, <1>4, <1>5, <1>7, <1>8, <1>9, StepDone, ProbesKept

LEMMA PostFailedStep ==
  ASSUME IInv, NEW j \in Tasks, NEW r \in BOOLEAN, NEW b \in BOOLEAN, PostFailed(j, r, b)
  PROVE  IInv'
<1> DEFINE T == [op : {"idle", "call", "connect", "disconnect", "health"}, side : Sides,
                 modes : Seq(Modes \cup {"ws"}), connected : BOOLEAN]
           e == IF kind[task[j].side] = "official" THEN "http" ELSE "connection"
           f == IF r THEN "reached" ELSE "unreachable"
<1>1. /\ Posting(j) /\ task[j].op # "connect" /\ Recorded(j, b, FALSE) /\ Met(j, f)
      /\ UNCHANGED <<state, event_tx, preferred_mode, self_id, kind, overtaken>>
  BY DEF PostFailed, officialVars
<1>2. /\ TaskOk(j) /\ task[j].op # "idle" /\ (task[j].op = "call" <=> j \in Calls)
      /\ task[j].side \in Sides
  <2>1. TaskOk(j) /\ task[j].side \in Sides
    BY TaskTypes
  <2>2. Idle.modes = <<>>
    BY DEF Idle
  <2> QED BY <1>1, <2>1, <2>2 DEF TaskOk, Posting
<1>3. /\ attempts' \in [Calls -> Seq(Sides \X (Modes \cup {"ws"}))]
      /\ executions' \in [Calls -> Nat] /\ lost' \in [Calls -> Nat]
      /\ \A q \in Calls \ {j} : /\ attempts'[q] = attempts[q]
                                /\ executions'[q] = executions[q] /\ lost'[q] = lost[q]
  BY <1>1, <1>2, Recording
<1>4. j \in Calls =>
        /\ task[j].op = "call" /\ CallOk(j) /\ HistoryOk(j) /\ ~task[j].connected /\ result[j] = None
        /\ IsInjective(attempts'[j]) /\ executions'[j] = lost'[j] /\ lost'[j] \in Nat
        /\ Way(j) \in AllWays /\ "fallback" \in Sides /\ "primary" \in Sides
        /\ \A s \in Sides, m \in AllWays :
             Made(j, s, m)' <=> Made(j, s, m) \/ (s = task[j].side /\ m = Way(j))
        /\ fate'[j][task[j].side] \in {"reached", "unreachable"}
        /\ \A s \in Sides \ {task[j].side} : fate'[j][s] = fate[j][s]
  <2> SUFFICES ASSUME j \in Calls
               PROVE  /\ task[j].op = "call" /\ CallOk(j) /\ HistoryOk(j) /\ ~task[j].connected
                      /\ result[j] = None
                      /\ IsInjective(attempts'[j]) /\ executions'[j] = lost'[j] /\ lost'[j] \in Nat
                      /\ Way(j) \in AllWays /\ "fallback" \in Sides /\ "primary" \in Sides
                      /\ \A s \in Sides, m \in AllWays :
                           Made(j, s, m)' <=> Made(j, s, m) \/ (s = task[j].side /\ m = Way(j))
                      /\ fate'[j][task[j].side] \in {"reached", "unreachable"}
                      /\ \A s \in Sides \ {task[j].side} : fate'[j][s] = fate[j][s]
    OBVIOUS
  <2>1. /\ task[j].op = "call" /\ CallOk(j) /\ HistoryOk(j) /\ ~task[j].connected /\ result[j] = None
        /\ "fallback" \in Sides /\ "primary" \in Sides
    BY <1>2, TaskTypes, FailoverAssumption DEF CallOk
  <2>2. /\ IsInjective(attempts'[j]) /\ executions'[j] = lost'[j] + 0
        /\ Way(j) \in AllWays
        /\ \A s \in Sides, m \in AllWays :
             Made(j, s, m)' <=> Made(j, s, m) \/ (s = task[j].side /\ m = Way(j))
    BY <1>1, <1>2, Recording
  <2>3. lost'[j] \in Nat
    BY <1>3
  <2>4. /\ fate'[j][task[j].side] \in {"reached", "unreachable"}
        /\ \A s \in Sides \ {task[j].side} : fate'[j][s] = fate[j][s]
    <3>1. f \in {"rejected", "unreachable", "reached"} /\ {f, "reached"} \subseteq {"reached", "unreachable"}
      OBVIOUS
    <3> QED BY <1>1, <3>1, Meeting
  <2> QED BY <2>1, <2>2, <2>3, <2>4
<1>5. PreferredKnown' /\ ConnectedIsOpen' /\ OfficialTypeOK'
  BY <1>1 DEF IInv, PreferredKnown, ConnectedIsOpen, TypeOK, OfficialTypeOK
<1>6. CASE Len(task[j].modes) > 1
  <2> DEFINE w == Tail(task[j].modes)
  <2>1. task' = [task EXCEPT ![j].modes = w] /\ result' = result
    BY <1>6 DEF PostFailed
  <2>2. /\ w \in Seq(Modes \cup {"ws"}) /\ w # <<>> /\ IsInjective(w)
        /\ \A m : Contains(w, m) <=> Left(j, m) /\ m # Way(j)
    BY <1>1, <1>6, TailLeft
  <2> HIDE DEF w
  <2>3. /\ task' \in [Tasks -> T]
        /\ task'[j].modes = w /\ task'[j].side = task[j].side
        /\ task'[j].op = task[j].op /\ task'[j].connected = task[j].connected
        /\ \A k \in Tasks \ {j} : task'[k] = task[k]
    <3>1. task \in [Tasks -> T]
      BY DEF IInv, TypeOK
    <3> QED
      BY <2>1, <2>2, <3>1
  <2>4. TypeOK' /\ Alone(j)
    BY <1>1, <1>3, <1>5, <2>1, <2>3, Meeting DEF IInv, TypeOK, Alone
  <2>5. \A m : Left(j, m)' <=> Left(j, m) /\ m # Way(j)
    BY <2>2, <2>3 DEF Left
  <2>6. TaskOk(j)' /\ ProbeOk(j)'
    BY <1>1, <1>2, <2>1, <2>2, <2>3, <2>5 DEF TaskOk, ProbeOk
  <2>7. j \in Calls => CallOk(j)' /\ HistoryOk(j)'
    <3> SUFFICES ASSUME j \in Calls PROVE CallOk(j)' /\ HistoryOk(j)'
      OBVIOUS
    <3>1. CallOk(j)'
      <4> SUFFICES ASSUME NEW m \in AllWays
                   PROVE  /\ Made(j, task[j].side, m)' => ~Left(j, m)'
                          /\ Made(j, "fallback", m)' => task[j].side = "fallback"
                          /\ kind[task[j].side] = "official" /\ Known(task[j].side, m) =>
                               Left(j, m)' \/ Made(j, task[j].side, m)'
        <5>1. task'[j].side = "primary" => fate'[j]["fallback"] = None
          BY <1>4, <2>3 DEF CallOk
        <5>2. task'[j].side = "fallback" => fate'[j]["primary"] = "rejected" \/ kind'["primary"] = "lagrange"
          BY <1>1, <1>4, <2>3 DEF CallOk
        <5> QED BY <1>1, <1>4, <2>2, <2>3, <5>1, <5>2 DEF CallOk
      <4>1. task[j].op = "call" /\ CallOk(j) /\ task[j].modes # <<>> /\ "fallback" \in Sides
            /\ "primary" \in Sides
        BY <1>1, <1>4 DEF Posting
      <4>2. \A s \in Sides : Made(j, s, m)' <=> Made(j, s, m) \/ (s = task[j].side /\ m = Way(j))
        BY <1>4
      <4>3. Left(j, m)' <=> Left(j, m) /\ m # Way(j)
        BY <2>5
      <4>4. Made(j, task[j].side, m)' => ~Left(j, m)'
        BY <1>2, <2>3, <4>1, <4>2, <4>3 DEF CallOk
      <4>5. Made(j, "fallback", m)' => task[j].side = "fallback"
        BY <4>1, <4>2 DEF CallOk
      <4>7. kind[task[j].side] = "official" /\ Known(task[j].side, m) =>
              Left(j, m)' \/ Made(j, task[j].side, m)'
        BY <1>2, <2>3, <4>1, <4>2, <4>3 DEF CallOk
      <4> QED BY <4>4, <4>5, <4>7
    <3>2. HistoryOk(j)'
      BY <1>1, <1>4, <2>1, <2>3, FailoverAssumption DEF HistoryOk
    <3> QED BY <3>1, <3>2
  <2> QED
    BY <1>1, <1>5, <2>4, <2>6, <2>7, StepDone, ProbesKept
<1>7. CASE ~(Len(task[j].modes) > 1)
  <2>1. SideReturns(j, e) /\ e \in {"http", "connection"}
    BY <1>7 DEF PostFailed
  <2>2. /\ task' \in [Tasks -> T] /\ result' \in [Tasks -> {None, "ok", "connection", "http"}]
        /\ \A k \in Tasks \ {j} : task'[k] = task[k] /\ result'[k] = result[k]
        /\ TaskOk(j)' /\ ProbeOk(j)' /\ task'[j].modes = <<>>
    BY <1>1, <1>2, <2>1, Answered
  <2>3. TypeOK' /\ Alone(j)
    BY <1>1, <1>3, <1>5, <2>2, Meeting DEF IInv, TypeOK, Alone
  <2>4. j \in Calls => CallOk(j)' /\ HistoryOk(j)'
    <3> SUFFICES ASSUME j \in Calls PROVE CallOk(j)' /\ HistoryOk(j)'
      OBVIOUS
    <3>1. \/ task'[j] = Idle /\ result'[j] = e
          \/ /\ task'[j].op = "call" /\ task'[j].side = "fallback" /\ ~task'[j].connected
             /\ e = "connection" /\ task[j].side = "primary" /\ result'[j] = result[j]
      BY <1>1, <1>2, <1>4, <2>1, Answered
    <3>2. kind[task[j].side] \in {"official", "lagrange"}
      BY <1>2 DEF IInv, TypeOK
    <3>3. \A m \in AllWays : Left(j, m) => m = Way(j)
      BY <1>1, <1>7, LastLeft
    <3>4. CASE task'[j] = Idle /\ result'[j] = e
      <4> PICK s \in Sides : s = task[j].side
        BY <1>2
      <4>1. ASSUME e = "http", NEW m \in Modes, Known(s, m)
            PROVE  Made(j, s, m)'
        <5>1. m \in AllWays /\ kind[task[j].side] = "official" /\ task[j].modes # <<>>
          BY <1>1, <3>2, <4>1 DEF AllWays, Posting
        <5>2. Left(j, m) \/ Made(j, s, m)
          BY <1>4, <4>1, <5>1 DEF CallOk
        <5>3. Made(j, s, m)' <=> Made(j, s, m) \/ m = Way(j)
          BY <1>4, <5>1
        <5> QED BY <3>3, <5>1, <5>2, <5>3
      <4>2. task'[j].op = "idle" /\ CallOk(j)'
        BY <3>4 DEF Idle, CallOk
      <4>3. HistoryOk(j)'
        <5>1. result'[j] = "http" => \E x \in Sides : \A m \in Modes : Known(x, m) => Made(j, x, m)'
          BY <3>4, <4>1
        <5>2. result'[j] # "ok" /\ result'[j] # None
          BY <2>1, <3>4, FailoverAssumption
        <5>3. FailedOver(j)'
          <6>1. CASE task[j].side = "primary"
            <7>1. kind["primary"] = "official"
              <8>1. ASSUME kind["primary"] # "official" PROVE FALSE
                <9>1. e = "connection" /\ ToFallback(j, FALSE)
                  BY <1>4, <2>1, <6>1, <8>1 DEF SideReturns, IsConnectionError
                <9>2. result'[j] = None
                  BY <1>4, <9>1 DEF ToFallback
                <9> QED BY <5>2, <9>2
              <8> QED BY <8>1
            <7> QED BY <1>1, <1>4, <6>1, <7>1, FailoverAssumption DEF FailedOver, CallOk
          <6>2. CASE task[j].side = "fallback"
            BY <1>1, <1>4, <6>2, FailoverAssumption DEF FailedOver, CallOk
          <6> QED BY <1>2, <6>1, <6>2, FailoverAssumption
        <5> QED BY <1>1, <1>4, <5>1, <5>2, <5>3 DEF HistoryOk, Known
      <4> QED BY <4>2, <4>3
    <3>5. CASE /\ task'[j].op = "call" /\ task'[j].side = "fallback" /\ ~task'[j].connected
               /\ e = "connection" /\ task[j].side = "primary" /\ result'[j] = result[j]
      <4>1. kind["primary"] = "lagrange"
        BY <3>2, <3>5
      <4>2. \A m \in AllWays : ~Made(j, "fallback", m)'
        BY <1>4, <3>5 DEF CallOk
      <4>3. CallOk(j)'
        BY <1>1, <1>4, <2>2, <3>5, <4>1, <4>2 DEF CallOk
      <4>4. HistoryOk(j)'
        BY <1>1, <1>4, <3>5, FailoverAssumption DEF HistoryOk
      <4> QED BY <4>3, <4>4
    <3> QED BY <3>1, <3>4, <3>5
  <2> QED
    BY <1>1, <1>5, <2>2, <2>3, <2>4, StepDone, ProbesKept
<1> QED
  BY <1>6, <1>7

\* The probe of a connect, one mode further or at its end.
LEMMA ProbeGoesOn ==
  ASSUME IInv, NEW j \in Tasks, NEW w \in Seq(Modes \cup {"ws"}), task[j].op = "connect",
         task[j].modes # <<>>, task' = [task EXCEPT ![j].modes = w], w # <<>>, IsInjective(w),
         \A m : Contains(w, m) => Left(j, m) \/ m = "ws",
         UNCHANGED <<state, event_tx, kind, result, historyVars>>, OfficialTypeOK', PreferredKnown'
  PROVE  IInv'
<1>1. TaskOk(j) /\ ProbeOk(j) /\ j \notin Calls
  BY TaskTypes, NoCall
<1>2. /\ task' \in [Tasks -> [op : {"idle", "call", "connect", "disconnect", "health"}, side : Sides,
                              modes : Seq(Modes \cup {"ws"}), connected : BOOLEAN]]
      /\ task'[j].modes = w /\ task'[j].side = task[j].side /\ task'[j].op = task[j].op
      /\ \A k \in Tasks \ {j} : task'[k] = task[k]
  BY DEF IInv, TypeOK
<1>3. TypeOK' /\ Alone(j)
  BY <1>2 DEF IInv, TypeOK, Alone, historyVars
<1>4. TaskOk(j)'
  <2>1. \A m : Left(j, m)' <=> Contains(w, m)
    BY <1>2 DEF Left
  <2>2. result'[j] = None \/ result'[j] = result[j]
    OBVIOUS
  <2> QED BY <1>1, <1>2, <2>1, <2>2 DEF TaskOk
<1>5. ProbeOk(j)'
  BY <1>1, <1>2 DEF ProbeOk, historyVars
<1>6. ConnectedIsOpen'
  BY DEF IInv, ConnectedIsOpen, historyVars
<1> QED
  BY <1>1, <1>3, <1>4, <1>5, <1>6, StepDone, ProbesKept DEF historyVars

LEMMA ProbeAnsweredStep ==
  ASSUME IInv, NEW j \in Tasks, NEW b \in BOOLEAN, ProbeAnswered(j, b)
  PROVE  IInv'
<1>1. /\ Posting(j) /\ task[j].op = "connect" /\ Way(j) # "ws"
      /\ ModeSelected(task[j].side, Way(j), b)
      /\ task' = [task EXCEPT ![j].modes = <<"ws">>]
      /\ UNCHANGED <<kind, result, historyVars>>
  BY DEF ProbeAnswered
<1>2. kind[task[j].side] = "official"
  BY <1>1, TaskTypes DEF Posting, ProbeOk
<1>3. PreferredKnown' /\ OfficialTypeOK' /\ UNCHANGED <<state, event_tx>>
  BY <1>1, <1>2, Selected
<1>4. /\ <<"ws">> \in Seq(Modes \cup {"ws"}) /\ <<"ws">> # <<>> /\ IsInjective(<<"ws">>)
      /\ \A m : Contains(<<"ws">>, m) => m = "ws"
  BY DEF IsInjective, Contains
<1> QED
  BY <1>1, <1>3, <1>4, ProbeGoesOn DEF Posting

LEMMA ProbeFailedStep ==
  ASSUME IInv, NEW j \in Tasks, ProbeFailed(j)
  PROVE  IInv'
<1> DEFINE w == IF Len(task[j].modes) > 1 THEN Tail(task[j].modes) ELSE <<"ws">>
<1>1. /\ Posting(j) /\ task[j].op = "connect"
      /\ task' = [task EXCEPT ![j].modes = w]
      /\ UNCHANGED <<state, event_tx, preferred_mode, self_id, kind, result, historyVars>>
  BY DEF ProbeFailed, officialVars
<1>2. /\ w \in Seq(Modes \cup {"ws"}) /\ w # <<>> /\ IsInjective(w)
      /\ \A m : Contains(w, m) => Left(j, m) \/ m = "ws"
  <2>1. CASE Len(task[j].modes) > 1
    BY <1>1, <2>1, TailLeft
  <2>2. CASE ~(Len(task[j].modes) > 1)
    <3>1. w = <<"ws">>
      BY <2>2
    <3>2. /\ <<"ws">> \in Seq(Modes \cup {"ws"}) /\ <<"ws">> # <<>> /\ IsInjective(<<"ws">>)
          /\ \A m : Contains(<<"ws">>, m) => m = "ws"
      BY DEF IsInjective, Contains
    <3> HIDE DEF w
    <3> QED BY <3>1, <3>2
  <2> QED BY <2>1, <2>2
<1>3. OfficialTypeOK' /\ PreferredKnown'
  BY <1>1 DEF IInv, TypeOK, OfficialTypeOK, PreferredKnown
<1> HIDE DEF w
<1> QED
  BY <1>1, <1>2, <1>3, ProbeGoesOn DEF Posting

\* The channel was created when the connect began, or the side is overtaken.
LEMMA ConnectedStep ==
  ASSUME IInv, NEW j \in Tasks, Connected(j)
  PROVE  IInv'
<1> DEFINE s == task[j].side
<1>1. /\ task[j].op = "connect" /\ task[j].modes # <<>>
      /\ state' = [state EXCEPT ![s] = "Connected"] /\ SideReturns(j, "ok")
      /\ UNCHANGED <<event_tx, preferred_mode, self_id, kind, historyVars>>
  BY DEF Connected, ConnectEnd
<1>2. s \in Sides /\ j \notin Calls /\ ProbeOk(j)
  BY <1>1, TaskTypes, NoCall
<1>3. /\ task' \in [Tasks -> [op : {"idle", "call", "connect", "disconnect", "health"}, side : Sides,
                              modes : Seq(Modes \cup {"ws"}), connected : BOOLEAN]]
      /\ result' \in [Tasks -> {None, "ok", "connection", "http"}]
      /\ \A k \in Tasks \ {j} : task'[k] = task[k] /\ result'[k] = result[k]
      /\ TaskOk(j)' /\ ProbeOk(j)'
  BY <1>1, Answered
<1>4. /\ state' \in [Sides -> States] /\ \A x \in Sides \ {s} : state'[x] = state[x]
  BY <1>1, <1>2 DEF IInv, TypeOK, OfficialTypeOK, States
<1>5. TypeOK' /\ Alone(j)
  BY <1>1, <1>3, <1>4 DEF IInv, TypeOK, OfficialTypeOK, Alone, historyVars
<1>6. PreferredKnown'
  BY <1>1 DEF IInv, PreferredKnown
<1>7. ConnectedIsOpen'
  BY <1>1, <1>2, <1>4 DEF IInv, ConnectedIsOpen, ProbeOk, historyVars
<1> QED
  BY <1>1, <1>2, <1>3, <1>5, <1>6, <1>7, StepDone, ProbesKept DEF historyVars

LEMMA NextIInv ==
  ASSUME IInv, [Next]_vars
  PROVE  IInv'
<1>1. CASE UNCHANGED vars
  <2> USE <1>1 DEF vars, officialVars, historyVars
  <2>1. TypeOK' /\ PreferredKnown' /\ ConnectedIsOpen'
    BY DEF IInv, TypeOK, OfficialTypeOK, PreferredKnown, ConnectedIsOpen
  <2>2. \A j \in Tasks : TaskOk(j)' /\ ProbeOk(j)'
    BY DEF IInv, TaskOk, ProbeOk, Left
  <2>3. \A q \in Calls : CallOk(q)' /\ HistoryOk(q)'
    BY DEF IInv, CallOk, HistoryOk, FailedOver, Left, Made
  <2> QED BY <2>1, <2>2, <2>3 DEF IInv
<1>2. ASSUME NEW j \in Tasks, Step(j) PROVE IInv'
  BY <1>2, RejectStep, DiscoverStep, ProbeStep, DisconnectStep, ProbeFailedStep, ConnectedStep,
     LagrangeConnectStep, PostAnsweredStep, ProbeAnsweredStep, PostFailedStep DEF Step
<1> QED
  BY <1>1, <1>2, StartStep, MonitorStep DEF Next

LEMMA InductiveInvariant == Spec => []IInv
BY InitIInv, NextIInv, PTL DEF Spec

\* Whatever becomes of its posts and whatever other tasks do meanwhile, a request
\* is executed once more than answers were lost and never after its answer, no
\* mode is tried twice for it, and an HTTP error has tried every mode
\* (call_action_discover).
THEOREM ExecutionsCorrect == Spec => []ExecutionsExplained
<1>1. IInv => ExecutionsExplained
  <2> SUFFICES ASSUME IInv, NEW q \in Calls
               PROVE  /\ executions[q] = lost[q] + (IF result[q] = "ok" THEN 1 ELSE 0)
                      /\ IsInjective(attempts[q])
                      /\ result[q] = "http" =>
                           \E s \in Sides : \A i \in DOMAIN OrderedModes(s) :
                             Contains(attempts[q], <<s, OrderedModes(s)[i]>>)
    BY DEF IInv, ExecutionsExplained
  <2>1. HistoryOk(q)
    BY DEF IInv
  <2>2. ASSUME NEW s \in Sides, \A m \in Modes : Known(s, m) => Made(q, s, m),
               NEW i \in DOMAIN OrderedModes(s)
        PROVE  Contains(attempts[q], <<s, OrderedModes(s)[i]>>)
    <3> DEFINE m == OrderedModes(s)[i]
    <3>1. i \in 1..Len(OrderedModes(s)) /\ OrderedModes(s) \in Seq(Modes)
      BY Ordered
    <3>2. m \in Modes /\ Known(s, m)
      BY <3>1 DEF Known, Contains
    <3> HIDE DEF m
    <3>3. Contains(attempts[q], <<s, m>>)
      BY <2>2, <3>2 DEF Made
    <3> QED BY <3>3 DEF m
  <2> QED
    BY <2>1, <2>2 DEF HistoryOk
<1> QED
  BY <1>1, InductiveInvariant, PTL

\* The fallback is asked before the caller gets an error of a primary that was not
\* connected or of a Lagrange one, and never after an official primary took the
\* request, whatever other tasks do (FailoverAdapter::call_api).
THEOREM FailoverCorrect == Spec => []FailsOver
<1>1. IInv => FailsOver
  BY DEF IInv, HistoryOk, FailedOver, FailsOver
<1> QED
  BY <1>1, InductiveInvariant, PTL

\* An official adapter that reports Connected can deliver events, unless a
\* disconnect came in the middle of its connect (OfficialAdapter::connect).
THEOREM OpenCorrect == Spec => []ConnectedIsOpen
<1>1. IInv => ConnectedIsOpen
  BY DEF IInv
<1> QED
  BY <1>1, InductiveInvariant, PTL

=============================================================================
