------------------------------- MODULE ApiCall -------------------------------
(***************************************************************************)
(* What a caller of BackendAdapter::call_api may rely on, whichever        *)
(* adapter answers: a call returns at most once, with an answer only when  *)
(* the backend has executed the request, and the backend executes the      *)
(* request at most once.  A failed call says nothing of the execution: it  *)
(* may have happened, may still happen, or may never happen.               *)
(***************************************************************************)
EXTENDS Naturals

CONSTANT Calls   \* the call_api invocations

VARIABLES
  outcome,       \* what the caller knows of its call
  executions     \* how often the backend executed the request

vars == <<outcome, executions>>

Outcome == {"new", "active", "ok", "failed"}

TypeOK ==
  /\ outcome \in [Calls -> Outcome]
  /\ executions \in [Calls -> {0, 1}]

Init ==
  /\ outcome = [q \in Calls |-> "new"]
  /\ executions = [q \in Calls |-> 0]

\* A caller enters call_api.
Start(q) ==
  /\ outcome[q] = "new"
  /\ outcome' = [outcome EXCEPT ![q] = "active"]
  /\ UNCHANGED executions

\* The backend executes the request, possibly after the caller gave up.
Execute(q) ==
  /\ outcome[q] # "new"
  /\ executions[q] = 0
  /\ executions' = [executions EXCEPT ![q] = 1]
  /\ UNCHANGED outcome

\* call_api returns Ok(response).
ReturnOk(q) ==
  /\ outcome[q] = "active"
  /\ executions[q] = 1
  /\ outcome' = [outcome EXCEPT ![q] = "ok"]
  /\ UNCHANGED executions

\* call_api returns Err for every call of a set: disconnecting an adapter
\* drops all its callers at once.
ReturnErr(Q) ==
  /\ Q # {}
  /\ \A q \in Q : outcome[q] = "active"
  /\ outcome' = [q \in Calls |-> IF q \in Q THEN "failed" ELSE outcome[q]]
  /\ UNCHANGED executions

Next ==
  \/ \E q \in Calls : Start(q) \/ Execute(q) \/ ReturnOk(q)
  \/ \E Q \in SUBSET Calls : ReturnErr(Q)

Safety == Init /\ [][Next]_vars

\* Every started call returns.
Termination == \A q \in Calls : (outcome[q] = "active") ~> (outcome[q] # "active")

=============================================================================
