---------------------------- MODULE AdapterManager ----------------------------
(***************************************************************************)
(* The life of the gateway's adapters: start-up (runtime.rs), the          *)
(* management requests that add, remove and reconnect adapters             *)
(* (adapter_manager.rs), their forwarding tasks, the stats refresher that  *)
(* associates account ids with router indices, and the shutdown.           *)
(*                                                                         *)
(* Requests run concurrently, on many threads; the lock of the live map is *)
(* never held over another step.  An adapter is a Lagrange one: its        *)
(* account, its name, the sender in its field event_tx and the readers of  *)
(* its connections; the rest of the connection is LagrangeAdapter.  A      *)
(* channel, and the connection dialed with it, is named by the start-up of *)
(* its adapter or the request that made it.  A request that is rejected    *)
(* (name taken, name not found) changes nothing and is not a step.         *)
(***************************************************************************)
EXTENDS ApiRouter, FiniteSets

CONSTANTS
  Configured,  \* the accounts of the configuration, in order
  Requests     \* management requests, each handled once

Startup == ToSet(Configured)
Channels == Startup \cup Requests
LiveAdapter == [adapter : Adapters, forward_handle : Channels]

ASSUME ManagerAssumption ==
  /\ Configured \in Seq(Adapters)
  /\ \A i, j \in DOMAIN Configured :
       NameOf[Configured[i]] = NameOf[Configured[j]] => i = j
  /\ None \notin Names \cup Requests \cup LiveAdapter
  /\ Requests \cap Adapters = {}
  /\ IsFiniteSet(Requests) /\ IsFiniteSet(Adapters)

VARIABLES
  phase,       \* of the gateway
  live,        \* the manager's map
  displaced,   \* adapters that lost their live entry but not their place in the router
  contested,   \* names that overlapping requests have been adding at once
  event_tx,    \* the channel whose sender is in an adapter's field
  reader,      \* the adapter whose reader runs on a connection
  handles,     \* the connection whose task handles an adapter has stored
  forwarder,   \* the forwarding task of a channel
  pc,          \* phase of a request
  target,      \* the adapter a request works on
  todo,        \* adapters the stats refresher has not visited in this round
  names,       \* the names it has read from the router in this round
  refresher    \* its phase

managerVars == <<phase, live, displaced, contested>>
adapterVars == <<event_tx, reader, handles, forwarder>>
requestVars == <<pc, target>>
refreshVars == <<todo, names, refresher>>
vars == <<routerVars, self_id, managerVars, adapterVars, requestVars, refreshVars>>

TypeOK ==
  /\ RouterTypeOK
  /\ phase \in {"starting", "running", "stopped"}
  /\ live \in [Names -> LiveAdapter \cup {None}]
  /\ displaced \in SUBSET Adapters
  /\ contested \in SUBSET Names
  /\ event_tx \in [Adapters -> Channels \cup {None}]
  /\ reader \in [Channels -> Adapters \cup {None}]
  /\ handles \in [Adapters -> Channels \cup {None}]
  /\ forwarder \in [Channels -> {"none", "running", "ended"}]
  /\ pc \in [Requests -> {"idle", "adding", "added", "registered", "removing", "unregistering",
                         "resetting", "reset", "dialing", "storing", "done", "dropped"}]
  /\ target \in [Requests -> Adapters \cup {None}]
  /\ todo \in SUBSET Adapters
  /\ names \in Seq(Names)
  /\ refresher \in {"idle", "listed", "visiting"}

Init ==
  /\ RouterInit
  /\ phase = "starting"
  /\ live = [n \in Names |-> None]
  /\ displaced = {}
  /\ contested = {}
  /\ event_tx = [a \in Adapters |-> None]
  /\ reader = [c \in Channels |-> None]
  /\ handles = [a \in Adapters |-> None]
  /\ forwarder = [c \in Channels |-> "none"]
  /\ pc = [r \in Requests |-> "idle"]
  /\ target = [r \in Requests |-> None]
  /\ todo = {}
  /\ names = <<>>
  /\ refresher = "idle"

-----------------------------------------------------------------------------
(* Adapters, their channels and forwarding tasks *)

LiveAdapters == {live[n].adapter : n \in {m \in Names : live[m] # None}}

\* A request being handled.  A handler whose client has closed its connection
\* is dropped, and with it the receiver of the channel it made.
InProgress(r) == pc[r] \notin {"idle", "done", "dropped"}
Abandoned == {r \in Requests : pc[r] = "dropped"}

\* connect's critical section: the sender goes into the adapter's field before
\* the dial and stays there, whatever becomes of it, until the next connect.
BeginConnect(a, c) == event_tx' = [event_tx EXCEPT ![a] = c]

\* The awaited dial succeeds and the reader of the new connection is spawned
\* and its handles stored, over those of another connection, or it fails.
EndConnect(a, c) ==
  \/ /\ reader' = [reader EXCEPT ![c] = a]
     /\ handles' = [handles EXCEPT ![a] = c]
  \/ UNCHANGED <<reader, handles>>

\* disconnect aborts the tasks whose handles are stored; the sender stays.
Disconnect(a) ==
  /\ reader' = [c \in Channels |-> IF c = handles[a] THEN None ELSE reader[c]]
  /\ handles' = [handles EXCEPT ![a] = None]

\* A connection is lost for good, which ends its reader.
ConnectionLost(c) ==
  /\ reader[c] # None
  /\ reader' = [reader EXCEPT ![c] = None]
  /\ UNCHANGED <<routerVars, self_id, managerVars, event_tx, handles, forwarder, requestVars, refreshVars>>

\* The first event a reader gets tells the adapter its account id.
LearnSelfId(a) ==
  /\ self_id[a] = None
  /\ \E c \in Channels : reader[c] = a
  /\ self_id' = [self_id EXCEPT ![a] = AccountOf[a]]
  /\ UNCHANGED <<routerVars, managerVars, adapterVars, requestVars, refreshVars>>

\* Something still holds the adapter and with it the sender in its field; the
\* runtime keeps those of the configuration for ever.
Held(a) ==
  \/ a \in Startup \cup ToSet(adapters) \cup LiveAdapters \cup todo
  \/ \E r \in Requests : InProgress(r) /\ target[r] = a
  \/ \E c \in Channels : reader[c] = a

\* forward_events returns once the sender is dropped: replaced in the field,
\* or gone with the adapter.
ForwarderEnd(c) ==
  /\ forwarder[c] = "running"
  /\ \A a \in Adapters : event_tx[a] = c => ~Held(a)
  /\ forwarder' = [forwarder EXCEPT ![c] = "ended"]
  /\ UNCHANGED <<routerVars, self_id, managerVars, event_tx, reader, handles, requestVars, refreshVars>>

\* Start-up connects, registers and hands over one account after another;
\* neither the refresher nor the HTTP server runs yet.
StartAccount ==
  /\ phase = "starting"
  /\ Len(adapters) < Len(Configured)
  /\ LET a == Configured[Len(adapters) + 1] IN
       /\ BeginConnect(a, a)
       /\ EndConnect(a, a)
       /\ Register(a)
       /\ forwarder' = [forwarder EXCEPT ![a] = "running"]
       /\ live' = [live EXCEPT ![NameOf[a]] = [adapter |-> a, forward_handle |-> a]]
  /\ UNCHANGED <<self_id, phase, displaced, contested, requestVars, refreshVars>>

Started ==
  /\ phase = "starting"
  /\ Len(adapters) = Len(Configured)
  /\ phase' = "running"
  /\ UNCHANGED <<routerVars, self_id, live, displaced, contested, adapterVars, requestVars, refreshVars>>

-----------------------------------------------------------------------------
(* add_adapter *)

\* Neither configured nor the target of an earlier request.
Fresh(a) == a \notin Startup /\ \A r \in Requests : target[r] # a

\* Requests that are adding an adapter of name n.
Adding(n) == {r \in Requests : /\ pc[r] \in {"adding", "added", "registered"}
                               /\ NameOf[target[r]] = n}

\* The name is free now, and the new adapter, known to nobody else, is dialed;
\* the live map is not touched until AddInsert.
AddCheck(r, a) ==
  LET n == NameOf[a] IN
  /\ phase = "running"
  /\ pc[r] = "idle"
  /\ Fresh(a)
  /\ live[n] = None
  /\ contested' = IF Adding(n) = {} THEN contested ELSE contested \cup {n}
  /\ pc' = [pc EXCEPT ![r] = "adding"]
  /\ target' = [target EXCEPT ![r] = a]
  /\ BeginConnect(a, r)
  /\ UNCHANGED <<routerVars, self_id, phase, live, displaced, reader, handles, forwarder, refreshVars>>

\* A failed connect is only logged.
AddConnect(r) ==
  /\ pc[r] = "adding"
  /\ EndConnect(target[r], r)
  /\ pc' = [pc EXCEPT ![r] = "added"]
  /\ UNCHANGED <<routerVars, self_id, managerVars, event_tx, forwarder, target, refreshVars>>

AddRegister(r) ==
  /\ pc[r] = "added"
  /\ Register(target[r])
  /\ pc' = [pc EXCEPT ![r] = "registered"]
  /\ UNCHANGED <<self_id, managerVars, adapterVars, target, refreshVars>>

\* The insert replaces the entry an overlapping add has made, whose
\* forwarding task goes on without a handle.
AddInsert(r) ==
  LET n == NameOf[target[r]] IN
  /\ pc[r] = "registered"
  /\ forwarder' = [forwarder EXCEPT ![r] = "running"]
  /\ live' = [live EXCEPT ![n] = [adapter |-> target[r], forward_handle |-> r]]
  /\ displaced' = IF live[n] = None THEN displaced ELSE displaced \cup {live[n].adapter}
  /\ pc' = [pc EXCEPT ![r] = "done"]
  /\ UNCHANGED <<routerVars, self_id, phase, contested, event_tx, reader, handles, target, refreshVars>>

-----------------------------------------------------------------------------
(* remove_adapter *)

\* The entry leaves the map and its forwarding task is aborted.
RemoveTake(r, n) ==
  /\ phase = "running"
  /\ pc[r] = "idle"
  /\ live[n] # None
  /\ live' = [live EXCEPT ![n] = None]
  /\ forwarder' = [forwarder EXCEPT ![live[n].forward_handle] = "ended"]
  /\ target' = [target EXCEPT ![r] = live[n].adapter]
  /\ pc' = [pc EXCEPT ![r] = "removing"]
  /\ UNCHANGED <<routerVars, self_id, phase, displaced, contested, event_tx, reader, handles, refreshVars>>

\* Mutant: a disconnect error ends the removal early.
RemoveDisconnect_Early(r) ==
  /\ pc[r] = "removing"
  /\ Disconnect(target[r])
  /\ pc' = [pc EXCEPT ![r] = "done"]
  /\ UNCHANGED <<routerVars, self_id, managerVars, event_tx, forwarder, target, refreshVars>>

\* An error of disconnect is only logged.
RemoveDisconnect(r) ==
  /\ pc[r] = "removing"
  /\ Disconnect(target[r])
  /\ pc' = [pc EXCEPT ![r] = "unregistering"]
  /\ UNCHANGED <<routerVars, self_id, managerVars, event_tx, forwarder, target, refreshVars>>

RemoveUnregister(r) ==
  /\ pc[r] = "unregistering"
  /\ Unregister(NameOf[target[r]])
  /\ pc' = [pc EXCEPT ![r] = "done"]
  /\ UNCHANGED <<self_id, managerVars, adapterVars, target, refreshVars>>

-----------------------------------------------------------------------------
(* reconnect_adapter *)

\* The old forwarding task is aborted; the adapter is used without the lock
\* from here on.
ReconnectTake(r, n) ==
  /\ phase = "running"
  /\ pc[r] = "idle"
  /\ live[n] # None
  /\ forwarder' = [forwarder EXCEPT ![live[n].forward_handle] = "ended"]
  /\ target' = [target EXCEPT ![r] = live[n].adapter]
  /\ pc' = [pc EXCEPT ![r] = "resetting"]
  /\ UNCHANGED <<routerVars, self_id, managerVars, event_tx, reader, handles, refreshVars>>

ReconnectDisconnect(r) ==
  /\ pc[r] = "resetting"
  /\ Disconnect(target[r])
  /\ pc' = [pc EXCEPT ![r] = "reset"]
  /\ UNCHANGED <<routerVars, self_id, managerVars, event_tx, forwarder, target, refreshVars>>

ReconnectBegin(r) ==
  /\ pc[r] = "reset"
  /\ BeginConnect(target[r], r)
  /\ pc' = [pc EXCEPT ![r] = "dialing"]
  /\ UNCHANGED <<routerVars, self_id, managerVars, reader, handles, forwarder, target, refreshVars>>

\* A failed connect is only logged.
ReconnectConnect(r) ==
  /\ pc[r] = "dialing"
  /\ EndConnect(target[r], r)
  /\ pc' = [pc EXCEPT ![r] = "storing"]
  /\ UNCHANGED <<routerVars, self_id, managerVars, event_tx, forwarder, target, refreshVars>>

\* Mutant: the old forwarding task is aborted when the new handle is stored.
ReconnectStore_Aborts(r) ==
  LET n == NameOf[target[r]] IN
  /\ pc[r] = "storing"
  /\ forwarder' = [c \in Channels |->
       IF c = r THEN "running"
       ELSE IF live[n] # None /\ live[n].forward_handle = c THEN "ended" ELSE forwarder[c]]
  /\ live' = IF live[n] = None THEN live ELSE [live EXCEPT ![n].forward_handle = r]
  /\ pc' = [pc EXCEPT ![r] = "done"]
  /\ UNCHANGED <<routerVars, self_id, phase, displaced, contested, event_tx, reader, handles, target,
                 refreshVars>>

\* The new handle is stored in whatever entry has the name by now, or
\* dropped, which detaches the task.
ReconnectStore(r) ==
  LET n == NameOf[target[r]] IN
  /\ pc[r] = "storing"
  /\ forwarder' = [forwarder EXCEPT ![r] = "running"]
  /\ live' = IF live[n] = None THEN live ELSE [live EXCEPT ![n].forward_handle = r]
  /\ pc' = [pc EXCEPT ![r] = "done"]
  /\ UNCHANGED <<routerVars, self_id, phase, displaced, contested, event_tx, reader, handles, target,
                 refreshVars>>

\* The client closes its HTTP connection while the handler waits for the
\* backend: the handler is dropped, its sender stays where it is.
RequestDropped(r) ==
  /\ pc[r] \in {"adding", "dialing"}
  /\ pc' = [pc EXCEPT ![r] = "dropped"]
  /\ UNCHANGED <<routerVars, self_id, managerVars, adapterVars, target, refreshVars>>

-----------------------------------------------------------------------------
(* The stats refresher, every five seconds *)

RefreshList ==
  /\ phase = "running"
  /\ refresher = "idle"
  /\ todo' = LiveAdapters
  /\ refresher' = "listed"
  /\ UNCHANGED <<routerVars, self_id, managerVars, adapterVars, requestVars, names>>

RefreshNames ==
  /\ phase = "running"
  /\ refresher = "listed"
  /\ names' = ListNames
  /\ refresher' = "visiting"
  /\ UNCHANGED <<routerVars, self_id, managerVars, adapterVars, requestVars, todo>>

\* The position of a name in the list that was read, 0 when it is not there.
PositionOf(n) == SelectInSeq(names, LAMBDA m : m = n)

\* Mutant: only an account id without an entry is associated.
RefreshVisit_Once(a) ==
  LET index == PositionOf(NameOf[a]) IN
  /\ phase = "running"
  /\ refresher = "visiting"
  /\ a \in todo
  /\ IF self_id[a] # None /\ index # 0 /\ routing_table[self_id[a]] = None
       THEN AssociateSelfId(self_id[a], index) ELSE UNCHANGED routerVars
  /\ todo' = todo \ {a}
  /\ UNCHANGED <<self_id, managerVars, adapterVars, requestVars, names, refresher>>

\* Mutant: the place is used without a test that the name was found.
RefreshVisit_Unchecked(a) ==
  LET index == PositionOf(NameOf[a]) IN
  /\ phase = "running"
  /\ refresher = "visiting"
  /\ a \in todo
  /\ IF self_id[a] # None THEN AssociateSelfId(self_id[a], index) ELSE UNCHANGED routerVars
  /\ todo' = todo \ {a}
  /\ UNCHANGED <<self_id, managerVars, adapterVars, requestVars, names, refresher>>

\* One adapter of the round: the index comes from the list read at its
\* start.  The health check that follows is an await between two visits.
RefreshVisit(a) ==
  LET index == PositionOf(NameOf[a]) IN
  /\ phase = "running"
  /\ refresher = "visiting"
  /\ a \in todo
  /\ IF self_id[a] # None /\ index # 0
       THEN AssociateSelfId(self_id[a], index) ELSE UNCHANGED routerVars
  /\ todo' = todo \ {a}
  /\ UNCHANGED <<self_id, managerVars, adapterVars, requestVars, names, refresher>>

RefreshEnd ==
  /\ phase = "running"
  /\ refresher = "visiting"
  /\ todo = {}
  /\ names' = <<>>
  /\ refresher' = "idle"
  /\ UNCHANGED <<routerVars, self_id, managerVars, adapterVars, requestVars, todo>>

-----------------------------------------------------------------------------
Quiet == \A r \in Requests : ~InProgress(r)

\* The HTTP server has drained its requests.  The live map is emptied, every
\* task in it aborted and every adapter disconnected; the router is left as
\* it is and the refresher is aborted.
Shutdown ==
  /\ phase = "running"
  /\ Quiet
  /\ phase' = "stopped"
  /\ live' = [n \in Names |-> None]
  /\ displaced' = displaced \cup LiveAdapters
  /\ forwarder' = [c \in Channels |->
       IF \E n \in Names : live[n] # None /\ live[n].forward_handle = c
         THEN "ended" ELSE forwarder[c]]
  /\ reader' = [c \in Channels |->
       IF \E a \in LiveAdapters : handles[a] = c THEN None ELSE reader[c]]
  /\ handles' = [a \in Adapters |-> IF a \in LiveAdapters THEN None ELSE handles[a]]
  /\ UNCHANGED <<contested, routerVars, self_id, event_tx, requestVars, refreshVars>>

RequestStep(r) ==
  \/ AddConnect(r) \/ AddRegister(r) \/ AddInsert(r)
  \/ RemoveDisconnect(r) \/ RemoveUnregister(r)
  \/ ReconnectDisconnect(r) \/ ReconnectBegin(r) \/ ReconnectConnect(r) \/ ReconnectStore(r)

RefresherStep ==
  \/ RefreshList \/ RefreshNames \/ RefreshEnd
  \/ \E a \in Adapters : RefreshVisit(a)

Next ==
  \/ StartAccount \/ Started \/ Shutdown
  \/ \E a \in Adapters : LearnSelfId(a)
  \/ \E c \in Channels : ConnectionLost(c) \/ ForwarderEnd(c)
  \/ \E r \in Requests, a \in Adapters : AddCheck(r, a)
  \/ \E r \in Requests, n \in Names : RemoveTake(r, n) \/ ReconnectTake(r, n)
  \/ \E r \in Requests : RequestStep(r) \/ RequestDropped(r)
  \/ RefresherStep

Spec == Init /\ [][Next]_vars

\* Every task that can run is eventually scheduled; connects and health
\* checks are bounded by timeouts.
FairSpec ==
  /\ Spec
  /\ WF_vars(StartAccount) /\ WF_vars(Started)
  /\ \A r \in Requests : WF_vars(RequestStep(r))
  /\ WF_vars(RefresherStep)

-----------------------------------------------------------------------------
(* Properties *)

\* For a name: its positions in the router, the requests between the steps
\* that change the router and the live map, and the displaced adapters.
Placed(n) == {i \in DOMAIN adapters : NameOf[adapters[i]] = n}
Unsettled(n) == {r \in Requests : /\ pc[r] \in {"registered", "removing", "unregistering"}
                                  /\ NameOf[target[r]] = n}
DisplacedNamed(n) == {a \in displaced : NameOf[a] = n}

\* The router holds, for each name, one adapter for the live entry, one for
\* each add between register and insert, one for each removal not yet
\* unregistered, and the displaced ones: remove_adapter never removes more
\* than it took out of the live map, whatever overlaps.
RouterAccounted ==
  \A n \in Names :
    Cardinality(Placed(n)) = (IF live[n] = None THEN 0 ELSE 1)
                              + Cardinality(Unsettled(n)) + Cardinality(DisplacedNamed(n))

\* Every adapter in the manager's map is in the router, even when removals
\* overlap with the addition of an adapter of the same name: unregister takes
\* the first of the name.  Overlapping additions of one name are excepted.
LiveIsRouted ==
  \A a \in LiveAdapters : NameOf[a] \notin contested => \E i \in DOMAIN adapters : adapters[i] = a

\* A request without an account id finds an adapter whenever there is one:
\* the default index survives every removal.
DefaultRouted == adapters # <<>> => RouteNamed(None) # None

Exact(id) ==
  routing_table[id] # None =>
    /\ routing_table[id] \in DOMAIN adapters
    /\ self_id[adapters[routing_table[id]]] = id

\* Registering and unregistering never turn a right entry of the table into a
\* wrong one: only the refresher can.
ChangesKeepEntries ==
  [][\A id \in SelfIds : Exact(id) /\ ~Exact(id)' => UNCHANGED adapters]_vars

\* The events of a live adapter reach the bus: when no request is in progress,
\* the sender in its field is that of a running forwarding task, whichever of
\* overlapping reconnects, removals and additions stored sender, connection
\* and handle last.  Excepted is the sender of a reconnect dropped in its dial.
LiveIsForwarded ==
  Quiet => \A a \in LiveAdapters :
    event_tx[a] \notin Abandoned => forwarder[event_tx[a]] = "running"

\* Once requests have stopped, the id a live adapter has learned is routed to
\* an adapter of that id and stays so: the refresher repairs stale entries.
RoutingConverges ==
  \A a \in Adapters :
    <>[](/\ phase = "running"
         /\ a \in LiveAdapters /\ NameOf[a] \notin contested /\ self_id[a] # None)
      => <>[](RouteNamed(AccountOf[a]) # None /\ self_id[RouteNamed(AccountOf[a])] = AccountOf[a])

=============================================================================
