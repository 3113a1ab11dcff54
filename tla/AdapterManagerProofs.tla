------------------------- MODULE AdapterManagerProofs -------------------------
(***************************************************************************)
(* Proofs about AdapterManager, for any sets of adapters, names, account   *)
(* ids and requests: the types, the accounting of router and live map,     *)
(* that live adapters are routed and forwarded, that there is a default,   *)
(* and that changes of the list keep right table entries right.            *)
(***************************************************************************)
EXTENDS AdapterManager, FiniteSetTheorems, SequenceTheorems, WellFoundedInduction, TLAPS

-----------------------------------------------------------------------------
(* Positions in a list *)

\* A set of numbers that is not empty has a least element.
LEMMA LeastMember ==
  ASSUME NEW I \in SUBSET Nat, I # {}
  PROVE  Min(I) \in I /\ \A y \in I : Min(I) <= y
<1> DEFINE LT == OpToRel(<, Nat)
<1>1. IsWellFoundedOn(LT, Nat)
  BY NatLessThanWellFounded
<1>2. \A x, y \in Nat : y < x => <<y, x>> \in LT
  BY DEF OpToRel
<1> HIDE DEF LT
<1>3. PICK x \in I : \A y \in I : ~(<<y, x>> \in LT)
  BY <1>1, WFMin
<1>4. \A y \in I : y \in Nat /\ ~(y < x)
  BY <1>2, <1>3
<1>5. \A y \in I : x <= y
  BY <1>4
<1> QED
  BY <1>5 DEF Min

\* A bounded set of numbers that is not empty has a greatest element.
LEMMA GreatestMember ==
  ASSUME NEW n \in Nat, NEW I \in SUBSET (1..n), I # {}
  PROVE  Max(I) \in I /\ \A y \in I : y <= Max(I)
<1> DEFINE J == {j \in Nat : n - j \in I}
<1>1. PICK x \in I : TRUE
  OBVIOUS
<1>2. n - x \in J
  BY <1>1
<1>3. PICK j \in J : \A k \in J : j <= k
  <2> HIDE DEF J
  <2>1. J \in SUBSET Nat
    BY DEF J
  <2> QED
    BY <1>2, <2>1, LeastMember
<1>4. \A y \in I : n - y \in J
  OBVIOUS
<1>5. n - j \in I /\ j \in Nat
  OBVIOUS
<1>6. \A y \in I : y <= n - j
  <2> HIDE DEF J
  <2> TAKE y \in I
  <2>1. j <= n - y
    BY <1>3, <1>4
  <2>2. y \in 1..n
    OBVIOUS
  <2> QED
    BY <1>5, <2>1, <2>2
<1> QED
  BY <1>5, <1>6 DEF Max

\* position finds the first adapter of a name.
LEMMA FirstOfName ==
  ASSUME NEW list \in Seq(Adapters), NEW n
  PROVE  \/ /\ PositionNamed(list, n) = 0
            /\ \A i \in DOMAIN list : NameOf[list[i]] # n
         \/ /\ PositionNamed(list, n) \in DOMAIN list
            /\ NameOf[list[PositionNamed(list, n)]] = n
            /\ \A i \in DOMAIN list : NameOf[list[i]] = n => PositionNamed(list, n) <= i
<1> DEFINE I == {i \in 1..Len(list) : NameOf[list[i]] = n}
<1>1. PositionNamed(list, n) = IF I # {} THEN Min(I) ELSE 0
  BY DEF PositionNamed, SelectInSeq
<1>2. I # {} => Min(I) \in I /\ \A y \in I : Min(I) <= y
  <2> HIDE DEF I
  <2>1. I \in SUBSET Nat
    BY DEF I
  <2> QED
    BY LeastMember, <2>1
<1>3. DOMAIN list = 1..Len(list)
  OBVIOUS
<1> QED
  BY <1>1, <1>2, <1>3

\* Of the adapters that serve an id the table takes the last.
LEMMA LastOfId ==
  ASSUME NEW list \in Seq(Adapters), NEW id
  PROVE  \/ LastServing(list, id) = 0
         \/ LastServing(list, id) \in DOMAIN list /\ self_id[list[LastServing(list, id)]] = id
<1> DEFINE I == {i \in 1..Len(list) : self_id[list[i]] = id}
<1>1. LastServing(list, id) = IF I # {} THEN Max(I) ELSE 0
  BY DEF LastServing, SelectLastInSeq
<1>2. I # {} => Max(I) \in I
  <2> HIDE DEF I
  <2>1. Len(list) \in Nat /\ I \in SUBSET (1..Len(list))
    BY DEF I
  <2> QED
    BY GreatestMember, <2>1
<1>3. DOMAIN list = 1..Len(list)
  OBVIOUS
<1> QED
  BY <1>1, <1>2, <1>3

\* The position of a name the refresher has read is a position.
LEMMA FirstRead ==
  ASSUME names \in Seq(Names), NEW n
  PROVE  PositionOf(n) \in Nat
<1> DEFINE I == {i \in 1..Len(names) : names[i] = n}
<1>1. PositionOf(n) = IF I # {} THEN Min(I) ELSE 0
  BY DEF PositionOf, SelectInSeq
<1>2. I # {} => Min(I) \in I
  <2> HIDE DEF I
  <2>1. I \in SUBSET Nat
    BY DEF I
  <2> QED
    BY LeastMember, <2>1
<1> QED
  BY <1>1, <1>2

\* What remove leaves: the adapters before the position, then those after it.
LEMMA Removed ==
  ASSUME NEW list \in Seq(Adapters), NEW pos \in DOMAIN list
  PROVE  /\ RemoveAt(list, pos) \in Seq(Adapters)
         /\ Len(RemoveAt(list, pos)) = Len(list) - 1
         /\ \A i \in DOMAIN RemoveAt(list, pos) :
              RemoveAt(list, pos)[i] = IF i < pos THEN list[i] ELSE list[i + 1]
<1> DEFINE before == SubSeq(list, 1, pos - 1)
           after == SubSeq(list, pos + 1, Len(list))
<1>1. pos \in 1..Len(list) /\ Len(list) \in Nat
  OBVIOUS
<1>2. /\ before \in Seq(Adapters)
      /\ Len(before) = pos - 1
      /\ \A i \in 1..(pos - 1) : before[i] = list[i]
  BY <1>1
<1>3. /\ after \in Seq(Adapters)
      /\ Len(after) = Len(list) - pos
      /\ \A i \in 1..(Len(list) - pos) : after[i] = list[pos + i]
  BY <1>1
<1>4. RemoveAt(list, pos) = before \o after
  BY DEF RemoveAt
<1> HIDE DEF before, after
<1>5. /\ before \o after \in Seq(Adapters)
      /\ Len(before \o after) = Len(list) - 1
  BY <1>1, <1>2, <1>3
<1>6. \A i \in 1..(Len(list) - 1) :
        (before \o after)[i] = IF i < pos THEN list[i] ELSE list[i + 1]
  BY <1>1, <1>2, <1>3
<1>7. DOMAIN (before \o after) = 1..(Len(list) - 1)
  BY <1>5
<1> QED
  BY <1>4, <1>5, <1>6, <1>7

-----------------------------------------------------------------------------
(* Types *)

\* A request in progress works on an adapter.
Targeted == \A r \in Requests : InProgress(r) => target[r] \in Adapters

TypeInv == TypeOK /\ Targeted

\* The part of TypeOK that connecting and disconnecting change.
ChannelTypes ==
  /\ event_tx \in [Adapters -> Channels \cup {None}]
  /\ reader \in [Channels -> Adapters \cup {None}]
  /\ handles \in [Adapters -> Channels \cup {None}]

\* The phases of the requests.
Phases ==
  [Requests -> {"idle", "adding", "added", "registered", "removing", "unregistering",
                "resetting", "reset", "dialing", "storing", "done", "dropped"}]

\* The router's operations keep the types of its variables.
LEMMA RegisterType ==
  ASSUME RouterTypeOK, NEW a \in Adapters, Register(a), UNCHANGED self_id
  PROVE  RouterTypeOK'
  BY RouterAssumption DEF RouterTypeOK, Register

LEMMA UnregisterType ==
  ASSUME RouterTypeOK, NEW n, Unregister(n), UNCHANGED self_id
  PROVE  RouterTypeOK'
<1> DEFINE pos == PositionNamed(adapters, n)
<1> USE DEF RouterTypeOK
<1>1. CASE pos = 0
  BY <1>1 DEF Unregister, routerVars
<1>2. CASE pos # 0
  <2>1. pos \in DOMAIN adapters
    BY <1>2, FirstOfName
  <2>2. adapters' = RemoveAt(adapters, pos) /\ adapters' \in Seq(Adapters)
    BY <1>2, <2>1, Removed DEF Unregister
  <2>3. RebuiltTable(adapters') \in [SelfIds -> (Nat \ {0}) \cup {None}]
    <3>1. \A id \in SelfIds : LastServing(adapters', id) \in Nat
      BY <2>2, LastOfId
    <3> QED
      BY <3>1 DEF RebuiltTable
  <2> QED
    BY <1>2, <2>2, <2>3 DEF Unregister
<1> QED
  BY <1>1, <1>2

LEMMA BeginType ==
  ASSUME ChannelTypes, NEW a \in Adapters, NEW c \in Channels, BeginConnect(a, c)
  PROVE  event_tx' \in [Adapters -> Channels \cup {None}]
  BY DEF ChannelTypes, BeginConnect

LEMMA EndType ==
  ASSUME ChannelTypes, NEW a \in Adapters, NEW c \in Channels, EndConnect(a, c)
  PROVE  /\ reader' \in [Channels -> Adapters \cup {None}]
         /\ handles' \in [Adapters -> Channels \cup {None}]
<1>1. CASE UNCHANGED <<reader, handles>>
  BY <1>1 DEF ChannelTypes
<1>2. CASE reader' = [reader EXCEPT ![c] = a] /\ handles' = [handles EXCEPT ![a] = c]
  BY <1>2 DEF ChannelTypes
<1> QED
  BY <1>1, <1>2 DEF EndConnect

LEMMA DisconnectType ==
  ASSUME ChannelTypes, NEW a \in Adapters, Disconnect(a)
  PROVE  /\ reader' \in [Channels -> Adapters \cup {None}]
         /\ handles' \in [Adapters -> Channels \cup {None}]
<1>1. reader' \in [Channels -> Adapters \cup {None}]
  BY DEF ChannelTypes, Disconnect
<1>2. handles' \in [Adapters -> Channels \cup {None}]
  BY DEF ChannelTypes, Disconnect
<1> QED
  BY <1>1, <1>2

LEMMA RouterKept ==
  ASSUME RouterTypeOK, UNCHANGED <<routerVars, self_id>>
  PROVE  RouterTypeOK'
  BY DEF RouterTypeOK, routerVars

LEMMA AssociateType ==
  ASSUME RouterTypeOK, NEW id \in SelfIds, NEW index \in Nat \ {0},
         AssociateSelfId(id, index), UNCHANGED self_id
  PROVE  RouterTypeOK'
  BY DEF RouterTypeOK, AssociateSelfId

\* The types are inductive.
LEMMA TypeInit == Init => TypeInv
  BY RouterAssumption, ManagerAssumption
  DEF Init, RouterInit, TypeInv, TypeOK, RouterTypeOK, Targeted, InProgress

LEMMA TypeStep ==
  ASSUME TypeInv, [Next]_vars
  PROVE  TypeInv'
<1> USE RouterAssumption, ManagerAssumption
<1>a. RouterTypeOK
  BY DEF TypeInv, TypeOK
<1>b. ChannelTypes
  BY DEF TypeInv, TypeOK, ChannelTypes
<1>1. CASE StartAccount
  <2> DEFINE a == Configured[Len(adapters) + 1]
  <2>1. Len(adapters) + 1 \in DOMAIN Configured
    BY <1>1, <1>a DEF StartAccount, RouterTypeOK
  <2>2. a \in Adapters /\ a \in Channels
    BY <2>1 DEF Channels, Startup, ToSet
  <2>3. RouterTypeOK'
    BY <1>1, <1>a, <2>2, RegisterType DEF StartAccount
  <2> HIDE DEF a
  <2>4. StartAccount => BeginConnect(a, a) /\ EndConnect(a, a) /\ live' = [live EXCEPT ![NameOf[a]] = [adapter |-> a, forward_handle |-> a]] /\ forwarder' = [forwarder EXCEPT ![a] = "running"]
    BY DEF StartAccount, a
  <2>5. UNCHANGED <<phase, displaced, contested, pc, target, todo, names, refresher>>
    BY <1>1 DEF StartAccount, requestVars, refreshVars
  <2>6. ChannelTypes'
    BY <1>1, <2>2, <2>4, <1>b, BeginType, EndType DEF ChannelTypes
  <2>7. live' \in [Names -> LiveAdapter \cup {None}]
    BY <1>1, <2>2, <2>4 DEF TypeInv, TypeOK, LiveAdapter
  <2> QED
    BY <1>1, <2>2, <2>3, <2>4, <2>5, <2>6, <2>7 DEF ChannelTypes, TypeInv, TypeOK, Targeted, InProgress
<1>2. CASE Started \/ Shutdown
  <2>1. RouterTypeOK'
    BY <1>a, <1>2, RouterKept DEF Started, Shutdown, routerVars
  <2>2. LiveAdapters \subseteq Adapters
    BY DEF LiveAdapters, LiveAdapter, TypeInv, TypeOK
  <2>3. CASE Started
    BY <2>1, <2>3 DEF Started, TypeInv, TypeOK, Targeted, InProgress, adapterVars, requestVars,
      refreshVars
  <2>4. CASE Shutdown
    <3> HIDE DEF LiveAdapters
    <3>1. UNCHANGED <<contested, pc, target, todo, names, refresher>> /\ phase' = "stopped"
      BY <2>4 DEF Shutdown, requestVars, refreshVars
    <3>2. live' \in [Names -> LiveAdapter \cup {None}] /\ displaced' \in SUBSET Adapters
      BY <2>2, <2>4 DEF Shutdown, TypeInv, TypeOK
    <3>3. forwarder' \in [Channels -> {"none", "running", "ended"}]
      BY <2>4 DEF Shutdown, TypeInv, TypeOK
    <3>4. reader' \in [Channels -> Adapters \cup {None}]
      BY <2>4 DEF Shutdown, TypeInv, TypeOK
    <3>5. handles' \in [Adapters -> Channels \cup {None}] /\ event_tx' = event_tx
      BY <2>4 DEF Shutdown, TypeInv, TypeOK
    <3> QED
      BY <2>1, <3>1, <3>2, <3>3, <3>4, <3>5 DEF TypeInv, TypeOK, Targeted, InProgress
  <2> QED
    BY <1>2, <2>3, <2>4
<1>3. ASSUME NEW a \in Adapters, LearnSelfId(a)
      PROVE  TypeInv'
  BY <1>3 DEF LearnSelfId, TypeInv, TypeOK, RouterTypeOK, Targeted, InProgress, routerVars,
    managerVars, adapterVars, requestVars, refreshVars
<1>4. ASSUME NEW c \in Channels, ConnectionLost(c) \/ ForwarderEnd(c)
      PROVE  TypeInv'
  <2>1. CASE ConnectionLost(c)
    <3>1. reader' \in [Channels -> Adapters \cup {None}]
      BY <2>1 DEF ConnectionLost, TypeInv, TypeOK
    <3> QED
      BY <2>1, <3>1 DEF ConnectionLost, TypeInv, TypeOK, RouterTypeOK, Targeted, InProgress,
        routerVars, managerVars, requestVars, refreshVars
  <2>2. CASE ForwarderEnd(c)
    <3>1. forwarder' \in [Channels -> {"none", "running", "ended"}]
      BY <2>2 DEF ForwarderEnd, TypeInv, TypeOK
    <3> QED
      BY <2>2, <3>1 DEF ForwarderEnd, TypeInv, TypeOK, RouterTypeOK, Targeted, InProgress,
        routerVars, managerVars, requestVars, refreshVars
  <2> QED
    BY <1>4, <2>1, <2>2
<1>5. ASSUME NEW r \in Requests, NEW a \in Adapters, AddCheck(r, a)
      PROVE  TypeInv'
  <2>1. event_tx' \in [Adapters -> Channels \cup {None}]
    BY <1>5, <1>b, BeginType DEF AddCheck, Channels
  <2> QED
    BY <1>5, <2>1 DEF AddCheck, TypeInv, TypeOK, RouterTypeOK, Targeted, InProgress,
      routerVars, refreshVars
<1>6. ASSUME NEW r \in Requests, NEW n \in Names, RemoveTake(r, n) \/ ReconnectTake(r, n)
      PROVE  TypeInv'
  <2>1. RouterTypeOK'
    BY <1>a, <1>6, RouterKept DEF RemoveTake, ReconnectTake
  <2>2. live[n] \in LiveAdapter
    BY <1>6 DEF RemoveTake, ReconnectTake, TypeInv, TypeOK
  <2>3. live[n].adapter \in Adapters /\ live[n].forward_handle \in Channels
    BY <2>2 DEF LiveAdapter
  <2>4. CASE RemoveTake(r, n)
    BY <2>1, <2>3, <2>4 DEF RemoveTake, TypeInv, TypeOK, Targeted, InProgress, refreshVars
  <2>5. CASE ReconnectTake(r, n)
    BY <2>1, <2>3, <2>5
    DEF ReconnectTake, TypeInv, TypeOK, Targeted, InProgress, managerVars, refreshVars
  <2> QED
    BY <1>6, <2>4, <2>5
<1>7. ASSUME NEW r \in Requests, RequestStep(r) \/ RequestDropped(r)
      PROVE  TypeInv'
  <2>1. CASE AddConnect(r) \/ ReconnectConnect(r)
    <3>1. RouterTypeOK'
      BY <1>a, <2>1, RouterKept DEF AddConnect, ReconnectConnect
    <3>2. target[r] \in Adapters /\ r \in Channels
      BY <2>1 DEF AddConnect, ReconnectConnect, TypeInv, Targeted, InProgress, Channels
    <3>3. ChannelTypes'
      BY <2>1, <3>2, <1>b, EndType DEF AddConnect, ReconnectConnect, ChannelTypes
    <3>4. \E p \in {"added", "storing"} : pc' = [pc EXCEPT ![r] = p]
      BY <2>1 DEF AddConnect, ReconnectConnect
    <3>5. UNCHANGED <<phase, live, displaced, contested, forwarder, target, todo, names, refresher>>
      BY <2>1 DEF AddConnect, ReconnectConnect, managerVars, refreshVars
    <3>6. pc' \in Phases /\ Targeted'
      BY <3>2, <3>4, <3>5 DEF Phases, TypeInv, TypeOK, Targeted, InProgress
    <3> QED
      BY <3>1, <3>3, <3>5, <3>6 DEF Phases, ChannelTypes, TypeInv, TypeOK
  <2>2. CASE AddRegister(r)
    <3>1. RouterTypeOK'
      BY <1>a, <2>2, RegisterType DEF AddRegister, TypeInv, Targeted, InProgress
    <3> QED
      BY <2>2, <3>1 DEF AddRegister, TypeInv, TypeOK, Targeted, InProgress, managerVars,
        adapterVars, refreshVars
  <2>3. CASE AddInsert(r) \/ ReconnectStore(r)
    <3>1. RouterTypeOK'
      BY <1>a, <2>3, RouterKept DEF AddInsert, ReconnectStore
    <3>2. target[r] \in Adapters /\ r \in Channels
      BY <2>3 DEF AddInsert, ReconnectStore, TypeInv, Targeted, InProgress, Channels
    <3>3. live' \in [Names -> LiveAdapter \cup {None}] /\ displaced' \in SUBSET Adapters
      <4> DEFINE n == NameOf[target[r]]
      <4>1. n \in Names /\ live[n] \in LiveAdapter \cup {None}
        BY <3>2 DEF TypeInv, TypeOK
      <4>2. live[n] # None => live[n].adapter \in Adapters
        BY <4>1 DEF LiveAdapter
      <4>3. CASE AddInsert(r)
        BY <3>2, <4>1, <4>2, <4>3 DEF AddInsert, TypeInv, TypeOK, LiveAdapter
      <4>4. CASE ReconnectStore(r)
        <5>1. displaced' = displaced /\ live' = IF live[n] = None THEN live ELSE [live EXCEPT ![n].forward_handle = r]
          BY <4>4 DEF ReconnectStore
        <5>2. live[n] # None => [live[n] EXCEPT !.forward_handle = r] \in LiveAdapter
          BY <3>2, <4>1 DEF LiveAdapter
        <5> QED
          BY <4>1, <5>1, <5>2 DEF TypeInv, TypeOK
      <4> QED
        BY <2>3, <4>3, <4>4
    <3>4. forwarder' \in [Channels -> {"none", "running", "ended"}]
      BY <2>3, <3>2 DEF AddInsert, ReconnectStore, TypeInv, TypeOK
    <3>5. pc' = [pc EXCEPT ![r] = "done"] /\ UNCHANGED <<phase, contested, event_tx, reader, handles, target, todo, names, refresher>>
      BY <2>3 DEF AddInsert, ReconnectStore, refreshVars
    <3> QED
      BY <3>1, <3>3, <3>4, <3>5 DEF TypeInv, TypeOK, Targeted, InProgress
  <2>4. CASE RemoveDisconnect(r) \/ ReconnectDisconnect(r)
    <3>1. RouterTypeOK'
      BY <1>a, <2>4, RouterKept DEF RemoveDisconnect, ReconnectDisconnect
    <3>2. target[r] \in Adapters
      BY <2>4 DEF RemoveDisconnect, ReconnectDisconnect, TypeInv, Targeted, InProgress
    <3>3. ChannelTypes'
      BY <2>4, <3>2, <1>b, DisconnectType DEF RemoveDisconnect, ReconnectDisconnect, ChannelTypes
    <3>4. \E p \in {"unregistering", "reset"} : pc' = [pc EXCEPT ![r] = p]
      BY <2>4 DEF RemoveDisconnect, ReconnectDisconnect
    <3>5. UNCHANGED <<phase, live, displaced, contested, forwarder, target, todo, names, refresher>>
      BY <2>4 DEF RemoveDisconnect, ReconnectDisconnect, managerVars, refreshVars
    <3>6. pc' \in Phases /\ Targeted'
      BY <3>2, <3>4, <3>5 DEF Phases, TypeInv, TypeOK, Targeted, InProgress
    <3> QED
      BY <3>1, <3>3, <3>5, <3>6 DEF Phases, ChannelTypes, TypeInv, TypeOK
  <2>5. CASE RemoveUnregister(r)
    <3>1. RouterTypeOK'
      BY <1>a, <2>5, UnregisterType DEF RemoveUnregister
    <3> QED
      BY <2>5, <3>1 DEF RemoveUnregister, TypeInv, TypeOK, Targeted, InProgress, managerVars,
        adapterVars, refreshVars
  <2>6. CASE RequestDropped(r)
    BY <2>6 DEF RequestDropped, TypeInv, TypeOK, RouterTypeOK, Targeted, InProgress, routerVars,
      managerVars, adapterVars, refreshVars
  <2>7. CASE ReconnectBegin(r)
    <3>1. RouterTypeOK'
      BY <1>a, <2>7, RouterKept DEF ReconnectBegin
    <3>2. event_tx' \in [Adapters -> Channels \cup {None}]
      BY <2>7, <1>b, BeginType DEF ReconnectBegin, Channels, TypeInv, Targeted, InProgress
    <3> QED
      BY <2>7, <3>1, <3>2 DEF ReconnectBegin, TypeInv, TypeOK, Targeted, InProgress, managerVars,
        refreshVars
  <2> QED
    BY <1>7, <2>1, <2>2, <2>3, <2>4, <2>5, <2>6, <2>7 DEF RequestStep
<1>8. CASE RefreshList \/ RefreshNames \/ RefreshEnd
  <2>1. RouterTypeOK'
    BY <1>a, <1>8, RouterKept DEF RefreshList, RefreshNames, RefreshEnd
  <2>2. LiveAdapters \subseteq Adapters
    BY DEF LiveAdapters, LiveAdapter, TypeInv, TypeOK
  <2>3. ListNames \in Seq(Names)
    <3>1. /\ Len(adapters) \in Nat /\ DOMAIN adapters = 1..Len(adapters)
          /\ \A i \in DOMAIN adapters : NameOf[adapters[i]] \in Names
      BY <1>a DEF RouterTypeOK
    <3>2. [i \in 1..Len(adapters) |-> NameOf[adapters[i]]] \in Seq(Names)
      BY <3>1, IsASeq
    <3> QED
      BY <3>1, <3>2 DEF ListNames
  <2>4. <<>> \in Seq(Names)
    OBVIOUS
  <2>5. UNCHANGED <<self_id, managerVars, adapterVars, requestVars>>
    BY <1>8 DEF RefreshList, RefreshNames, RefreshEnd
  <2>6. Targeted'
    BY <2>5 DEF TypeInv, Targeted, InProgress, requestVars
  <2>7. /\ todo' \in SUBSET Adapters /\ names' \in Seq(Names)
        /\ refresher' \in {"idle", "listed", "visiting"}
    BY <1>8, <2>2, <2>3, <2>4 DEF RefreshList, RefreshNames, RefreshEnd, TypeInv, TypeOK
  <2> QED
    BY <2>1, <2>5, <2>6, <2>7 DEF TypeInv, TypeOK, managerVars, adapterVars, requestVars
<1>9. ASSUME NEW a \in Adapters, RefreshVisit(a)
      PROVE  TypeInv'
  <2>1. PositionOf(NameOf[a]) \in Nat
    BY FirstRead DEF TypeInv, TypeOK
  <2>2. RouterTypeOK'
    BY <1>a, <1>9, <2>1, AssociateType DEF RefreshVisit, routerVars, RouterTypeOK
  <2> QED
    BY <1>9, <2>2 DEF RefreshVisit, TypeInv, TypeOK, Targeted, InProgress, managerVars,
      adapterVars, requestVars
<1>10. CASE UNCHANGED vars
  BY <1>10 DEF vars, TypeInv, TypeOK, RouterTypeOK, Targeted, InProgress, routerVars,
    managerVars, adapterVars, requestVars, refreshVars
<1> QED
  BY <1>1, <1>2, <1>3, <1>4, <1>5, <1>6, <1>7, <1>8, <1>9, <1>10 DEF Next, RefresherStep

\* Every variable keeps its type: an index in the table is never 0, a
\* forwarding handle always names a channel (router.rs, adapter_manager.rs).
THEOREM TypeCorrect == Spec => []TypeOK
<1>1. TypeInv => TypeOK
  BY DEF TypeInv
<1> QED
  BY TypeInit, TypeStep, <1>1, PTL DEF Spec

-----------------------------------------------------------------------------
(* The router *)

\* What a step does to the router.
LEMMA RouterSteps ==
  ASSUME TypeInv, [Next]_vars
  PROVE  \/ UNCHANGED <<adapters, default_index>>
         \/ UNCHANGED self_id /\ \E a \in Adapters : Register(a)
         \/ UNCHANGED self_id /\ \E n \in Names : Unregister(n)
<1> USE RouterAssumption
<1>1. CASE StartAccount
  <2>1. Len(adapters) + 1 \in DOMAIN Configured
    BY <1>1, ManagerAssumption DEF StartAccount, TypeInv, TypeOK, RouterTypeOK
  <2>2. Configured[Len(adapters) + 1] \in Adapters
    BY <2>1, ManagerAssumption
  <2> QED
    BY <1>1, <2>2 DEF StartAccount
<1>2. ASSUME NEW r \in Requests, AddRegister(r)
      PROVE  UNCHANGED self_id /\ \E a \in Adapters : Register(a)
  BY <1>2 DEF AddRegister, TypeInv, Targeted, InProgress
<1>3. ASSUME NEW r \in Requests, RemoveUnregister(r)
      PROVE  UNCHANGED self_id /\ \E n \in Names : Unregister(n)
  BY <1>3 DEF RemoveUnregister, TypeInv, Targeted, InProgress
<1>4. ASSUME NEW r \in Requests, RequestStep(r), ~AddRegister(r), ~RemoveUnregister(r)
      PROVE  UNCHANGED <<adapters, default_index>>
  BY <1>4 DEF RequestStep, AddConnect, AddInsert, RemoveDisconnect, ReconnectDisconnect,
    ReconnectBegin, ReconnectConnect, ReconnectStore, routerVars
<1> QED
  BY <1>1, <1>2, <1>3, <1>4 DEF Next, Started, Shutdown, LearnSelfId, ConnectionLost, ForwarderEnd,
    AddCheck, RemoveTake, ReconnectTake, RequestDropped, RefresherStep, RefreshList, RefreshNames,
    RefreshVisit, RefreshEnd, AssociateSelfId, routerVars, vars

\* The default index, when there is one, is an index.
DefaultInv == default_index # None => default_index \in DOMAIN adapters

\* However many adapters are removed in whatever order, a request without an
\* account id finds one as long as there is one (router.rs:81-89).
THEOREM DefaultCorrect == Spec => []DefaultRouted
<1>1. Init => DefaultInv
  BY DEF Init, RouterInit, DefaultInv
<1>2. ASSUME TypeInv, DefaultInv, [Next]_vars
      PROVE  DefaultInv'
  <2>1. adapters \in Seq(Adapters)
    BY <1>2 DEF TypeInv, TypeOK, RouterTypeOK
  <2>2. CASE UNCHANGED <<adapters, default_index>>
    BY <1>2, <2>2 DEF DefaultInv
  <2>3. ASSUME NEW a \in Adapters, Register(a)
        PROVE  DefaultInv'
    BY <1>2, <2>1, <2>3 DEF DefaultInv, Register
  <2>4. ASSUME NEW n \in Names, Unregister(n)
        PROVE  DefaultInv'
    <3> DEFINE pos == PositionNamed(adapters, n)
    <3>1. CASE pos = 0
      BY <1>2, <2>4, <3>1 DEF Unregister, DefaultInv, routerVars
    <3>2. CASE pos # 0
      <4>1. pos \in DOMAIN adapters
        BY <2>1, <3>2, FirstOfName
      <4>2. adapters' \in Seq(Adapters)
        BY <2>1, <2>4, <3>2, <4>1, Removed DEF Unregister
      <4> QED
        BY <2>4, <3>2, <4>2 DEF Unregister, DefaultInv
    <3> QED
      BY <3>1, <3>2
  <2> QED
    BY <1>2, <2>2, <2>3, <2>4, RouterSteps
<1>3. TypeInv /\ DefaultInv => DefaultRouted
  BY RouterAssumption DEF TypeInv, TypeOK, RouterTypeOK, DefaultInv, DefaultRouted, RouteNamed
<1> QED
  BY TypeInit, TypeStep, <1>1, <1>2, <1>3, PTL DEF Spec

\* No registration and no removal turns a right entry of the routing table
\* into a wrong one, although a removal moves the adapters behind it
\* (router.rs:33-92).
THEOREM EntriesKept == Spec => ChangesKeepEntries
<1>1. ASSUME TypeInv, [Next]_vars, NEW id \in SelfIds, Exact(id)
      PROVE  Exact(id)' \/ UNCHANGED adapters
  <2> USE RouterAssumption
  <2>1. adapters \in Seq(Adapters) /\ self_id \in [Adapters -> SelfIds \cup {None}]
    BY <1>1 DEF TypeInv, TypeOK, RouterTypeOK
  <2>2. ASSUME NEW a \in Adapters, Register(a), UNCHANGED self_id
        PROVE  Exact(id)'
    <3>1. routing_table \in [SelfIds -> (Nat \ {0}) \cup {None}]
      BY <1>1 DEF TypeInv, TypeOK, RouterTypeOK
    <3> QED
      BY <1>1, <2>1, <2>2, <3>1 DEF Exact, Register
  <2>3. ASSUME NEW n \in Names, Unregister(n), UNCHANGED self_id
        PROVE  Exact(id)' \/ UNCHANGED adapters
    <3> DEFINE pos == PositionNamed(adapters, n)
    <3>1. CASE pos = 0
      BY <2>3, <3>1 DEF Unregister, routerVars
    <3>2. CASE pos # 0
      <4>1. pos \in DOMAIN adapters
        BY <2>1, <3>2, FirstOfName
      <4>2. adapters' \in Seq(Adapters)
        BY <2>1, <2>3, <3>2, <4>1, Removed DEF Unregister
      <4>3. routing_table'[id] =
              IF LastServing(adapters', id) = 0 THEN None ELSE LastServing(adapters', id)
        BY <2>3, <3>2 DEF Unregister, RebuiltTable
      <4>4. LastServing(adapters', id) # 0 =>
              /\ LastServing(adapters', id) \in DOMAIN adapters'
              /\ self_id[adapters'[LastServing(adapters', id)]] = id
        BY <4>2, LastOfId
      <4> QED
        BY <2>3, <4>3, <4>4 DEF Exact
    <3> QED
      BY <3>1, <3>2
  <2> QED
    BY <1>1, <2>2, <2>3, RouterSteps
<1>2. TypeInv /\ [Next]_vars =>
        [\A id \in SelfIds : Exact(id) /\ ~Exact(id)' => UNCHANGED adapters]_vars
  BY <1>1
<1> QED
  BY TypeInit, TypeStep, <1>2, PTL DEF Spec, ChangesKeepEntries

-----------------------------------------------------------------------------
(* Router and live map *)

\* Where an adapter can be: a live adapter is not displaced and has the name
\* it is filed under; one that is being added is nowhere else; adapters come
\* from the start-up or from a request; before the start-up is over the live
\* map holds the accounts started so far.
LifeInv ==
  /\ \A n \in Names : live[n] # None =>
       /\ NameOf[live[n].adapter] = n
       /\ live[n].adapter \notin displaced
       /\ \/ live[n].adapter \in Startup
          \/ \E r \in Requests : live[n].adapter = target[r]
  /\ \A a \in displaced : a \in Startup \/ \E r \in Requests : a = target[r]
  /\ \A r \in Requests : pc[r] \in {"adding", "added", "registered"} =>
       /\ target[r] \notin displaced
       /\ \A n \in Names : live[n] # None => live[n].adapter # target[r]
       /\ \A s \in Requests : s # r => target[s] # target[r]
  /\ \A r \in Requests : pc[r] = "idle" => target[r] = None
  /\ phase = "starting" =>
       /\ \A r \in Requests : pc[r] = "idle"
       /\ displaced = {}
       /\ Len(adapters) <= Len(Configured)
       /\ \A n \in Names : live[n] # None =>
            \E i \in 1..Len(adapters) : live[n].adapter = Configured[i]
  /\ phase = "stopped" => /\ Quiet
                          /\ \A n \in Names : live[n] = None

\* reconnect_adapter stores a handle and leaves the adapters of the live map.
LEMMA StoreKeepsAdapters ==
  ASSUME TypeOK, NEW r \in Requests, ReconnectStore(r), NEW m \in Names
  PROVE  /\ live'[m] = None <=> live[m] = None
         /\ live[m] # None => live'[m].adapter = live[m].adapter
<1> DEFINE n == NameOf[target[r]]
<1>1. live \in [Names -> LiveAdapter \cup {None}]
  BY DEF TypeOK
<1>2. live' = IF live[n] = None THEN live ELSE [live EXCEPT ![n].forward_handle = r]
  BY DEF ReconnectStore
<1>3. CASE m = n /\ live[n] # None
  <2>1. live'[m] = [live[m] EXCEPT !.forward_handle = r]
    BY <1>1, <1>2, <1>3
  <2>2. live[m] \in LiveAdapter /\ r \in Channels
    BY <1>1, <1>3 DEF Channels
  <2>3. live'[m] \in LiveAdapter /\ live'[m].adapter = live[m].adapter
    BY <2>1, <2>2 DEF LiveAdapter
  <2> QED
    BY <1>3, <2>3, ManagerAssumption
<1>4. CASE ~(m = n /\ live[n] # None)
  BY <1>1, <1>2, <1>4
<1> QED
  BY <1>3, <1>4

LEMMA LifeInit == Init => LifeInv
  BY ManagerAssumption
  DEF Init, RouterInit, LifeInv, Startup, ToSet

LEMMA LifeStep ==
  ASSUME TypeInv, LifeInv, [Next]_vars
  PROVE  LifeInv'
<1> USE RouterAssumption, ManagerAssumption
<1>1. live \in [Names -> LiveAdapter \cup {None}]
  BY DEF TypeInv, TypeOK
<1>2. \A n \in Names : live[n] # None => live[n].adapter \in Adapters
  BY <1>1 DEF LiveAdapter
<1>3. /\ pc \in [Requests -> {"idle", "adding", "added", "registered", "removing",
                             "unregistering", "resetting", "reset", "dialing", "storing", "done", "dropped"}]
      /\ target \in [Requests -> Adapters \cup {None}]
      /\ displaced \in SUBSET Adapters
      /\ adapters \in Seq(Adapters)
  BY DEF TypeInv, TypeOK, RouterTypeOK
<1>4. \A a \in Adapters, c \in Channels :
        /\ [adapter |-> a, forward_handle |-> c] # None
        /\ [adapter |-> a, forward_handle |-> c].adapter = a
  BY DEF LiveAdapter
<1>5. CASE StartAccount
  <2> DEFINE k == Len(adapters) + 1
             a == Configured[k]
  <2>1. k \in DOMAIN Configured
    BY <1>3, <1>5 DEF StartAccount
  <2>2. a \in Startup /\ a \in Channels /\ a \in Adapters
    BY <2>1 DEF Startup, Channels, ToSet
  <2>3. /\ live' = [live EXCEPT ![NameOf[a]] = [adapter |-> a, forward_handle |-> a]]
        /\ adapters' = Append(adapters, a)
        /\ UNCHANGED <<phase, displaced, pc, target>>
        /\ phase = "starting"
    BY <1>5 DEF StartAccount, Register, requestVars
  <2>4. \A n \in Names : live'[n] # None =>
          \E i \in 1..Len(adapters') : live'[n].adapter = Configured[i]
    <3>1. Len(adapters') = k
      BY <1>3, <2>2, <2>3
    <3> QED
      BY <1>1, <1>3, <1>4, <2>2, <2>3, <3>1 DEF LifeInv
  <2>5. \A n \in Names : live'[n] # None =>
          live'[n].adapter \in Startup /\ NameOf[live'[n].adapter] = n
    BY <1>1, <1>4, <2>1, <2>2, <2>3 DEF LifeInv, Startup, ToSet
  <2>6. Len(adapters') <= Len(Configured)
    BY <1>3, <2>1, <2>2, <2>3
  <2> HIDE DEF a, k
  <2> QED
    BY <2>3, <2>4, <2>5, <2>6 DEF LifeInv
<1>6. CASE Started
  BY <1>1, <1>2, <1>3, <1>6 DEF Started, LifeInv, routerVars, requestVars
<1>7. CASE Shutdown
  BY <1>1, <1>2, <1>3, <1>7 DEF Shutdown, LifeInv, requestVars, Quiet, InProgress, LiveAdapters
<1>8. ASSUME NEW r \in Requests, NEW a \in Adapters, AddCheck(r, a)
      PROVE  LifeInv'
  BY <1>1, <1>2, <1>3, <1>8 DEF AddCheck, LifeInv, Fresh, routerVars
<1>9. ASSUME NEW r \in Requests, AddInsert(r)
      PROVE  LifeInv'
  <2> DEFINE a == target[r]
             n == NameOf[a]
  <2>1. a \in Adapters /\ r \in Channels /\ n \in Names
    BY <1>9 DEF AddInsert, TypeInv, Targeted, InProgress, Channels
  <2>2. /\ live'[n] # None /\ live'[n].adapter = a
        /\ \A m \in Names : m # n => live'[m] = live[m]
    BY <1>1, <1>4, <1>9, <2>1 DEF AddInsert
  <2>3. /\ displaced' = IF live[n] = None THEN displaced ELSE displaced \cup {live[n].adapter}
        /\ pc' = [pc EXCEPT ![r] = "done"] /\ pc[r] = "registered"
        /\ UNCHANGED <<adapters, phase, target>>
    BY <1>9 DEF AddInsert, routerVars
  <2>4. phase \notin {"starting", "stopped"}
    BY <1>3, <2>3 DEF LifeInv, Quiet, InProgress
  <2>5. \A m \in Names : live'[m] # None =>
          /\ NameOf[live'[m].adapter] = m
          /\ live'[m].adapter \notin displaced'
          /\ live'[m].adapter \in Startup \/ \E s \in Requests : live'[m].adapter = target'[s]
    BY <2>1, <2>2, <2>3 DEF LifeInv
  <2>6. \A s \in Requests : pc'[s] \in {"adding", "added", "registered"} =>
          /\ target'[s] \notin displaced'
          /\ \A m \in Names : live'[m] # None => live'[m].adapter # target'[s]
          /\ \A q \in Requests : q # s => target'[q] # target'[s]
    BY <1>3, <2>1, <2>2, <2>3 DEF LifeInv
  <2>7. \A b \in displaced' : b \in Startup \/ \E s \in Requests : b = target'[s]
    BY <2>1, <2>3 DEF LifeInv
  <2>8. \A s \in Requests : pc'[s] = "idle" => target'[s] = None
    BY <1>3, <2>3 DEF LifeInv
  <2> QED
    BY <2>3, <2>4, <2>5, <2>6, <2>7, <2>8 DEF LifeInv
<1>10. ASSUME NEW r \in Requests, NEW n \in Names, RemoveTake(r, n) \/ ReconnectTake(r, n)
      PROVE  LifeInv'
  <2>1. CASE RemoveTake(r, n)
    BY <1>1, <1>2, <1>3, <2>1 DEF RemoveTake, LifeInv, routerVars
  <2>2. CASE ReconnectTake(r, n)
    BY <1>1, <1>2, <1>3, <2>2 DEF ReconnectTake, LifeInv, routerVars, managerVars
  <2> QED
    BY <1>10, <2>1, <2>2
<1>11. ASSUME NEW r \in Requests, ReconnectStore(r)
      PROVE  LifeInv'
  <2>1. \A m \in Names : /\ live'[m] = None <=> live[m] = None
                         /\ live[m] # None => live'[m].adapter = live[m].adapter
    BY <1>11, StoreKeepsAdapters DEF TypeInv
  <2>2. pc' = [pc EXCEPT ![r] = "done"] /\ pc[r] = "storing"
        /\ UNCHANGED <<adapters, phase, displaced, target>>
    BY <1>11 DEF ReconnectStore, routerVars
  <2>3. phase \notin {"starting", "stopped"}
    BY <1>3, <2>2 DEF LifeInv, Quiet, InProgress
  <2>4. \A m \in Names : live'[m] # None =>
          /\ NameOf[live'[m].adapter] = m
          /\ live'[m].adapter \notin displaced'
          /\ live'[m].adapter \in Startup \/ \E s \in Requests : live'[m].adapter = target'[s]
    <3> SUFFICES ASSUME NEW m \in Names, live'[m] # None
                 PROVE  /\ NameOf[live'[m].adapter] = m
                        /\ live'[m].adapter \notin displaced'
                        /\ \/ live'[m].adapter \in Startup
                           \/ \E s \in Requests : live'[m].adapter = target'[s]
      OBVIOUS
    <3>1. live[m] # None /\ live'[m].adapter = live[m].adapter
      BY <2>1
    <3> QED
      BY <2>2, <3>1 DEF LifeInv
  <2>5. \A s \in Requests : pc'[s] \in {"adding", "added", "registered"} =>
          /\ target'[s] \notin displaced'
          /\ \A m \in Names : live'[m] # None => live'[m].adapter # target'[s]
          /\ \A q \in Requests : q # s => target'[q] # target'[s]
    <3> SUFFICES ASSUME NEW s \in Requests, pc'[s] \in {"adding", "added", "registered"}
                 PROVE  /\ target'[s] \notin displaced'
                        /\ \A m \in Names : live'[m] # None => live'[m].adapter # target'[s]
                        /\ \A q \in Requests : q # s => target'[q] # target'[s]
      OBVIOUS
    <3>1. pc[s] \in {"adding", "added", "registered"}
      BY <1>3, <2>2
    <3>2. \A m \in Names : live'[m] # None => live[m] # None /\ live'[m].adapter = live[m].adapter
      BY <2>1
    <3>3. \A m \in Names : live[m] # None => live[m].adapter # target[s]
      BY <3>1 DEF LifeInv
    <3>4. /\ target[s] \notin displaced
          /\ \A q \in Requests : q # s => target[q] # target[s]
      BY <3>1 DEF LifeInv
    <3>5. \A m \in Names : live'[m] # None => live'[m].adapter # target'[s]
      BY <2>2, <3>2, <3>3
    <3> QED
      BY <2>2, <3>4, <3>5
  <2>6. \A s \in Requests : pc'[s] = "idle" => target'[s] = None
    BY <1>3, <2>2 DEF LifeInv
  <2>7. \A b \in displaced' : b \in Startup \/ \E s \in Requests : b = target'[s]
    BY <2>2 DEF LifeInv
  <2> QED
    BY <2>2, <2>3, <2>4, <2>5, <2>6, <2>7 DEF LifeInv
<1>12. ASSUME NEW r \in Requests,
              \/ AddConnect(r) \/ AddRegister(r) \/ RemoveDisconnect(r) \/ RemoveUnregister(r)
              \/ ReconnectDisconnect(r) \/ ReconnectBegin(r) \/ ReconnectConnect(r) \/ RequestDropped(r)
      PROVE  LifeInv'
  BY <1>1, <1>2, <1>3, <1>12 DEF AddConnect, AddRegister, RemoveDisconnect, RemoveUnregister,
    ReconnectDisconnect, ReconnectBegin, ReconnectConnect, RequestDropped, LifeInv, managerVars, Quiet, InProgress
<1>13. CASE UNCHANGED <<adapters, phase, live, displaced, pc, target>>
  BY <1>13 DEF LifeInv, Quiet, InProgress
<1>14. ASSUME \/ \E a \in Adapters : LearnSelfId(a)
              \/ \E c \in Channels : ConnectionLost(c) \/ ForwarderEnd(c)
              \/ RefresherStep \/ UNCHANGED vars
      PROVE  UNCHANGED <<adapters, phase, live, displaced, pc, target>>
  BY <1>14 DEF LearnSelfId, ConnectionLost, ForwarderEnd, RefresherStep, RefreshList, RefreshNames,
    RefreshVisit, RefreshEnd, AssociateSelfId, vars, routerVars, managerVars, requestVars
<1> QED
  BY <1>5, <1>6, <1>7, <1>8, <1>9, <1>10, <1>11, <1>12, <1>13, <1>14 DEF Next, RequestStep

-----------------------------------------------------------------------------
(* The accounting of the router *)

\* What RouterAccounted counts is finite.
LEMMA CountedFinite ==
  ASSUME TypeInv, NEW n \in Names
  PROVE  /\ IsFiniteSet(Placed(n)) /\ IsFiniteSet(Unsettled(n)) /\ IsFiniteSet(DisplacedNamed(n))
         /\ Cardinality(Placed(n)) \in Nat
         /\ Cardinality(Unsettled(n)) \in Nat
         /\ Cardinality(DisplacedNamed(n)) \in Nat
<1>1. IsFiniteSet(Placed(n))
  <2>1. DOMAIN adapters = 1..Len(adapters) /\ Len(adapters) \in Nat
    BY DEF TypeInv, TypeOK, RouterTypeOK
  <2>2. IsFiniteSet(1..Len(adapters))
    BY <2>1, FS_Interval
  <2>3. Placed(n) \in SUBSET (1..Len(adapters))
    BY <2>1 DEF Placed
  <2> QED
    BY <2>2, <2>3, FS_Subset
<1>2. IsFiniteSet(Unsettled(n))
  <2>1. Unsettled(n) \in SUBSET Requests
    BY DEF Unsettled
  <2> QED
    BY <2>1, FS_Subset, ManagerAssumption
<1>3. IsFiniteSet(DisplacedNamed(n))
  <2>1. DisplacedNamed(n) \in SUBSET Adapters
    BY DEF DisplacedNamed, TypeInv, TypeOK
  <2> QED
    BY <2>1, FS_Subset, ManagerAssumption
<1> QED
  BY <1>1, <1>2, <1>3, FS_CardinalityType

\* register_adapter adds one place, of the adapter's name.
LEMMA CountRegister ==
  ASSUME TypeInv, NEW a \in Adapters, Register(a), NEW n \in Names
  PROVE  Cardinality(Placed(n)') = Cardinality(Placed(n)) + (IF NameOf[a] = n THEN 1 ELSE 0)
<1> DEFINE last == Len(adapters) + 1
<1>1. adapters \in Seq(Adapters) /\ adapters' = Append(adapters, a)
  BY DEF TypeInv, TypeOK, RouterTypeOK, Register
<1>2. Placed(n)' = IF NameOf[a] = n THEN Placed(n) \cup {last} ELSE Placed(n)
  BY <1>1 DEF Placed
<1>3. last \notin Placed(n)
  BY <1>1 DEF Placed
<1>4. IsFiniteSet(Placed(n)) /\ Cardinality(Placed(n)) \in Nat
  BY CountedFinite
<1>5. Cardinality(Placed(n) \cup {last}) = Cardinality(Placed(n)) + 1
  BY <1>3, <1>4, FS_AddElement
<1> QED
  BY <1>2, <1>4, <1>5

\* unregister_adapter takes one place of the name it is given, if there is one.
LEMMA CountUnregister ==
  ASSUME TypeInv, NEW n \in Names, Unregister(n), NEW m \in Names
  PROVE  Cardinality(Placed(m)') =
           Cardinality(Placed(m)) - (IF m = n /\ Placed(n) # {} THEN 1 ELSE 0)
<1> DEFINE pos == PositionNamed(adapters, n)
           move == [j \in Placed(m)' |-> IF j < pos THEN j ELSE j + 1]
<1>1. adapters \in Seq(Adapters)
  BY DEF TypeInv, TypeOK, RouterTypeOK
<1>2. CASE pos = 0
  <2>1. \A i \in DOMAIN adapters : NameOf[adapters[i]] # n
    BY <1>1, <1>2, FirstOfName
  <2>2. Placed(n) = {}
    BY <2>1 DEF Placed
  <2>3. adapters' = adapters
    BY <1>2 DEF Unregister, routerVars
  <2>4. Placed(m)' = Placed(m)
    BY <2>3 DEF Placed
  <2> QED
    BY <2>2, <2>4, CountedFinite
<1>3. CASE pos # 0
  <2>1. pos \in DOMAIN adapters /\ NameOf[adapters[pos]] = n
    BY <1>1, <1>3, FirstOfName
  <2>2. /\ adapters' \in Seq(Adapters)
        /\ Len(adapters') = Len(adapters) - 1
        /\ \A i \in DOMAIN adapters' : adapters'[i] = IF i < pos THEN adapters[i] ELSE adapters[i + 1]
    <3>1. adapters' = RemoveAt(adapters, pos)
      BY <1>3 DEF Unregister
    <3> HIDE DEF pos
    <3> QED BY <1>1, <2>1, <3>1, Removed
  <2>3. /\ DOMAIN adapters = 1..Len(adapters) /\ Len(adapters) \in Nat
        /\ DOMAIN adapters' = 1..(Len(adapters) - 1)
        /\ pos \in 1..Len(adapters)
    BY <1>1, <2>1, <2>2
  <2> HIDE DEF pos
  <2>4. move \in [Placed(m)' -> Placed(m) \ {pos}]
    BY <2>2, <2>3 DEF Placed
  <2>5. \A i, j \in Placed(m)' : move[i] = move[j] => i = j
    BY <2>3 DEF Placed
  <2>6. \A k \in Placed(m) \ {pos} : \E j \in Placed(m)' : move[j] = k
    <3> SUFFICES ASSUME NEW k \in Placed(m) \ {pos}
                 PROVE  \E j \in Placed(m)' : move[j] = k
      OBVIOUS
    <3>1. k \in 1..Len(adapters) /\ NameOf[adapters[k]] = m
      BY <2>3 DEF Placed
    <3>2. CASE k < pos
      <4>1. k \in Placed(m)'
        BY <2>2, <2>3, <3>1, <3>2 DEF Placed
      <4> QED
        BY <3>2, <4>1
    <3>3. CASE k > pos
      <4>1. k - 1 \in Placed(m)'
        BY <2>2, <2>3, <3>1, <3>3 DEF Placed
      <4>2. ~(k - 1 < pos) /\ (k - 1) + 1 = k
        BY <2>3, <3>1, <3>3
      <4>3. move[k - 1] = k
        BY <4>1, <4>2
      <4> QED
        BY <4>1, <4>3
    <3> QED
      BY <2>3, <3>1, <3>2, <3>3
  <2>7. ExistsBijection(Placed(m)', Placed(m) \ {pos})
    <3> HIDE DEF move
    <3>1. move \in Bijection(Placed(m)', Placed(m) \ {pos})
      BY <2>4, <2>5, <2>6 DEF Bijection, Injection, Surjection, IsInjective
    <3> QED
      BY <3>1 DEF ExistsBijection
  <2>8. IsFiniteSet(Placed(m)')
    <3>1. IsFiniteSet(1..(Len(adapters) - 1))
      BY <2>3, FS_Interval
    <3>2. Placed(m)' \in SUBSET (1..(Len(adapters) - 1))
      BY <2>3 DEF Placed
    <3> QED
      BY <3>1, <3>2, FS_Subset
  <2>9. Cardinality(Placed(m)') = Cardinality(Placed(m) \ {pos})
    BY <2>7, <2>8, FS_Bijection
  <2>10. pos \in Placed(m) <=> m = n
    BY <2>1 DEF Placed
  <2>11. /\ IsFiniteSet(Placed(m)) /\ Cardinality(Placed(m)) \in Nat
         /\ m = n => Placed(n) # {}
    BY <2>10, CountedFinite
  <2>12. Cardinality(Placed(m) \ {pos}) = Cardinality(Placed(m)) - (IF m = n THEN 1 ELSE 0)
    <3>1. Cardinality(Placed(m) \ {pos}) =
            IF pos \in Placed(m) THEN Cardinality(Placed(m)) - 1 ELSE Cardinality(Placed(m))
      BY <2>11, FS_RemoveElement
    <3> QED BY <2>10, <2>11, <3>1
  <2> QED
    BY <2>9, <2>11, <2>12
<1> QED
  BY <1>2, <1>3

LEMMA AccountInit == Init => RouterAccounted
<1> SUFFICES ASSUME Init, NEW n \in Names
             PROVE  /\ Cardinality(Placed(n)) = 0 /\ live[n] = None
                    /\ Cardinality(Unsettled(n)) = 0 /\ Cardinality(DisplacedNamed(n)) = 0
  BY DEF RouterAccounted
<1>1. Placed(n) = {} /\ Unsettled(n) = {} /\ DisplacedNamed(n) = {}
  BY DEF Init, RouterInit, Placed, Unsettled, DisplacedNamed
<1> QED
  BY <1>1, FS_EmptySet DEF Init

LEMMA AccountStep ==
  ASSUME TypeInv, LifeInv, RouterAccounted, [Next]_vars
  PROVE  RouterAccounted'
<1> USE RouterAssumption, ManagerAssumption
<1> DEFINE Has(l) == IF l = None THEN 0 ELSE 1
           Between == {"registered", "removing", "unregistering"}
<1> SUFFICES ASSUME NEW m \in Names
             PROVE  Cardinality(Placed(m)') =
                      Has(live'[m]) + Cardinality(Unsettled(m)') + Cardinality(DisplacedNamed(m)')
  BY DEF RouterAccounted
<1>1. /\ live \in [Names -> LiveAdapter \cup {None}]
      /\ \A n \in Names : live[n] # None => live[n].adapter \in Adapters
  BY DEF TypeInv, TypeOK, LiveAdapter
<1>2. /\ pc \in [Requests -> {"idle", "adding", "added", "registered", "removing",
                             "unregistering", "resetting", "reset", "dialing", "storing", "done", "dropped"}]
      /\ target \in [Requests -> Adapters \cup {None}]
      /\ displaced \in SUBSET Adapters
  BY DEF TypeInv, TypeOK
<1>3. /\ Cardinality(Placed(m)) = Has(live[m]) + Cardinality(Unsettled(m)) + Cardinality(DisplacedNamed(m))
      /\ IsFiniteSet(Unsettled(m)) /\ IsFiniteSet(DisplacedNamed(m))
      /\ Cardinality(Placed(m)) \in Nat
      /\ Cardinality(Unsettled(m)) \in Nat
      /\ Cardinality(DisplacedNamed(m)) \in Nat
  BY CountedFinite DEF RouterAccounted
<1>4. \A a \in Adapters, c \in Channels : [adapter |-> a, forward_handle |-> c] # None
  BY DEF LiveAdapter
<1>5. ASSUME adapters' = adapters, displaced' = displaced, Unsettled(m)' = Unsettled(m),
             live'[m] = None <=> live[m] = None
      PROVE  Cardinality(Placed(m)') =
               Has(live'[m]) + Cardinality(Unsettled(m)') + Cardinality(DisplacedNamed(m)')
  <2>1. Placed(m)' = Placed(m) /\ DisplacedNamed(m)' = DisplacedNamed(m)
    BY <1>5 DEF Placed, DisplacedNamed
  <2> QED
    BY <1>3, <1>5, <2>1
<1>6. CASE StartAccount
  <2> DEFINE k == Len(adapters) + 1
             a == Configured[k]
  <2>1. k \in DOMAIN Configured /\ adapters \in Seq(Adapters)
    BY <1>6 DEF StartAccount, TypeInv, TypeOK, RouterTypeOK
  <2>2. a \in Startup /\ a \in Channels /\ a \in Adapters
    BY <2>1 DEF Startup, Channels, ToSet
  <2>3. /\ Register(a)
        /\ live' = [live EXCEPT ![NameOf[a]] = [adapter |-> a, forward_handle |-> a]]
        /\ UNCHANGED <<displaced, pc, target>>
        /\ phase = "starting"
    BY <1>6 DEF StartAccount, requestVars
  <2>4. Unsettled(m)' = Unsettled(m) /\ DisplacedNamed(m)' = DisplacedNamed(m)
    BY <2>3 DEF Unsettled, DisplacedNamed
  <2>5. live[NameOf[a]] = None
    <3> SUFFICES ASSUME live[NameOf[a]] # None PROVE FALSE
      OBVIOUS
    <3>1. PICK i \in 1..Len(adapters) : live[NameOf[a]].adapter = Configured[i]
      BY <2>2, <2>3 DEF LifeInv
    <3>2. NameOf[Configured[i]] = NameOf[a]
      BY <2>2, <3>1 DEF LifeInv
    <3>3. i \in DOMAIN Configured /\ i # k
      BY <2>1, <3>1
    <3> QED
      BY <2>1, <3>2, <3>3
  <2>6. Cardinality(Placed(m)') = Cardinality(Placed(m)) + (IF NameOf[a] = m THEN 1 ELSE 0)
    BY <2>2, <2>3, CountRegister
  <2>7. Has(live'[m]) = Has(live[m]) + (IF NameOf[a] = m THEN 1 ELSE 0)
    BY <1>1, <1>4, <2>2, <2>3, <2>5
  <2> QED
    BY <1>3, <2>4, <2>6, <2>7
<1>7. CASE Shutdown
  <2>1. /\ phase' = "stopped" /\ live'[m] = None
        /\ displaced' = displaced \cup LiveAdapters
        /\ UNCHANGED <<adapters, pc, target>>
        /\ Quiet
    BY <1>7 DEF Shutdown, routerVars, requestVars
  <2>2. Placed(m)' = Placed(m) /\ Unsettled(m)' = Unsettled(m)
    BY <2>1 DEF Placed, Unsettled
  <2>3. DisplacedNamed(m)' = IF live[m] = None THEN DisplacedNamed(m)
                             ELSE DisplacedNamed(m) \cup {live[m].adapter}
    <3>1. \A a \in LiveAdapters : NameOf[a] = m <=> live[m] # None /\ a = live[m].adapter
      BY DEF LiveAdapters, LifeInv
    <3>2. live[m] # None => live[m].adapter \in LiveAdapters /\ NameOf[live[m].adapter] = m
      BY DEF LiveAdapters, LifeInv
    <3> QED
      BY <2>1, <3>1, <3>2 DEF DisplacedNamed
  <2>4. live[m] # None => live[m].adapter \notin DisplacedNamed(m)
    BY DEF LifeInv, DisplacedNamed
  <2>5. Cardinality(DisplacedNamed(m)') = Cardinality(DisplacedNamed(m)) + Has(live[m])
    <3>1. live[m] # None =>
            Cardinality(DisplacedNamed(m) \cup {live[m].adapter}) = Cardinality(DisplacedNamed(m)) + 1
      BY <1>3, <2>4, FS_AddElement
    <3> QED
      BY <1>3, <2>3, <3>1
  <2> QED
    BY <1>3, <2>1, <2>2, <2>5
<1>8. ASSUME NEW r \in Requests, AddRegister(r)
      PROVE  Cardinality(Placed(m)') =
               Has(live'[m]) + Cardinality(Unsettled(m)') + Cardinality(DisplacedNamed(m)')
  <2>1. /\ target[r] \in Adapters /\ Register(target[r])
        /\ pc[r] = "added" /\ pc' = [pc EXCEPT ![r] = "registered"]
        /\ UNCHANGED <<live, displaced, target>>
    BY <1>8 DEF AddRegister, managerVars, TypeInv, Targeted, InProgress
  <2>2. DisplacedNamed(m)' = DisplacedNamed(m)
    BY <2>1 DEF DisplacedNamed
  <2>3. Unsettled(m)' = IF NameOf[target[r]] = m THEN Unsettled(m) \cup {r} ELSE Unsettled(m)
    BY <1>2, <2>1 DEF Unsettled
  <2>4. r \notin Unsettled(m)
    BY <2>1 DEF Unsettled
  <2>5. Cardinality(Unsettled(m)') = Cardinality(Unsettled(m)) + (IF NameOf[target[r]] = m THEN 1 ELSE 0)
    <3>1. Cardinality(Unsettled(m) \cup {r}) = Cardinality(Unsettled(m)) + 1
      BY <1>3, <2>4, FS_AddElement
    <3> QED
      BY <1>3, <2>3, <3>1
  <2>6. Cardinality(Placed(m)') = Cardinality(Placed(m)) + (IF NameOf[target[r]] = m THEN 1 ELSE 0)
    BY <2>1, CountRegister
  <2> QED
    BY <1>3, <2>1, <2>2, <2>5, <2>6
<1>9. ASSUME NEW r \in Requests, AddInsert(r)
      PROVE  Cardinality(Placed(m)') =
               Has(live'[m]) + Cardinality(Unsettled(m)') + Cardinality(DisplacedNamed(m)')
  <2> DEFINE n == NameOf[target[r]]
  <2>1. /\ target[r] \in Adapters /\ r \in Channels /\ n \in Names
        /\ pc[r] = "registered" /\ pc' = [pc EXCEPT ![r] = "done"]
        /\ live' = [live EXCEPT ![n] = [adapter |-> target[r], forward_handle |-> r]]
        /\ displaced' = IF live[n] = None THEN displaced ELSE displaced \cup {live[n].adapter}
        /\ UNCHANGED <<adapters, target>>
    BY <1>9 DEF AddInsert, routerVars, TypeInv, Targeted, InProgress, Channels
  <2>2. Placed(m)' = Placed(m)
    BY <2>1 DEF Placed
  <2>3. Unsettled(m)' = IF n = m THEN Unsettled(m) \ {r} ELSE Unsettled(m)
    BY <1>2, <2>1 DEF Unsettled
  <2>4. r \in Unsettled(m) <=> n = m
    BY <2>1 DEF Unsettled
  <2>5. Cardinality(Unsettled(m)') = Cardinality(Unsettled(m)) - (IF n = m THEN 1 ELSE 0)
    <3>1. n = m => Cardinality(Unsettled(m) \ {r}) = Cardinality(Unsettled(m)) - 1
      BY <1>3, <2>4, FS_RemoveElement
    <3> QED
      BY <1>3, <2>3, <3>1
  <2>6. CASE n = m
    <3>1. Has(live'[m]) = 1
      BY <1>1, <1>4, <2>1, <2>6
    <3>2. live[m] # None => NameOf[live[m].adapter] = m /\ live[m].adapter \notin DisplacedNamed(m)
      BY DEF LifeInv, DisplacedNamed
    <3>3. DisplacedNamed(m)' = IF live[m] = None THEN DisplacedNamed(m)
                               ELSE DisplacedNamed(m) \cup {live[m].adapter}
      BY <2>1, <2>6, <3>2 DEF DisplacedNamed
    <3>4. Cardinality(DisplacedNamed(m)') = Cardinality(DisplacedNamed(m)) + Has(live[m])
      <4>1. live[m] # None =>
              Cardinality(DisplacedNamed(m) \cup {live[m].adapter}) = Cardinality(DisplacedNamed(m)) + 1
        BY <1>3, <3>2, FS_AddElement
      <4> QED
        BY <1>3, <3>3, <4>1
    <3> QED
      BY <1>3, <2>2, <2>5, <2>6, <3>1, <3>4
  <2>7. CASE n # m
    <3>1. live'[m] = live[m]
      BY <1>1, <2>1, <2>7
    <3>2. DisplacedNamed(m)' = DisplacedNamed(m)
      BY <2>1, <2>7 DEF DisplacedNamed, LifeInv
    <3> QED
      BY <1>3, <2>2, <2>5, <2>7, <3>1, <3>2
  <2> QED
    BY <2>6, <2>7
<1>10. ASSUME NEW r \in Requests, NEW n \in Names, RemoveTake(r, n)
      PROVE  Cardinality(Placed(m)') =
               Has(live'[m]) + Cardinality(Unsettled(m)') + Cardinality(DisplacedNamed(m)')
  <2>1. /\ pc[r] = "idle" /\ pc' = [pc EXCEPT ![r] = "removing"]
        /\ live[n] # None /\ live' = [live EXCEPT ![n] = None]
        /\ target' = [target EXCEPT ![r] = live[n].adapter]
        /\ UNCHANGED <<adapters, displaced>>
    BY <1>10 DEF RemoveTake, routerVars
  <2>2. Placed(m)' = Placed(m) /\ DisplacedNamed(m)' = DisplacedNamed(m)
    BY <2>1 DEF Placed, DisplacedNamed
  <2>3. NameOf[live[n].adapter] = n
    BY <2>1 DEF LifeInv
  <2>4. Unsettled(m)' = IF n = m THEN Unsettled(m) \cup {r} ELSE Unsettled(m)
    BY <1>2, <2>1, <2>3 DEF Unsettled
  <2>5. r \notin Unsettled(m)
    BY <2>1 DEF Unsettled
  <2>6. Cardinality(Unsettled(m)') = Cardinality(Unsettled(m)) + (IF n = m THEN 1 ELSE 0)
    <3>1. Cardinality(Unsettled(m) \cup {r}) = Cardinality(Unsettled(m)) + 1
      BY <1>3, <2>5, FS_AddElement
    <3> QED
      BY <1>3, <2>4, <3>1
  <2>7. Has(live'[m]) = Has(live[m]) - (IF n = m THEN 1 ELSE 0)
    BY <1>1, <2>1
  <2> QED
    BY <1>3, <2>2, <2>6, <2>7
<1>11. ASSUME NEW r \in Requests, RemoveUnregister(r)
      PROVE  Cardinality(Placed(m)') =
               Has(live'[m]) + Cardinality(Unsettled(m)') + Cardinality(DisplacedNamed(m)')
  <2> DEFINE n == NameOf[target[r]]
  <2>1. /\ target[r] \in Adapters /\ n \in Names /\ Unregister(n)
        /\ pc[r] = "unregistering" /\ pc' = [pc EXCEPT ![r] = "done"]
        /\ UNCHANGED <<live, displaced, target>>
    BY <1>11 DEF RemoveUnregister, managerVars, TypeInv, Targeted, InProgress
  <2>2. DisplacedNamed(m)' = DisplacedNamed(m)
    BY <2>1 DEF DisplacedNamed
  <2>3. Unsettled(m)' = IF n = m THEN Unsettled(m) \ {r} ELSE Unsettled(m)
    BY <1>2, <2>1 DEF Unsettled
  <2>4. r \in Unsettled(m) <=> n = m
    BY <2>1 DEF Unsettled
  <2>5. Cardinality(Unsettled(m)') = Cardinality(Unsettled(m)) - (IF n = m THEN 1 ELSE 0)
    <3>1. n = m => Cardinality(Unsettled(m) \ {r}) = Cardinality(Unsettled(m)) - 1
      BY <1>3, <2>4, FS_RemoveElement
    <3> QED
      BY <1>3, <2>3, <3>1
  <2>6. n = m => Placed(m) # {}
    <3> SUFFICES ASSUME n = m, Placed(m) = {} PROVE FALSE
      OBVIOUS
    <3>1. Cardinality(Placed(m)) = 0
      BY FS_EmptySet
    <3>2. Unsettled(m) # {}
      BY <2>4
    <3>3. Cardinality(Unsettled(m)) # 0
      BY <1>3, <3>2, FS_EmptySet
    <3> QED
      BY <1>3, <3>1, <3>3
  <2>7. Cardinality(Placed(m)') = Cardinality(Placed(m)) - (IF m = n THEN 1 ELSE 0)
    BY <2>1, <2>6, CountUnregister
  <2>8. Has(live'[m]) = Has(live[m])
    BY <2>1
  <2> HIDE DEF Has
  <2>9. Has(live[m]) \in Nat
    BY DEF Has
  <2> QED
    BY <1>3, <2>2, <2>5, <2>7, <2>8, <2>9
<1>12. ASSUME NEW r \in Requests, ReconnectStore(r)
      PROVE  Cardinality(Placed(m)') =
               Has(live'[m]) + Cardinality(Unsettled(m)') + Cardinality(DisplacedNamed(m)')
  <2>1. live'[m] = None <=> live[m] = None
    BY <1>12, StoreKeepsAdapters DEF TypeInv
  <2>2. /\ pc[r] = "storing" /\ pc' = [pc EXCEPT ![r] = "done"]
        /\ UNCHANGED <<adapters, displaced, target>>
    BY <1>12 DEF ReconnectStore, routerVars
  <2>3. Unsettled(m)' = Unsettled(m)
    BY <1>2, <2>2 DEF Unsettled
  <2> QED
    BY <1>5, <2>1, <2>2, <2>3
<1>13. ASSUME NEW r \in Requests,
              \/ \E a \in Adapters : AddCheck(r, a)
              \/ \E n \in Names : ReconnectTake(r, n)
              \/ AddConnect(r) \/ RemoveDisconnect(r) \/ ReconnectDisconnect(r)
              \/ ReconnectBegin(r) \/ ReconnectConnect(r) \/ RequestDropped(r)
      PROVE  Cardinality(Placed(m)') =
               Has(live'[m]) + Cardinality(Unsettled(m)') + Cardinality(DisplacedNamed(m)')
  <2> USE DEF routerVars, managerVars
  <2>1. UNCHANGED <<adapters, displaced, live>>
    BY <1>13 DEF AddCheck, ReconnectTake, AddConnect, RemoveDisconnect, ReconnectDisconnect,
      ReconnectBegin, ReconnectConnect, RequestDropped
  <2>2. /\ \A s \in Requests : pc'[s] \in Between <=> pc[s] \in Between
        /\ \A s \in Requests : pc[s] \in Between => target'[s] = target[s]
    BY <1>2, <1>13 DEF AddCheck, ReconnectTake, AddConnect, RemoveDisconnect, ReconnectDisconnect,
      ReconnectBegin, ReconnectConnect, RequestDropped
  <2>3. Unsettled(m)' = Unsettled(m)
    BY <2>2 DEF Unsettled
  <2> QED
    BY <1>5, <2>1, <2>3
<1>14. ASSUME \/ \E a \in Adapters : LearnSelfId(a)
              \/ \E c \in Channels : ConnectionLost(c) \/ ForwarderEnd(c)
              \/ Started \/ RefresherStep \/ UNCHANGED vars
      PROVE  Cardinality(Placed(m)') =
               Has(live'[m]) + Cardinality(Unsettled(m)') + Cardinality(DisplacedNamed(m)')
  <2>1. UNCHANGED <<adapters, live, displaced, pc, target>>
    BY <1>14 DEF LearnSelfId, ConnectionLost, ForwarderEnd, Started, RefresherStep, RefreshList,
      RefreshNames, RefreshVisit, RefreshEnd, AssociateSelfId, vars, routerVars, managerVars, requestVars
  <2>2. Unsettled(m)' = Unsettled(m)
    BY <2>1 DEF Unsettled
  <2> QED
    BY <1>5, <2>1, <2>2
<1> QED
  BY <1>6, <1>7, <1>8, <1>9, <1>10, <1>11, <1>12, <1>13, <1>14 DEF Next, RequestStep

\* The router holds for each name exactly the live adapter, the overlapping
\* requests' ones and the displaced ones, for any number of requests, names
\* and adapters: no removal takes out of the router what it did not take out
\* of the live map.
THEOREM AccountingCorrect == Spec => []RouterAccounted
<1>1. Init => TypeInv /\ LifeInv /\ RouterAccounted
  BY TypeInit, LifeInit, AccountInit
<1>2. TypeInv /\ LifeInv /\ RouterAccounted /\ [Next]_vars => (TypeInv /\ LifeInv /\ RouterAccounted)'
  BY TypeStep, LifeStep, AccountStep
<1> QED
  BY <1>1, <1>2, PTL DEF Spec

-----------------------------------------------------------------------------
(* Live adapters are routed *)

\* The adapter is the last of its name in the router's list.
LastPlaced(n, a) ==
  \E i \in DOMAIN adapters : /\ adapters[i] = a
                             /\ \A j \in DOMAIN adapters : NameOf[adapters[j]] = n => j <= i

\* Of a name without overlapping additions: at most one request is adding an
\* adapter of it, none while it is live, and the live or registered one is
\* the last of the name, which unregister takes only when it is alone.
LiveFor(n) ==
  /\ live[n] # None => Adding(n) = {} /\ LastPlaced(n, live[n].adapter)
  /\ \A r, s \in Adding(n) : r = s
  /\ \A r \in Adding(n) : pc[r] = "registered" => LastPlaced(n, target[r])

LiveInv == \A n \in Names : n \notin contested => LiveFor(n)

\* An adapter is the last of its name once it is registered.
LEMMA LastRegistered ==
  ASSUME TypeInv, NEW a \in Adapters, Register(a), NEW n
  PROVE  LastPlaced(n, a)'
<1>1. adapters \in Seq(Adapters) /\ adapters' = Append(adapters, a)
  BY DEF TypeInv, TypeOK, RouterTypeOK, Register
<1>2. /\ DOMAIN adapters' = 1..(Len(adapters) + 1) /\ Len(adapters) \in Nat
      /\ adapters'[Len(adapters) + 1] = a
  BY <1>1
<1>3. LastPlaced(n, a)' <=> \E i \in DOMAIN adapters' :
        adapters'[i] = a /\ \A j \in DOMAIN adapters' : NameOf[adapters'[j]] = n => j <= i
  BY DEF LastPlaced
<1> QED
  BY <1>2, <1>3

\* Registering an adapter of another name leaves the last of a name.
LEMMA LastUnderRegister ==
  ASSUME TypeInv, NEW a \in Adapters, Register(a), NEW n, NameOf[a] # n,
         NEW b, LastPlaced(n, b)
  PROVE  LastPlaced(n, b)'
<1>1. adapters \in Seq(Adapters) /\ adapters' = Append(adapters, a)
  BY DEF TypeInv, TypeOK, RouterTypeOK, Register
<1>2. /\ DOMAIN adapters = 1..Len(adapters) /\ Len(adapters) \in Nat
      /\ DOMAIN adapters' = 1..(Len(adapters) + 1)
      /\ \A i \in DOMAIN adapters : adapters'[i] = adapters[i]
      /\ adapters'[Len(adapters) + 1] = a
  BY <1>1
<1>3. PICK i \in DOMAIN adapters :
        adapters[i] = b /\ \A j \in DOMAIN adapters : NameOf[adapters[j]] = n => j <= i
  BY DEF LastPlaced
<1>4. /\ i \in DOMAIN adapters' /\ adapters'[i] = b
      /\ \A j \in DOMAIN adapters' : NameOf[adapters'[j]] = n => j <= i
  BY <1>2, <1>3
<1> QED
  BY <1>4 DEF LastPlaced

\* unregister takes the first of a name, so the last stays when there are two.
LEMMA LastUnderUnregister ==
  ASSUME TypeInv, NEW n \in Names, Unregister(n), NEW m \in Names,
         NEW b \in Adapters, NameOf[b] = m, LastPlaced(m, b),
         m = n => Cardinality(Placed(m)) >= 2
  PROVE  LastPlaced(m, b)'
<1> DEFINE pos == PositionNamed(adapters, n)
<1>1. adapters \in Seq(Adapters)
  BY DEF TypeInv, TypeOK, RouterTypeOK
<1>2. PICK i \in DOMAIN adapters :
        adapters[i] = b /\ \A j \in DOMAIN adapters : NameOf[adapters[j]] = m => j <= i
  BY DEF LastPlaced
<1>3. CASE pos = 0
  BY <1>3 DEF Unregister, routerVars, LastPlaced
<1>4. CASE pos # 0
  <2>1. /\ pos \in DOMAIN adapters /\ NameOf[adapters[pos]] = n
        /\ \A j \in DOMAIN adapters : NameOf[adapters[j]] = n => pos <= j
    BY <1>1, <1>4, FirstOfName
  <2>2. /\ adapters' \in Seq(Adapters)
        /\ Len(adapters') = Len(adapters) - 1
        /\ \A j \in DOMAIN adapters' : adapters'[j] = IF j < pos THEN adapters[j] ELSE adapters[j + 1]
    <3>1. adapters' = RemoveAt(adapters, pos)
      BY <1>4 DEF Unregister
    <3> HIDE DEF pos
    <3> QED BY <1>1, <2>1, <3>1, Removed
  <2>3. /\ DOMAIN adapters = 1..Len(adapters) /\ Len(adapters) \in Nat
        /\ DOMAIN adapters' = 1..(Len(adapters) - 1)
        /\ pos \in 1..Len(adapters)
    BY <1>1, <2>1, <2>2
  <2> HIDE DEF pos
  <2>4. i # pos
    <3> SUFFICES ASSUME i = pos PROVE FALSE
      OBVIOUS
    <3>1. m = n
      BY <1>2, <2>1
    <3>2. \A j \in Placed(m) : j = i
      BY <1>2, <2>1, <2>3, <3>1 DEF Placed
    <3>3. Placed(m) \in SUBSET {i}
      BY <3>2
    <3>4. IsFiniteSet({i}) /\ Cardinality({i}) = 1
      BY FS_Singleton
    <3>5. Cardinality(Placed(m)) <= 1
      BY <3>3, <3>4, FS_Subset
    <3>6. Cardinality(Placed(m)) \in Nat
      BY CountedFinite
    <3> QED
      BY <3>1, <3>5, <3>6
  <2> DEFINE k == IF i < pos THEN i ELSE i - 1
  <2>5. k \in DOMAIN adapters' /\ adapters'[k] = b
    BY <1>2, <2>2, <2>3, <2>4
  <2>6. \A j \in DOMAIN adapters' : NameOf[adapters'[j]] = m => j <= k
    <3> SUFFICES ASSUME NEW j \in DOMAIN adapters', NameOf[adapters'[j]] = m PROVE j <= k
      OBVIOUS
    <3>1. CASE j < pos
      BY <1>2, <2>2, <2>3, <2>4, <3>1
    <3>2. CASE j >= pos
      <4>1. j + 1 \in DOMAIN adapters /\ adapters'[j] = adapters[j + 1]
        BY <2>2, <2>3, <3>2
      <4>2. j + 1 <= i
        BY <1>2, <4>1
      <4> QED
        BY <2>3, <3>2, <4>2
    <3> QED
      BY <2>3, <3>1, <3>2
  <2> HIDE DEF k
  <2> QED
    BY <2>5, <2>6 DEF LastPlaced
<1> QED
  BY <1>3, <1>4

LEMMA LiveInit == Init => LiveInv
  BY DEF Init, LiveInv, LiveFor, Adding

LEMMA LiveStep ==
  ASSUME TypeInv, LifeInv, RouterAccounted, LiveInv, [Next]_vars
  PROVE  LiveInv'
<1> USE RouterAssumption, ManagerAssumption
<1>1. contested \subseteq contested'
  BY DEF Next, RequestStep, RefresherStep, StartAccount, Started, Shutdown, LearnSelfId,
    ConnectionLost, ForwarderEnd, AddCheck, AddConnect, AddRegister, AddInsert, RemoveTake,
    RemoveDisconnect, RemoveUnregister, ReconnectTake, ReconnectDisconnect, ReconnectBegin,
    ReconnectConnect, ReconnectStore, RequestDropped, RefreshList, RefreshNames, RefreshVisit, RefreshEnd,
    vars, managerVars
<1> SUFFICES ASSUME NEW m \in Names, m \notin contested'
             PROVE  LiveFor(m)'
  BY DEF LiveInv
<1>2. LiveFor(m)
  BY <1>1 DEF LiveInv
<1>3. /\ live \in [Names -> LiveAdapter \cup {None}]
      /\ \A n \in Names : live[n] # None => live[n].adapter \in Adapters
  BY DEF TypeInv, TypeOK, LiveAdapter
<1>4. /\ pc \in [Requests -> {"idle", "adding", "added", "registered", "removing",
                             "unregistering", "resetting", "reset", "dialing", "storing", "done", "dropped"}]
      /\ target \in [Requests -> Adapters \cup {None}]
  BY DEF TypeInv, TypeOK
<1>5. \A a \in Adapters, c \in Channels :
        /\ [adapter |-> a, forward_handle |-> c] # None
        /\ [adapter |-> a, forward_handle |-> c].adapter = a
  BY DEF LiveAdapter
<1>6. ASSUME adapters' = adapters,
             live'[m] # None => live[m] # None /\ live'[m].adapter = live[m].adapter,
             Adding(m)' \subseteq Adding(m),
             \A r \in Adding(m)' : target'[r] = target[r] /\ (pc'[r] = "registered" => pc[r] = "registered")
      PROVE  LiveFor(m)'
  BY <1>2, <1>6 DEF LiveFor, LastPlaced
<1>7. CASE StartAccount
  <2> DEFINE a == Configured[Len(adapters) + 1]
  <2>1. a \in Startup /\ a \in Channels /\ a \in Adapters
    <3>1. Len(adapters) + 1 \in DOMAIN Configured
      BY <1>7 DEF StartAccount, TypeInv, TypeOK, RouterTypeOK
    <3> QED
      BY <3>1 DEF Startup, Channels, ToSet
  <2>2. /\ Register(a)
        /\ live' = [live EXCEPT ![NameOf[a]] = [adapter |-> a, forward_handle |-> a]]
        /\ UNCHANGED <<pc, target>>
        /\ phase = "starting"
    BY <1>7 DEF StartAccount, requestVars
  <2>3. Adding(m)' = {}
    BY <2>2 DEF Adding, LifeInv
  <2>4. \A b : b = a => LastPlaced(m, b)'
    BY <2>1, <2>2, LastRegistered
  <2>5. CASE NameOf[a] = m
    <3>1. live'[m].adapter = a
      BY <1>3, <1>5, <2>1, <2>2, <2>5
    <3> QED
      BY <2>3, <2>4, <3>1 DEF LiveFor, LastPlaced
  <2>6. CASE NameOf[a] # m
    <3>1. live'[m] = live[m]
      BY <1>3, <2>1, <2>2, <2>6
    <3>2. live[m] # None => LastPlaced(m, live[m].adapter)
      BY <1>2 DEF LiveFor
    <3>3. ASSUME NEW b, live[m] # None, b = live[m].adapter PROVE LastPlaced(m, b)'
      BY <2>1, <2>2, <2>6, <3>2, <3>3, LastUnderRegister
    <3> QED
      BY <2>3, <3>1, <3>3 DEF LiveFor, LastPlaced
  <2> QED
    BY <2>5, <2>6
<1>8. CASE Shutdown
  <2>1. /\ live'[m] = None /\ UNCHANGED <<adapters, pc, target>>
    BY <1>8 DEF Shutdown, routerVars, requestVars
  <2> QED
    BY <1>6, <2>1 DEF Adding
<1>9. ASSUME NEW r \in Requests, NEW a \in Adapters, AddCheck(r, a)
      PROVE  LiveFor(m)'
  <2>1. /\ pc[r] = "idle" /\ live[NameOf[a]] = None
        /\ contested' = IF Adding(NameOf[a]) = {} THEN contested ELSE contested \cup {NameOf[a]}
        /\ pc' = [pc EXCEPT ![r] = "adding"]
        /\ target' = [target EXCEPT ![r] = a]
        /\ UNCHANGED <<adapters, live>>
    BY <1>9 DEF AddCheck, routerVars
  <2>2. CASE NameOf[a] = m
    <3>1. Adding(m) = {}
      BY <2>1, <2>2
    <3>2. Adding(m)' = {r}
      BY <1>4, <2>1, <2>2, <3>1 DEF Adding
    <3> QED
      BY <1>4, <2>1, <2>2, <3>2 DEF LiveFor
  <2>3. CASE NameOf[a] # m
    <3>1. Adding(m)' = Adding(m) /\ r \notin Adding(m)
      BY <1>4, <2>1, <2>3 DEF Adding
    <3> QED
      BY <1>4, <1>6, <2>1, <3>1 DEF Adding
  <2> QED
    BY <2>2, <2>3
<1>10. ASSUME NEW r \in Requests, AddRegister(r)
      PROVE  LiveFor(m)'
  <2> DEFINE a == target[r]
  <2>1. /\ a \in Adapters /\ Register(a)
        /\ pc[r] = "added" /\ pc' = [pc EXCEPT ![r] = "registered"]
        /\ UNCHANGED <<live, target>>
    BY <1>10 DEF AddRegister, managerVars, TypeInv, Targeted, InProgress
  <2>2. Adding(m)' = Adding(m)
    BY <1>4, <2>1 DEF Adding
  <2>3. CASE NameOf[a] = m
    <3>1. Adding(m) = {r} /\ live[m] = None
      BY <1>2, <2>1, <2>3 DEF LiveFor, Adding
    <3>2. \A b : b = a => LastPlaced(m, b)'
      BY <2>1, LastRegistered
    <3> QED
      BY <2>1, <2>2, <3>1, <3>2 DEF LiveFor, LastPlaced
  <2>4. CASE NameOf[a] # m
    <3>1. \A b : LastPlaced(m, b) => LastPlaced(m, b)'
      BY <2>1, <2>4, LastUnderRegister
    <3>2. r \notin Adding(m)
      BY <2>4 DEF Adding
    <3>3. \A s \in Adding(m) : pc'[s] = "registered" => pc[s] = "registered"
      BY <1>4, <2>1, <3>2 DEF Adding
    <3>4. live'[m] # None => Adding(m)' = {} /\ LastPlaced(m, live[m].adapter)'
      BY <1>2, <2>1, <2>2, <3>1 DEF LiveFor
    <3>5. \A s \in Adding(m) : pc'[s] = "registered" => LastPlaced(m, target[s])'
      BY <1>2, <2>1, <3>1, <3>3 DEF LiveFor
    <3>6. \A p, s \in Adding(m)' : p = s
      BY <1>2, <2>2 DEF LiveFor
    <3> QED
      BY <2>1, <2>2, <3>4, <3>5, <3>6 DEF LiveFor, LastPlaced
  <2> QED
    BY <2>3, <2>4
<1>11. ASSUME NEW r \in Requests, AddInsert(r)
      PROVE  LiveFor(m)'
  <2> DEFINE n == NameOf[target[r]]
  <2>1. /\ target[r] \in Adapters /\ r \in Channels /\ n \in Names
        /\ pc[r] = "registered" /\ pc' = [pc EXCEPT ![r] = "done"]
        /\ live' = [live EXCEPT ![n] = [adapter |-> target[r], forward_handle |-> r]]
        /\ UNCHANGED <<adapters, target>>
    BY <1>11 DEF AddInsert, routerVars, TypeInv, Targeted, InProgress, Channels
  <2>2. Adding(m)' = Adding(m) \ {r}
    BY <1>4, <2>1 DEF Adding
  <2>3. CASE n = m
    <3>1. Adding(m)' = {} /\ LastPlaced(m, target[r])
      BY <1>2, <2>1, <2>2, <2>3 DEF LiveFor, Adding
    <3>2. live'[m].adapter = target[r]
      BY <1>3, <1>5, <2>1, <2>3
    <3> QED
      BY <2>1, <3>1, <3>2 DEF LiveFor, LastPlaced
  <2>4. CASE n # m
    <3>1. live'[m] = live[m]
      BY <1>3, <2>1, <2>4
    <3> QED
      BY <1>4, <1>6, <2>1, <2>2, <3>1 DEF Adding
  <2> QED
    BY <2>3, <2>4
<1>12. ASSUME NEW r \in Requests, RemoveUnregister(r)
      PROVE  LiveFor(m)'
  <2> DEFINE n == NameOf[target[r]]
  <2>1. /\ target[r] \in Adapters /\ n \in Names /\ Unregister(n)
        /\ pc[r] = "unregistering" /\ pc' = [pc EXCEPT ![r] = "done"]
        /\ UNCHANGED <<live, displaced, target>>
    BY <1>12 DEF RemoveUnregister, managerVars, TypeInv, Targeted, InProgress
  <2>2. Adding(m)' = Adding(m)
    BY <1>4, <2>1 DEF Adding
  <2>3. /\ IsFiniteSet(Unsettled(m)) /\ Cardinality(Unsettled(m)) \in Nat
        /\ Cardinality(DisplacedNamed(m)) \in Nat
        /\ Cardinality(Placed(m)) = (IF live[m] = None THEN 0 ELSE 1)
                                     + Cardinality(Unsettled(m)) + Cardinality(DisplacedNamed(m))
    BY CountedFinite DEF RouterAccounted
  <2>4. n = m => r \in Unsettled(m)
    BY <2>1 DEF Unsettled
  <2>5. \A s \in Unsettled(m) : /\ Cardinality(Unsettled(m) \ {s}) \in Nat
                                /\ Cardinality(Unsettled(m)) = Cardinality(Unsettled(m) \ {s}) + 1
    <3> SUFFICES ASSUME NEW s \in Unsettled(m)
                 PROVE  /\ Cardinality(Unsettled(m) \ {s}) \in Nat
                        /\ Cardinality(Unsettled(m)) = Cardinality(Unsettled(m) \ {s}) + 1
      OBVIOUS
    <3>1. IsFiniteSet(Unsettled(m) \ {s}) /\ Cardinality(Unsettled(m) \ {s}) = Cardinality(Unsettled(m)) - 1
      BY <2>3, FS_RemoveElement
    <3>2. Cardinality(Unsettled(m) \ {s}) \in Nat
      BY <3>1, FS_CardinalityType
    <3> QED
      BY <2>3, <3>1, <3>2
  <2>6. n = m /\ live[m] # None => Cardinality(Placed(m)) >= 2
    <3> SUFFICES ASSUME n = m, live[m] # None PROVE Cardinality(Placed(m)) >= 2
      OBVIOUS
    <3>1. Cardinality(Unsettled(m)) >= 1
      <4>1. r \in Unsettled(m)
        BY <2>4
      <4>2. Cardinality(Unsettled(m)) = Cardinality(Unsettled(m) \ {r}) + 1
            /\ Cardinality(Unsettled(m) \ {r}) \in Nat
        BY <2>5, <4>1
      <4> QED
        BY <4>2
    <3> QED
      BY <2>3, <3>1
  <2>7. ASSUME NEW s \in Adding(m), pc[s] = "registered", n = m
        PROVE  Cardinality(Placed(m)) >= 2
    <3>1. s \in Unsettled(m) /\ s # r
      BY <2>1, <2>7 DEF Unsettled, Adding
    <3>2. Unsettled(m) \ {s} # {}
      BY <2>4, <2>7, <3>1
    <3>3. IsFiniteSet(Unsettled(m) \ {s}) /\ Cardinality(Unsettled(m) \ {s}) # 0
      BY <2>3, <3>2, FS_EmptySet, FS_RemoveElement
    <3>4. Cardinality(Unsettled(m)) >= 2
      BY <2>5, <3>1, <3>3
    <3> QED
      BY <2>3, <3>4
  <2>8. ASSUME live[m] # None, NEW b, b = live[m].adapter PROVE LastPlaced(m, b)'
    <3>1. LastPlaced(m, b) /\ b \in Adapters /\ NameOf[b] = m
      BY <1>2, <1>3, <2>8 DEF LiveFor, LifeInv
    <3> QED
      BY <2>1, <2>6, <2>8, <3>1, LastUnderUnregister
  <2>9. ASSUME NEW s \in Adding(m), pc[s] = "registered", NEW b, b = target[s] PROVE LastPlaced(m, b)'
    <3>1. LastPlaced(m, b) /\ b \in Adapters /\ NameOf[b] = m
      BY <1>2, <2>9 DEF LiveFor, Adding, TypeInv, Targeted, InProgress
    <3> QED
      BY <2>1, <2>7, <2>9, <3>1, LastUnderUnregister
  <2>10. \A s \in Adding(m) : pc'[s] = "registered" => pc[s] = "registered"
    BY <1>4, <2>1 DEF Adding
  <2> QED
    BY <1>2, <2>1, <2>2, <2>8, <2>9, <2>10 DEF LiveFor, LastPlaced
<1>13. ASSUME NEW r \in Requests, ReconnectStore(r)
      PROVE  LiveFor(m)'
  <2>1. live'[m] # None => live[m] # None /\ live'[m].adapter = live[m].adapter
    BY <1>13, StoreKeepsAdapters DEF TypeInv
  <2>2. /\ pc[r] = "storing" /\ pc' = [pc EXCEPT ![r] = "done"]
        /\ UNCHANGED <<adapters, target>>
    BY <1>13 DEF ReconnectStore, routerVars
  <2> QED
    BY <1>4, <1>6, <2>1, <2>2 DEF Adding
<1>14. ASSUME NEW r \in Requests, NEW n \in Names, RemoveTake(r, n) \/ ReconnectTake(r, n)
      PROVE  LiveFor(m)'
  <2>1. /\ pc[r] = "idle" /\ pc' \in {[pc EXCEPT ![r] = "removing"], [pc EXCEPT ![r] = "resetting"]}
        /\ target' = [target EXCEPT ![r] = live[n].adapter]
        /\ live' \in {live, [live EXCEPT ![n] = None]}
        /\ adapters' = adapters
    BY <1>14 DEF RemoveTake, ReconnectTake, routerVars, managerVars
  <2>2. Adding(m)' \subseteq Adding(m) /\ r \notin Adding(m)
    BY <1>4, <2>1 DEF Adding
  <2>3. live'[m] # None => live'[m] = live[m]
    BY <1>3, <2>1
  <2> QED
    BY <1>4, <1>6, <2>1, <2>2, <2>3 DEF Adding
<1>15. ASSUME NEW r \in Requests,
              \/ AddConnect(r) \/ RemoveDisconnect(r) \/ ReconnectDisconnect(r)
              \/ ReconnectBegin(r) \/ ReconnectConnect(r) \/ RequestDropped(r)
      PROVE  LiveFor(m)'
  <2> USE DEF routerVars, managerVars
  <2>1. UNCHANGED <<adapters, live, target>>
    BY <1>15 DEF AddConnect, RemoveDisconnect, ReconnectDisconnect, ReconnectBegin, ReconnectConnect, RequestDropped
  <2>2. /\ \A s \in Requests : pc'[s] \in {"adding", "added", "registered"}
                                 => pc[s] \in {"adding", "added", "registered"}
        /\ \A s \in Requests : pc'[s] = "registered" => pc[s] = "registered"
    BY <1>4, <1>15 DEF AddConnect, RemoveDisconnect, ReconnectDisconnect, ReconnectBegin, ReconnectConnect, RequestDropped
  <2> QED
    BY <1>6, <2>1, <2>2 DEF Adding
<1>16. ASSUME \/ \E a \in Adapters : LearnSelfId(a)
              \/ \E c \in Channels : ConnectionLost(c) \/ ForwarderEnd(c)
              \/ Started \/ RefresherStep \/ UNCHANGED vars
      PROVE  LiveFor(m)'
  <2>1. UNCHANGED <<adapters, live, pc, target>>
    BY <1>16 DEF LearnSelfId, ConnectionLost, ForwarderEnd, Started, RefresherStep, RefreshList,
      RefreshNames, RefreshVisit, RefreshEnd, AssociateSelfId, vars, routerVars, managerVars, requestVars
  <2> QED
    BY <1>6, <2>1 DEF Adding
<1> QED
  BY <1>7, <1>8, <1>9, <1>10, <1>11, <1>12, <1>13, <1>14, <1>15, <1>16 DEF Next, RequestStep

\* An adapter in the manager's map is in the router's list, whatever requests
\* overlap, as long as additions of its name have not: a removal of the same
\* name takes the older adapter.
THEOREM LiveRouted == Spec => []LiveIsRouted
<1> DEFINE Inv == TypeInv /\ LifeInv /\ RouterAccounted /\ LiveInv
<1>1. Init => Inv
  BY TypeInit, LifeInit, AccountInit, LiveInit
<1>2. Inv /\ [Next]_vars => Inv'
  BY TypeStep, LifeStep, AccountStep, LiveStep
<1>3. Inv => LiveIsRouted
  <2> SUFFICES ASSUME Inv, NEW n \in Names, live[n] # None, NameOf[live[n].adapter] \notin contested
               PROVE  \E i \in DOMAIN adapters : adapters[i] = live[n].adapter
    BY DEF LiveIsRouted, LiveAdapters
  <2>1. NameOf[live[n].adapter] = n
    BY DEF LifeInv
  <2>2. LastPlaced(n, live[n].adapter)
    BY <2>1 DEF LiveInv, LiveFor
  <2> QED
    BY <2>2 DEF LastPlaced
<1> QED
  BY <1>1, <1>2, <1>3, PTL DEF Spec

-----------------------------------------------------------------------------
(* Channels and forwarding tasks *)

\* A channel belongs to the account whose start-up made it, or to the adapter
\* its request works on.
Owns(a, c) ==
  \/ c = a /\ a \in Startup
  \/ c \in Requests /\ target[c] = a

\* The sender in an adapter's field is of its own channel, a handle filed under
\* a name of an adapter of that name; an adapter that is being added is new and
\* has the sender of its request.
ChannelInv ==
  /\ \A a \in Adapters : event_tx[a] # None => Owns(a, event_tx[a])
  /\ \A n \in Names : live[n] # None =>
       \E a \in Adapters : NameOf[a] = n /\ Owns(a, live[n].forward_handle)
  /\ \A r \in Requests : pc[r] \in {"adding", "added", "registered"} =>
       target[r] \notin Startup /\ event_tx[target[r]] = r

\* What an adapter sends is forwarded, or a request is about to replace the
\* sender or to start the forwarding task, or was dropped before it could.
ForwardedFor(a) ==
  /\ event_tx[a] # None
  /\ \/ event_tx[a] \in Abandoned
     \/ forwarder[event_tx[a]] = "running"
     \/ \E r \in Requests : target[r] = a /\ pc[r] \in {"resetting", "reset"}
     \/ event_tx[a] \in Requests /\ pc[event_tx[a]] \in {"dialing", "storing"}

ForwardInv == \A n \in Names : live[n] # None => ForwardedFor(live[n].adapter)

\* A channel has one adapter.
LEMMA OneOwner ==
  ASSUME NEW a, NEW b, NEW c, Owns(a, c), Owns(b, c)
  PROVE  a = b
<1>1. Startup \cap Requests = {}
  BY ManagerAssumption DEF Startup, ToSet
<1> QED
  BY <1>1 DEF Owns

\* The requests that have an adapter keep it.
LEMMA OwnsKept ==
  ASSUME NEW a \in Adapters, NEW c, Owns(a, c),
         \A r \in Requests : target[r] \in Adapters => target'[r] = target[r]
  PROVE  Owns(a, c)'
  BY DEF Owns

LEMMA ChannelInit == Init => ChannelInv /\ ForwardInv
  BY DEF Init, ChannelInv, ForwardInv

LEMMA ChannelStep ==
  ASSUME TypeInv, LifeInv, ChannelInv, [Next]_vars
  PROVE  ChannelInv'
<1> USE RouterAssumption, ManagerAssumption
<1>1. /\ live \in [Names -> LiveAdapter \cup {None}]
      /\ event_tx \in [Adapters -> Channels \cup {None}]
      /\ pc \in [Requests -> {"idle", "adding", "added", "registered", "removing",
                             "unregistering", "resetting", "reset", "dialing", "storing", "done", "dropped"}]
      /\ target \in [Requests -> Adapters \cup {None}]
  BY DEF TypeInv, TypeOK
<1>2. Requests \subseteq Channels /\ None \notin Requests /\ None \notin Adapters
  BY DEF Channels
<1>3. \A a \in Adapters, c \in Channels :
        /\ [adapter |-> a, forward_handle |-> c] # None
        /\ [adapter |-> a, forward_handle |-> c].forward_handle = c
  BY DEF LiveAdapter
<1>4. /\ \A a \in Adapters : event_tx[a] # None => Owns(a, event_tx[a])
      /\ \A n \in Names : live[n] # None =>
           \E a \in Adapters : NameOf[a] = n /\ Owns(a, live[n].forward_handle)
      /\ \A r \in Requests : pc[r] \in {"adding", "added", "registered"} =>
           /\ target[r] \in Adapters
           /\ target[r] \notin Startup /\ event_tx[target[r]] = r
  BY DEF ChannelInv, TypeInv, Targeted, InProgress
\* A step that leaves the senders and the targets, and adds nothing.
<1>5. ASSUME UNCHANGED <<event_tx, target>>,
             \A n \in Names : live'[n] # None =>
               \/ live[n] # None /\ live'[n].forward_handle = live[n].forward_handle
               \/ \E r \in Requests : /\ target[r] \in Adapters /\ NameOf[target[r]] = n
                                      /\ live'[n].forward_handle = r,
             \A r \in Requests : pc'[r] \in {"adding", "added", "registered"}
                                   => pc[r] \in {"adding", "added", "registered"}
      PROVE  ChannelInv'
  <2>1. \A n \in Names : live'[n] # None =>
          \E a \in Adapters : NameOf[a] = n /\ Owns(a, live'[n].forward_handle)
    <3> SUFFICES ASSUME NEW n \in Names, live'[n] # None
                 PROVE  \E a \in Adapters : NameOf[a] = n /\ Owns(a, live'[n].forward_handle)
      OBVIOUS
    <3>1. CASE live[n] # None /\ live'[n].forward_handle = live[n].forward_handle
      BY <1>4, <3>1
    <3>2. ASSUME NEW r \in Requests, target[r] \in Adapters, NameOf[target[r]] = n,
                 live'[n].forward_handle = r
          PROVE  \E a \in Adapters : NameOf[a] = n /\ Owns(a, live'[n].forward_handle)
      BY <3>2 DEF Owns
    <3> QED BY <1>5, <3>1, <3>2
  <2> QED BY <1>4, <1>5, <2>1 DEF ChannelInv, Owns
<1>6. CASE StartAccount
  <2>1. PICK a \in Adapters :
          /\ a \in Startup /\ a \in Channels /\ event_tx' = [event_tx EXCEPT ![a] = a]
          /\ live' = [live EXCEPT ![NameOf[a]] = [adapter |-> a, forward_handle |-> a]]
          /\ UNCHANGED <<pc, target>>
    <3> DEFINE a == Configured[Len(adapters) + 1]
    <3>1. Len(adapters) + 1 \in DOMAIN Configured
      BY <1>6 DEF StartAccount, TypeInv, TypeOK, RouterTypeOK
    <3>2. a \in Startup /\ a \in Channels /\ a \in Adapters
      BY <3>1 DEF Startup, Channels, ToSet
    <3>3. /\ event_tx' = [event_tx EXCEPT ![a] = a]
          /\ live' = [live EXCEPT ![NameOf[a]] = [adapter |-> a, forward_handle |-> a]]
          /\ UNCHANGED <<pc, target>>
      BY <1>6 DEF StartAccount, BeginConnect, requestVars
    <3> QED BY <3>2, <3>3
  <2>2. \A n \in Names : live'[n] # None =>
          \E b \in Adapters : NameOf[b] = n /\ Owns(b, live'[n].forward_handle)
    <3> SUFFICES ASSUME NEW n \in Names, live'[n] # None
                 PROVE  \E b \in Adapters : NameOf[b] = n /\ Owns(b, live'[n].forward_handle)
      OBVIOUS
    <3>1. CASE n = NameOf[a]
      <4>1. live'[n].forward_handle = a
        BY <1>1, <1>3, <2>1, <3>1
      <4> QED BY <2>1, <3>1, <4>1 DEF Owns
    <3>2. CASE n # NameOf[a]
      <4>1. live'[n] = live[n]
        BY <1>1, <2>1, <3>2
      <4> QED BY <1>4, <4>1
    <3> QED BY <3>1, <3>2
  <2>3. \A b \in Adapters : event_tx'[b] # None => Owns(b, event_tx'[b])
    BY <1>1, <1>4, <2>1 DEF Owns
  <2>4. \A r \in Requests : pc'[r] \in {"adding", "added", "registered"} =>
          target'[r] \notin Startup /\ event_tx'[target'[r]] = r
    BY <1>1, <1>4, <2>1
  <2> QED BY <2>1, <2>2, <2>3, <2>4 DEF ChannelInv, Owns
<1>7. ASSUME NEW r \in Requests, NEW a \in Adapters, AddCheck(r, a)
      PROVE  ChannelInv'
  <2>1. /\ pc[r] = "idle" /\ Fresh(a)
        /\ pc' = [pc EXCEPT ![r] = "adding"] /\ target' = [target EXCEPT ![r] = a]
        /\ event_tx' = [event_tx EXCEPT ![a] = r] /\ live' = live
    BY <1>7 DEF AddCheck, BeginConnect
  <2>2. target[r] = None
    BY <2>1 DEF LifeInv
  <2>3. \A s \in Requests : target[s] \in Adapters => target'[s] = target[s]
    BY <1>1, <1>2, <2>1, <2>2
  <2>4. \A b \in Adapters : \A c : Owns(b, c) => Owns(b, c)'
    BY <2>3, OwnsKept
  <2>5. \A b \in Adapters : event_tx'[b] # None => Owns(b, event_tx[b])'
    <3> SUFFICES ASSUME NEW b \in Adapters, event_tx'[b] # None
                 PROVE  Owns(b, event_tx[b])'
      OBVIOUS
    <3>1. CASE b = a
      <4>1. event_tx'[b] = r /\ target'[r] = b
        BY <1>1, <2>1, <3>1
      <4> QED BY <4>1 DEF Owns
    <3>2. CASE b # a
      <4>1. event_tx'[b] = event_tx[b]
        BY <1>1, <2>1, <3>2
      <4>2. Owns(b, event_tx[b])
        BY <1>4, <4>1
      <4> QED BY <2>3, <4>1, <4>2 DEF Owns
    <3> QED BY <3>1, <3>2
  <2>6. \A s \in Requests : pc'[s] \in {"adding", "added", "registered"} =>
          target'[s] \notin Startup /\ event_tx'[target'[s]] = s
    <3> SUFFICES ASSUME NEW s \in Requests, pc'[s] \in {"adding", "added", "registered"}
                 PROVE  target'[s] \notin Startup /\ event_tx'[target'[s]] = s
      OBVIOUS
    <3>1. CASE s = r
      BY <1>1, <2>1, <3>1 DEF Fresh
    <3>2. CASE s # r
      <4>1. pc[s] \in {"adding", "added", "registered"} /\ target'[s] = target[s] /\ target[s] # a
        BY <1>1, <2>1, <3>2 DEF Fresh
      <4> QED BY <1>1, <1>4, <2>1, <4>1
    <3> QED BY <3>1, <3>2
  <2>7. \A n \in Names : live'[n] # None =>
          \E b \in Adapters : NameOf[b] = n /\ Owns(b, live[n].forward_handle)'
    <3> SUFFICES ASSUME NEW n \in Names, live[n] # None
                 PROVE  \E b \in Adapters : NameOf[b] = n /\ Owns(b, live[n].forward_handle)'
      BY <2>1
    <3>1. PICK b \in Adapters : NameOf[b] = n /\ Owns(b, live[n].forward_handle)
      BY <1>4
    <3> QED BY <2>1, <2>3, <3>1 DEF Owns
  <2> QED BY <2>5, <2>6, <2>7 DEF ChannelInv, Owns
<1>8. ASSUME NEW r \in Requests, NEW n \in Names, RemoveTake(r, n) \/ ReconnectTake(r, n)
      PROVE  ChannelInv'
  <2>1. /\ pc[r] = "idle" /\ live[n] # None /\ target' = [target EXCEPT ![r] = live[n].adapter]
        /\ pc' \in {[pc EXCEPT ![r] = "removing"], [pc EXCEPT ![r] = "resetting"]}
        /\ live' \in {live, [live EXCEPT ![n] = None]}
        /\ event_tx' = event_tx
    BY <1>8 DEF RemoveTake, ReconnectTake, managerVars
  <2>2. target[r] = None
    BY <2>1 DEF LifeInv
  <2>3. \A s \in Requests : target[s] \in Adapters => target'[s] = target[s]
    BY <1>1, <1>2, <2>1, <2>2
  <2>4. \A s \in Requests : pc'[s] \in {"adding", "added", "registered"} =>
          target'[s] \notin Startup /\ event_tx'[target'[s]] = s
    <3> SUFFICES ASSUME NEW s \in Requests, pc'[s] \in {"adding", "added", "registered"}
                 PROVE  target'[s] \notin Startup /\ event_tx'[target'[s]] = s
      OBVIOUS
    <3>1. s # r /\ pc[s] \in {"adding", "added", "registered"}
      BY <1>1, <2>1
    <3> QED BY <1>1, <1>4, <2>1, <3>1
  <2>5. \A m \in Names : live'[m] # None => live'[m] = live[m]
    BY <1>1, <2>1
  <2>6. \A m \in Names : live'[m] # None =>
          \E b \in Adapters : NameOf[b] = m /\ Owns(b, live[m].forward_handle)'
    <3> SUFFICES ASSUME NEW m \in Names, live'[m] # None
                 PROVE  \E b \in Adapters : NameOf[b] = m /\ Owns(b, live[m].forward_handle)'
      OBVIOUS
    <3>1. PICK b \in Adapters : NameOf[b] = m /\ Owns(b, live[m].forward_handle)
      BY <1>4, <2>5
    <3> QED BY <2>3, <2>5, <3>1 DEF Owns
  <2>7. \A b \in Adapters : event_tx'[b] # None => Owns(b, event_tx[b])'
    BY <1>4, <2>1, <2>3 DEF Owns
  <2> QED BY <2>4, <2>6, <2>7 DEF ChannelInv
<1>9. ASSUME NEW r \in Requests, ReconnectBegin(r)
      PROVE  ChannelInv'
  <2>1. /\ target[r] \in Adapters /\ pc[r] = "reset"
        /\ event_tx' = [event_tx EXCEPT ![target[r]] = r]
        /\ pc' = [pc EXCEPT ![r] = "dialing"]
        /\ UNCHANGED <<live, target>>
    BY <1>9 DEF ReconnectBegin, BeginConnect, managerVars, TypeInv, Targeted, InProgress
  <2>2. \A s \in Requests : pc'[s] \in {"adding", "added", "registered"} =>
          target'[s] \notin Startup /\ event_tx'[target'[s]] = s
    <3> SUFFICES ASSUME NEW s \in Requests, pc'[s] \in {"adding", "added", "registered"}
                 PROVE  target[s] \notin Startup /\ event_tx'[target[s]] = s
      BY <2>1
    <3>1. s # r /\ pc[s] \in {"adding", "added", "registered"}
      BY <1>1, <2>1
    <3>2. target[s] # target[r]
      BY <3>1 DEF LifeInv
    <3> QED BY <1>1, <1>4, <2>1, <3>1, <3>2
  <2>3. \A b \in Adapters : event_tx'[b] # None => Owns(b, event_tx'[b])
    BY <1>1, <1>4, <2>1 DEF Owns
  <2> QED BY <1>4, <2>1, <2>2, <2>3 DEF ChannelInv, Owns
<1>10. ASSUME NEW r \in Requests, AddInsert(r) \/ ReconnectStore(r)
       PROVE  ChannelInv'
  <2> DEFINE n == NameOf[target[r]]
  <2>1. /\ target[r] \in Adapters /\ r \in Channels /\ n \in Names
        /\ pc' = [pc EXCEPT ![r] = "done"]
        /\ UNCHANGED <<event_tx, target>>
    BY <1>10 DEF AddInsert, ReconnectStore, TypeInv, Targeted, InProgress, Channels
  <2>2. \A m \in Names : live'[m] # None =>
          \/ live'[m].forward_handle = r /\ m = n
          \/ live[m] # None /\ live'[m] = live[m]
    <3>1. CASE AddInsert(r)
      BY <1>1, <1>3, <2>1, <3>1 DEF AddInsert
    <3>2. CASE ReconnectStore(r)
      <4>1. live' = IF live[n] = None THEN live ELSE [live EXCEPT ![n].forward_handle = r]
        BY <3>2 DEF ReconnectStore
      <4>2. live[n] # None => [live[n] EXCEPT !.forward_handle = r].forward_handle = r
        BY <1>1, <2>1 DEF LiveAdapter
      <4> QED BY <1>1, <2>1, <4>1, <4>2
    <3> QED BY <1>10, <3>1, <3>2
  <2>3. \A s \in Requests : pc'[s] \in {"adding", "added", "registered"}
                              => pc[s] \in {"adding", "added", "registered"}
    BY <1>1, <2>1
  <2> QED BY <1>5, <2>1, <2>2, <2>3
<1>11. CASE Shutdown
  <2>1. (\A n \in Names : live'[n] = None) /\ UNCHANGED <<event_tx, pc, target>>
    BY <1>11 DEF Shutdown, requestVars
  <2> QED BY <1>5, <2>1
<1>12. ASSUME NEW r \in Requests,
              \/ AddConnect(r) \/ AddRegister(r) \/ RemoveDisconnect(r) \/ RemoveUnregister(r)
              \/ ReconnectDisconnect(r) \/ ReconnectConnect(r) \/ RequestDropped(r)
       PROVE  ChannelInv'
  <2>1. UNCHANGED <<live, event_tx, target>>
    BY <1>12 DEF AddConnect, AddRegister, RemoveDisconnect, RemoveUnregister, ReconnectDisconnect,
      ReconnectConnect, RequestDropped, managerVars, adapterVars
  <2>2. \A s \in Requests : pc'[s] \in {"adding", "added", "registered"}
                              => pc[s] \in {"adding", "added", "registered"}
    BY <1>1, <1>12 DEF AddConnect, AddRegister, RemoveDisconnect, RemoveUnregister,
      ReconnectDisconnect, ReconnectConnect, RequestDropped
  <2> QED BY <1>5, <2>1, <2>2
<1>13. ASSUME \/ \E a \in Adapters : LearnSelfId(a)
              \/ \E c \in Channels : ConnectionLost(c) \/ ForwarderEnd(c)
              \/ Started \/ RefresherStep \/ UNCHANGED vars
       PROVE  ChannelInv'
  <2>1. UNCHANGED <<live, event_tx, pc, target>>
    BY <1>13 DEF LearnSelfId, ConnectionLost, ForwarderEnd, Started, RefresherStep, RefreshList,
      RefreshNames, RefreshVisit, RefreshEnd, vars, managerVars, adapterVars, requestVars
  <2> QED BY <1>5, <2>1
<1> QED
  BY <1>6, <1>7, <1>8, <1>9, <1>10, <1>11, <1>12, <1>13 DEF Next, RequestStep

LEMMA ForwardStep ==
  ASSUME TypeInv, LifeInv, ChannelInv, ForwardInv, [Next]_vars
  PROVE  ForwardInv'
<1> USE RouterAssumption, ManagerAssumption
<1>1. /\ live \in [Names -> LiveAdapter \cup {None}]
      /\ event_tx \in [Adapters -> Channels \cup {None}]
      /\ forwarder \in [Channels -> {"none", "running", "ended"}]
      /\ pc \in [Requests -> {"idle", "adding", "added", "registered", "removing",
                             "unregistering", "resetting", "reset", "dialing", "storing", "done", "dropped"}]
      /\ target \in [Requests -> Adapters \cup {None}]
  BY DEF TypeInv, TypeOK
<1>2. \A n \in Names : live[n] # None => /\ live[n].adapter \in Adapters
                                         /\ live[n].forward_handle \in Channels
                                         /\ NameOf[live[n].adapter] = n
  BY <1>1 DEF LiveAdapter, LifeInv
<1>3. \A a \in Adapters, c \in Channels :
        /\ [adapter |-> a, forward_handle |-> c] # None
        /\ [adapter |-> a, forward_handle |-> c].adapter = a
  BY DEF LiveAdapter
<1>4. \A n \in Names : live[n] # None => ForwardedFor(live[n].adapter)
  BY DEF ForwardInv
<1>5. Requests \subseteq Channels /\ Startup \cap Requests = {} /\ None \notin Requests
  BY DEF Channels, Startup, ToSet
<1>6. \A a \in Adapters : event_tx[a] # None => event_tx[a] \in Channels /\ Owns(a, event_tx[a])
  BY <1>1 DEF ChannelInv
\* An adapter whose sender, forwarding task and requests are left alone, or
\* get what they were waiting for.
<1>7. ASSUME NEW a \in Adapters, ForwardedFor(a), event_tx'[a] = event_tx[a],
             event_tx[a] \in Abandoned => event_tx[a] \in Abandoned',
             forwarder[event_tx[a]] = "running" => forwarder'[event_tx[a]] = "running",
             \A r \in Requests : target[r] = a /\ pc[r] \in {"resetting", "reset"} =>
               target'[r] = a /\ pc'[r] \in {"resetting", "reset"},
             event_tx[a] \in Requests /\ pc[event_tx[a]] \in {"dialing", "storing"} =>
               \/ pc'[event_tx[a]] \in {"dialing", "storing", "dropped"}
               \/ forwarder'[event_tx[a]] = "running"
      PROVE  ForwardedFor(a)'
  <2>1. event_tx[a] \in Requests /\ pc'[event_tx[a]] = "dropped" => event_tx[a] \in Abandoned'
    BY DEF Abandoned
  <2> QED BY <1>7, <2>1 DEF ForwardedFor
<1>8. CASE StartAccount
  <2>1. PICK a \in Adapters :
          /\ a \in Startup /\ a \in Channels /\ event_tx' = [event_tx EXCEPT ![a] = a]
          /\ live' = [live EXCEPT ![NameOf[a]] = [adapter |-> a, forward_handle |-> a]]
          /\ forwarder' = [forwarder EXCEPT ![a] = "running"]
          /\ UNCHANGED <<pc, target>>
    <3> DEFINE a == Configured[Len(adapters) + 1]
    <3>1. Len(adapters) + 1 \in DOMAIN Configured
      BY <1>8 DEF StartAccount, TypeInv, TypeOK, RouterTypeOK
    <3>2. a \in Startup /\ a \in Channels /\ a \in Adapters
      BY <3>1 DEF Startup, Channels, ToSet
    <3>3. /\ event_tx' = [event_tx EXCEPT ![a] = a]
          /\ live' = [live EXCEPT ![NameOf[a]] = [adapter |-> a, forward_handle |-> a]]
          /\ forwarder' = [forwarder EXCEPT ![a] = "running"]
          /\ UNCHANGED <<pc, target>>
      BY <1>8 DEF StartAccount, BeginConnect, requestVars
    <3> QED BY <3>2, <3>3
  <2>2. ForwardedFor(a)'
    BY <1>1, <2>1 DEF ForwardedFor
  <2>3. SUFFICES ASSUME NEW n \in Names, live'[n] # None
                 PROVE  ForwardedFor(live[n].adapter)'
    BY DEF ForwardInv
  <2>4. CASE n = NameOf[a]
    <3>1. live'[n].adapter = a
      BY <1>1, <1>3, <2>1, <2>4
    <3> QED BY <2>2, <3>1 DEF ForwardedFor, Abandoned
  <2>5. CASE n # NameOf[a]
    <3>1. live'[n] = live[n]
      BY <1>1, <2>1, <2>5
    <3>2. PICK b \in Adapters : b = live[n].adapter /\ b # a /\ ForwardedFor(b)
      BY <1>2, <1>4, <2>3, <2>5, <3>1
    <3>3. event_tx'[b] = event_tx[b] /\ event_tx[b] \in Channels
      BY <1>1, <1>6, <2>1, <3>2 DEF ForwardedFor
    <3>4. ForwardedFor(b)'
      BY <1>1, <1>7, <2>1, <3>2, <3>3 DEF Abandoned
    <3> QED BY <3>1, <3>2, <3>4 DEF ForwardedFor, Abandoned
  <2> QED BY <2>4, <2>5
\* From here on the live adapters are those of before, but for an insertion.
<1>9. ASSUME \A a \in Adapters : (\E n \in Names : live[n] # None /\ live[n].adapter = a) /\ ForwardedFor(a)
                => ForwardedFor(a)',
             \A n \in Names : live'[n] # None => live[n] # None /\ live'[n].adapter = live[n].adapter
      PROVE  ForwardInv'
  <2> SUFFICES ASSUME NEW n \in Names, live'[n] # None
               PROVE  ForwardedFor(live[n].adapter)'
    BY DEF ForwardInv
  <2>1. PICK a \in Adapters : a = live[n].adapter /\ ForwardedFor(a) /\ live'[n].adapter = a /\ live[n] # None
    BY <1>2, <1>4, <1>9
  <2>2. ForwardedFor(a)'
    BY <1>9, <2>1
  <2> QED BY <2>1, <2>2 DEF ForwardedFor, Abandoned
<1>10. ASSUME NEW r \in Requests, NEW b \in Adapters, AddCheck(r, b)
       PROVE  ForwardInv'
  <2>1. /\ pc[r] = "idle" /\ pc' = [pc EXCEPT ![r] = "adding"]
        /\ target' = [target EXCEPT ![r] = b] /\ Fresh(b)
        /\ event_tx' = [event_tx EXCEPT ![b] = r]
        /\ UNCHANGED <<live, forwarder>>
    BY <1>10 DEF AddCheck, BeginConnect
  <2>2. target[r] = None
    BY <2>1 DEF LifeInv
  <2>3. ASSUME NEW a \in Adapters, ForwardedFor(a), NEW n \in Names, live[n] # None, live[n].adapter = a
        PROVE  ForwardedFor(a)'
    <3>1. a # b
      BY <2>1, <2>3 DEF LifeInv, Fresh
    <3>2. event_tx'[a] = event_tx[a] /\ event_tx[a] # r
      BY <1>1, <1>5, <1>6, <2>1, <2>2, <2>3, <3>1 DEF ForwardedFor, Owns
    <3>3. \A s \in Requests : s # r => pc'[s] = pc[s] /\ target'[s] = target[s]
      BY <1>1, <2>1
    <3> QED BY <1>7, <2>1, <2>2, <2>3, <3>2, <3>3 DEF Abandoned
  <2> QED BY <1>9, <2>1, <2>3
<1>11. ASSUME NEW r \in Requests, NEW n \in Names, RemoveTake(r, n) \/ ReconnectTake(r, n)
       PROVE  ForwardInv'
  <2>1. /\ pc[r] = "idle" /\ live[n] # None /\ target' = [target EXCEPT ![r] = live[n].adapter]
        /\ forwarder' = [forwarder EXCEPT ![live[n].forward_handle] = "ended"]
        /\ \/ pc' = [pc EXCEPT ![r] = "removing"] /\ live' = [live EXCEPT ![n] = None]
           \/ pc' = [pc EXCEPT ![r] = "resetting"] /\ live' = live
        /\ event_tx' = event_tx
    BY <1>11 DEF RemoveTake, ReconnectTake, managerVars
  <2>2. target[r] = None
    BY <2>1 DEF LifeInv
  <2>3. PICK owner \in Adapters : NameOf[owner] = n /\ Owns(owner, live[n].forward_handle)
    BY <2>1 DEF ChannelInv
  <2>4. SUFFICES ASSUME NEW m \in Names, live'[m] # None
                 PROVE  ForwardedFor(live[m].adapter)'
    BY DEF ForwardInv
  <2>5. PICK a \in Adapters : /\ live[m] # None /\ a = live[m].adapter /\ live'[m].adapter = a
                              /\ ForwardedFor(a) /\ NameOf[a] = m
    BY <1>1, <1>2, <1>4, <2>1, <2>4
  <2>6. CASE m = n
    <3>1. pc'[r] = "resetting" /\ target'[r] = a
      BY <1>1, <2>1, <2>4, <2>5, <2>6
    <3> QED BY <2>1, <2>5, <3>1 DEF ForwardedFor
  <2>7. CASE m # n
    <3>1. event_tx[a] # live[n].forward_handle
      BY <1>6, <2>3, <2>5, <2>7, OneOwner DEF ForwardedFor
    <3>2. forwarder'[event_tx[a]] = forwarder[event_tx[a]]
      BY <1>1, <1>6, <2>1, <2>5, <3>1 DEF ForwardedFor
    <3>3. event_tx[a] # r
      BY <1>5, <1>6, <2>2, <2>5 DEF ForwardedFor, Owns
    <3>4. \A s \in Requests : s # r => pc'[s] = pc[s] /\ target'[s] = target[s]
      BY <1>1, <2>1
    <3>5. ForwardedFor(a)'
      BY <1>7, <2>1, <2>2, <2>5, <3>2, <3>3, <3>4 DEF Abandoned
    <3> QED BY <2>5, <3>5 DEF ForwardedFor, Abandoned
  <2> QED BY <2>6, <2>7
<1>12. ASSUME NEW r \in Requests, ReconnectBegin(r)
       PROVE  ForwardInv'
  <2>1. PICK b \in Adapters :
          /\ b = target[r] /\ pc[r] = "reset"
          /\ event_tx' = [event_tx EXCEPT ![b] = r]
          /\ pc' = [pc EXCEPT ![r] = "dialing"]
          /\ UNCHANGED <<live, target, forwarder>>
    BY <1>12 DEF ReconnectBegin, BeginConnect, managerVars, TypeInv, Targeted, InProgress
  <2>2. pc'[r] = "dialing" /\ \A s \in Requests : s # r => pc'[s] = pc[s]
    BY <1>1, <2>1
  <2>3. ASSUME NEW a \in Adapters, ForwardedFor(a) PROVE ForwardedFor(a)'
    <3>1. CASE a = b
      <4>1. event_tx'[a] = r
        BY <1>1, <2>1, <3>1
      <4> QED BY <1>5, <2>2, <4>1 DEF ForwardedFor
    <3>2. CASE a # b
      <4>1. event_tx'[a] = event_tx[a]
        BY <1>1, <2>1, <3>2
      <4>2. event_tx[a] # r
        BY <1>5, <1>6, <2>1, <2>3, <3>2 DEF ForwardedFor, Owns
      <4> QED BY <1>7, <2>1, <2>2, <2>3, <3>2, <4>1, <4>2 DEF Abandoned
    <3> QED BY <3>1, <3>2
  <2> QED BY <1>9, <2>1, <2>3
<1>13. ASSUME NEW r \in Requests, AddInsert(r)
       PROVE  ForwardInv'
  <2>1. PICK b \in Adapters :
          /\ b = target[r] /\ pc[r] = "registered"
          /\ forwarder' = [forwarder EXCEPT ![r] = "running"]
          /\ live' = [live EXCEPT ![NameOf[b]] = [adapter |-> b, forward_handle |-> r]]
          /\ pc' = [pc EXCEPT ![r] = "done"]
          /\ UNCHANGED <<event_tx, target>>
    BY <1>13 DEF AddInsert, TypeInv, Targeted, InProgress
  <2>2. ForwardedFor(b)'
    <3>1. event_tx[b] = r
      BY <2>1 DEF ChannelInv
    <3> QED BY <1>1, <1>5, <2>1, <3>1 DEF ForwardedFor
  <2>3. SUFFICES ASSUME NEW n \in Names, live'[n] # None
                 PROVE  ForwardedFor(live[n].adapter)'
    BY DEF ForwardInv
  <2>4. CASE n = NameOf[b]
    <3>1. live'[n].adapter = b
      BY <1>1, <1>3, <1>5, <2>1, <2>4
    <3> QED BY <2>2, <3>1 DEF ForwardedFor, Abandoned
  <2>5. CASE n # NameOf[b]
    <3>1. PICK a \in Adapters : live'[n].adapter = a /\ ForwardedFor(a)
      BY <1>1, <1>2, <1>4, <2>1, <2>3, <2>5
    <3>2. ForwardedFor(a)'
      BY <1>1, <1>5, <1>7, <2>1, <3>1 DEF Abandoned, ForwardedFor
    <3> QED BY <3>1, <3>2 DEF ForwardedFor, Abandoned
  <2> QED BY <2>4, <2>5
<1>14. ASSUME NEW r \in Requests, ReconnectStore(r)
       PROVE  ForwardInv'
  <2>1. /\ pc[r] = "storing"
        /\ forwarder' = [forwarder EXCEPT ![r] = "running"]
        /\ pc' = [pc EXCEPT ![r] = "done"]
        /\ UNCHANGED <<event_tx, target>>
    BY <1>14 DEF ReconnectStore
  <2>2. \A n \in Names : live'[n] # None => live[n] # None /\ live'[n].adapter = live[n].adapter
    BY <1>14, StoreKeepsAdapters DEF TypeInv
  <2>3. ASSUME NEW a \in Adapters, ForwardedFor(a) PROVE ForwardedFor(a)'
    BY <1>1, <1>5, <1>7, <2>1, <2>3 DEF Abandoned, ForwardedFor
  <2> QED BY <1>9, <2>2, <2>3
<1>15. CASE Shutdown
  BY <1>15 DEF Shutdown, ForwardInv
<1>16. ASSUME NEW c \in Channels, ForwarderEnd(c)
       PROVE  ForwardInv'
  <2>1. /\ \A a \in Adapters : event_tx[a] = c => ~Held(a)
        /\ forwarder' = [forwarder EXCEPT ![c] = "ended"]
        /\ UNCHANGED <<live, event_tx, pc, target>>
    BY <1>16 DEF ForwarderEnd, managerVars, requestVars
  <2>2. ASSUME NEW a \in Adapters, ForwardedFor(a), NEW n \in Names, live[n] # None, live[n].adapter = a
        PROVE  ForwardedFor(a)'
    <3>1. Held(a)
      BY <2>2 DEF Held, LiveAdapters
    <3>2. forwarder'[event_tx[a]] = forwarder[event_tx[a]]
      BY <1>1, <1>6, <2>1, <2>2, <3>1 DEF ForwardedFor
    <3> QED BY <1>7, <2>1, <2>2, <3>2 DEF Abandoned
  <2> QED BY <1>9, <2>1, <2>2
<1>17. ASSUME NEW r \in Requests,
              \/ AddConnect(r) \/ AddRegister(r) \/ RemoveDisconnect(r) \/ RemoveUnregister(r)
              \/ ReconnectDisconnect(r) \/ ReconnectConnect(r) \/ RequestDropped(r)
       PROVE  ForwardInv'
  <2>1. UNCHANGED <<live, event_tx, forwarder, target>>
    BY <1>17 DEF AddConnect, AddRegister, RemoveDisconnect, RemoveUnregister, ReconnectDisconnect,
      ReconnectConnect, RequestDropped, managerVars, adapterVars
  <2>2. \A s \in Requests : /\ pc[s] \in {"resetting", "reset"} => pc'[s] \in {"resetting", "reset"}
                            /\ pc[s] \in {"dialing", "storing"} =>
                                 pc'[s] \in {"dialing", "storing", "dropped"}
                            /\ pc[s] = "dropped" => pc'[s] = "dropped"
    BY <1>1, <1>17 DEF AddConnect, AddRegister, RemoveDisconnect, RemoveUnregister,
      ReconnectDisconnect, ReconnectConnect, RequestDropped
  <2>3. ASSUME NEW a \in Adapters, ForwardedFor(a) PROVE ForwardedFor(a)'
    BY <1>7, <2>1, <2>2, <2>3 DEF Abandoned
  <2> QED BY <1>9, <2>1, <2>3
<1>18. ASSUME \/ \E a \in Adapters : LearnSelfId(a)
              \/ \E c \in Channels : ConnectionLost(c)
              \/ Started \/ RefresherStep \/ UNCHANGED vars
       PROVE  ForwardInv'
  <2>1. UNCHANGED <<live, event_tx, forwarder, pc, target>>
    BY <1>18 DEF LearnSelfId, ConnectionLost, Started, RefresherStep, RefreshList, RefreshNames,
      RefreshVisit, RefreshEnd, vars, managerVars, adapterVars, requestVars
  <2> QED BY <1>4, <2>1 DEF ForwardInv, ForwardedFor, Abandoned
<1> QED
  BY <1>8, <1>10, <1>11, <1>12, <1>13, <1>14, <1>15, <1>16, <1>17, <1>18 DEF Next, RequestStep

\* When no request is in progress, what a live adapter sends is forwarded,
\* unless the reconnect that made its channel was dropped in its dial, also
\* when a handle was stored under the name of another adapter meanwhile.
THEOREM ForwardingCorrect == Spec => []LiveIsForwarded
<1> DEFINE Inv == TypeInv /\ LifeInv /\ ChannelInv /\ ForwardInv
<1>1. Init => Inv
  BY TypeInit, LifeInit, ChannelInit
<1>2. Inv /\ [Next]_vars => Inv'
  BY TypeStep, LifeStep, ChannelStep, ForwardStep
<1>3. Inv => LiveIsForwarded
  <2> SUFFICES ASSUME Inv, Quiet, NEW n \in Names, live[n] # None,
                      event_tx[live[n].adapter] \notin Abandoned
               PROVE  forwarder[event_tx[live[n].adapter]] = "running"
    BY DEF LiveIsForwarded, LiveAdapters
  <2>1. ForwardedFor(live[n].adapter)
    BY DEF ForwardInv
  <2> QED BY <2>1 DEF ForwardedFor, Quiet, InProgress
<1> QED
  BY <1>1, <1>2, <1>3, PTL DEF Spec

=============================================================================
