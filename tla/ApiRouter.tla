------------------------------- MODULE ApiRouter -------------------------------
(***************************************************************************)
(* The router from account ids to adapters,                                *)
(* crates/ferroq-gateway/src/router.rs: an ordered list of adapters, a     *)
(* table from account id to index, a default index.  Each operation is one *)
(* action on the three, made under the lock of the list, except            *)
(* associate_self_id, which takes only the lock of the table.              *)
(*                                                                         *)
(* The module has no next-state relation of its own: AdapterManager        *)
(* composes the operations.  Indices count from 1.                         *)
(***************************************************************************)
EXTENDS Naturals, Sequences, SequencesExt

CONSTANTS
  Adapters,   \* adapter instances
  Names,      \* adapter names
  SelfIds,    \* account ids
  NameOf,     \* the name an adapter was created with
  AccountOf,  \* the account the adapter's backend serves
  None        \* Option::None

ASSUME RouterAssumption ==
  /\ NameOf \in [Adapters -> Names]
  /\ AccountOf \in [Adapters -> SelfIds]
  /\ None \notin Adapters \cup SelfIds \cup Nat

VARIABLES
  adapters,       \* the ordered list
  routing_table,  \* account id to index
  default_index,  \* the index for requests without a known account id
  self_id         \* the account id each adapter has learned from its backend

routerVars == <<adapters, routing_table, default_index>>

RouterTypeOK ==
  /\ adapters \in Seq(Adapters)
  /\ routing_table \in [SelfIds -> (Nat \ {0}) \cup {None}]
  /\ default_index \in (Nat \ {0}) \cup {None}
  /\ self_id \in [Adapters -> SelfIds \cup {None}]

RouterInit ==
  /\ adapters = <<>>
  /\ routing_table = [id \in SelfIds |-> None]
  /\ default_index = None
  /\ self_id = [a \in Adapters |-> None]

Register(a) ==
  LET index == Len(adapters) + 1 IN
  /\ adapters' = Append(adapters, a)
  /\ routing_table' = IF self_id[a] = None THEN routing_table
                      ELSE [routing_table EXCEPT ![self_id[a]] = index]
  /\ default_index' = IF default_index = None THEN index ELSE default_index

\* The update the stats refresher makes; nothing checks the index.
AssociateSelfId(id, index) ==
  /\ routing_table' = [routing_table EXCEPT ![id] = index]
  /\ UNCHANGED <<adapters, default_index>>

ListNames == [i \in DOMAIN adapters |-> NameOf[adapters[i]]]

\* The position of the first adapter of a name, 0 when there is none.
PositionNamed(list, n) == SelectInSeq(list, LAMBDA a : NameOf[a] = n)

\* The position of the last adapter that has learned an id.
LastServing(list, id) == SelectLastInSeq(list, LAMBDA a : self_id[a] = id)

\* The table of a list: of two adapters with one id the later wins.
RebuiltTable(list) ==
  [id \in SelfIds |-> IF LastServing(list, id) = 0 THEN None ELSE LastServing(list, id)]

\* Mutant: the table keeps the indices from before the removal.
Unregister_NoRebuild(n) ==
  LET pos == PositionNamed(adapters, n) IN
  IF pos = 0 THEN UNCHANGED routerVars
  ELSE /\ adapters' = RemoveAt(adapters, pos)
       /\ default_index' = IF adapters' = <<>> THEN None ELSE 1
       /\ UNCHANGED routing_table

\* Mutant: the default moves to the place of the removed adapter.
Unregister_DefaultMoves(n) ==
  LET pos == PositionNamed(adapters, n) IN
  IF pos = 0 THEN UNCHANGED routerVars
  ELSE /\ adapters' = RemoveAt(adapters, pos)
       /\ routing_table' = RebuiltTable(adapters')
       /\ default_index' = IF adapters' = <<>> THEN None ELSE pos

\* Mutant: the last adapter of that name is removed.
Unregister_Last(n) ==
  LET pos == SelectLastInSeq(adapters, LAMBDA a : NameOf[a] = n) IN
  IF pos = 0 THEN UNCHANGED routerVars
  ELSE /\ adapters' = RemoveAt(adapters, pos)
       /\ routing_table' = RebuiltTable(adapters')
       /\ default_index' = IF adapters' = <<>> THEN None ELSE 1

\* The first adapter of that name leaves the list, the table is rebuilt and
\* the default is the first again.
Unregister(n) ==
  LET pos == PositionNamed(adapters, n) IN
  IF pos = 0 THEN UNCHANGED routerVars
  ELSE /\ adapters' = RemoveAt(adapters, pos)
       /\ routing_table' = RebuiltTable(adapters')
       /\ default_index' = IF adapters' = <<>> THEN None ELSE 1

\* The adapter route_named picks for a request, None when it returns an error.
RouteNamed(id) ==
  LET index == IF id # None /\ routing_table[id] # None THEN routing_table[id]
               ELSE IF default_index = None THEN 1 ELSE default_index
  IN  IF index \in DOMAIN adapters THEN adapters[index] ELSE None

=============================================================================
