-------------------------- MODULE PluginEngineProofs --------------------------
(***************************************************************************)
(* Proofs about PluginEngine, for any number of plugins, any names, events *)
(* and requests and any number of passes: what leaves the chain, and how   *)
(* often results that were left behind are taken.                          *)
(***************************************************************************)
EXTENDS PluginEngine, SequenceTheorems, TLAPS

\* What a value on its way in a pass, or at its end, may be.
ValueKept(p) ==
  /\ p.value.item \in Events <=> p.item \in Events
  /\ p.value.item # p.item => p.value.item \in unread
  /\ p.value.item \notin unread => p.value.edits \subseteq p.called

\* What LeftoversTakenOnce says of one plugin.
TakenOnce(p) == p.stale + (IF p.result_buffer = None THEN 0 ELSE 1) <= p.left

\* A buffer holds only what a trap has left in it.
BuffersExplained ==
  \A i \in DOMAIN plugins :
    plugins[i].result_buffer \in Value => plugins[i].result_buffer.item \in unread

IInv ==
  /\ LeftoversTakenOnce
  /\ BuffersExplained
  /\ pass # None => ValueKept(pass)
  /\ done # None => ValueKept(done)

-----------------------------------------------------------------------------

LEMMA InitIInv == Init => IInv
<1> SUFFICES ASSUME Init PROVE IInv
  OBVIOUS
<1>1. plugins = <<>> /\ plugins \in Seq(Plugin) /\ Len(plugins) = 0 /\ DOMAIN plugins = {}
  BY DEF Init
<1> QED
  BY <1>1, PluginAssumption DEF Init, IInv, LeftoversTakenOnce, BuffersExplained, TypeOK

\* Of a chain that has changed in one plugin.
LEMMA OneReplaced ==
  ASSUME IInv, NEW i \in DOMAIN plugins, NEW p \in Plugin, plugins' = [plugins EXCEPT ![i] = p],
         TakenOnce(p), unread \subseteq unread',
         p.result_buffer \in Value => p.result_buffer.item \in unread'
  PROVE  /\ plugins' \in Seq(Plugin) /\ Len(plugins') = Len(plugins)
         /\ BuffersExplained'
         /\ \A j \in DOMAIN plugins' : TakenOnce(plugins'[j])
<1>1. plugins \in Seq(Plugin) /\ DOMAIN plugins = 1..Len(plugins)
  BY DEF IInv, LeftoversTakenOnce, TypeOK
<1>2. /\ plugins' \in Seq(Plugin) /\ Len(plugins') = Len(plugins)
      /\ \A j \in 1..Len(plugins) : plugins'[j] = IF j = i THEN p ELSE plugins[j]
  BY <1>1, ExceptSeq
<1>3. DOMAIN plugins' = 1..Len(plugins)
  BY <1>2
<1> QED
  BY <1>1, <1>2, <1>3 DEF IInv, LeftoversTakenOnce, BuffersExplained, TakenOnce

LEMMA LoadStep ==
  ASSUME IInv, NEW name \in Names, NEW b \in BOOLEAN, NEW result \in {None, Garbage},
         LoadPlugin(name, b, result)
  PROVE  IInv'
<1> DEFINE p == [name |-> name, enabled |-> TRUE, result_buffer |-> result,
                 left |-> IF result = None THEN 0 ELSE 1, stale |-> 0]
<1>1. /\ loaded < Paths /\ loaded' = loaded + 1 /\ plugins' = Append(plugins, p)
      /\ UNCHANGED <<wasm, pass, done, passes, unread>>
  BY DEF LoadPlugin
<1>2. /\ p \in Plugin /\ TakenOnce(p) /\ p.result_buffer \notin Value
  BY PluginAssumption DEF Plugin, TakenOnce
<1> HIDE DEF p
<1>3. /\ plugins \in Seq(Plugin) /\ Len(plugins) \in Nat /\ Len(plugins) <= loaded /\ loaded \in 0..Paths
      /\ Paths \in Nat /\ DOMAIN plugins = 1..Len(plugins)
  BY PluginAssumption DEF IInv, LeftoversTakenOnce, TypeOK
<1>4. /\ plugins' \in Seq(Plugin) /\ Len(plugins') = Len(plugins) + 1
      /\ \A i \in 1..Len(plugins) : plugins'[i] = plugins[i]
      /\ plugins'[Len(plugins) + 1] = p
  BY <1>1, <1>2, <1>3, AppendProperties
<1>5. DOMAIN plugins' = 1..(Len(plugins) + 1)
  BY <1>4
<1>6. \A i \in DOMAIN plugins' : (i \in DOMAIN plugins /\ plugins'[i] = plugins[i]) \/ plugins'[i] = p
  BY <1>3, <1>4, <1>5
<1>7. LeftoversTakenOnce'
  BY <1>1, <1>2, <1>3, <1>4, <1>6 DEF IInv, LeftoversTakenOnce, TypeOK, TakenOnce
<1>8. BuffersExplained'
  BY <1>1, <1>2, <1>6 DEF IInv, BuffersExplained
<1> QED
  BY <1>1, <1>7, <1>8 DEF IInv, ValueKept

LEMMA EnableStep ==
  ASSUME IInv, NEW name \in Names, NEW b \in BOOLEAN, SetPluginEnabled(name, b)
  PROVE  IInv'
<1>1. PICK i \in DOMAIN plugins : plugins' = [plugins EXCEPT ![i].enabled = b]
  BY DEF SetPluginEnabled, Named
<1> DEFINE p == [plugins[i] EXCEPT !.enabled = b]
<1>2. plugins[i] \in Plugin /\ plugins' = [plugins EXCEPT ![i] = p]
  BY <1>1 DEF IInv, LeftoversTakenOnce, TypeOK
<1>3. /\ p \in Plugin /\ TakenOnce(p)
      /\ p.result_buffer \in Value => p.result_buffer.item \in unread
  BY <1>1, <1>2 DEF IInv, LeftoversTakenOnce, BuffersExplained, Plugin, TakenOnce
<1> HIDE DEF p
<1>4. UNCHANGED <<wasm, loaded, pass, done, passes, unread>>
  BY DEF SetPluginEnabled
<1> QED
  BY <1>2, <1>3, <1>4, OneReplaced DEF IInv, LeftoversTakenOnce, TakenOnce, TypeOK, ValueKept

\* What the steps of the chain rely on.
LEMMA ChainTypes ==
  ASSUME IInv, InChain
  PROVE  /\ pass \in Pass /\ pass.at \in 1..Paths /\ pass.at + 1 \in 1..Paths + 1
         /\ pass.at \in DOMAIN plugins /\ Current \in Plugin
         /\ TakenOnce(Current)
         /\ Current.result_buffer \in Value => Current.result_buffer.item \in unread
         /\ ValueKept(pass)
<1>1. /\ plugins \in Seq(Plugin) /\ Len(plugins) <= loaded /\ loaded \in 0..Paths
      /\ Paths \in Nat /\ DOMAIN plugins = 1..Len(plugins) /\ Len(plugins) \in Nat
  BY PluginAssumption DEF IInv, LeftoversTakenOnce, TypeOK
<1>2. pass # None /\ pass \in Pass /\ pass.at \in DOMAIN plugins
  BY DEF InChain, IInv, LeftoversTakenOnce, TypeOK
<1> QED
  BY <1>1, <1>2 DEF Current, IInv, LeftoversTakenOnce, TakenOnce, BuffersExplained

LEMMA SkipHookStep ==
  ASSUME IInv, SkipHook \/ AllocFails
  PROVE  IInv'
<1>1. InChain /\ UNCHANGED <<wasm, loaded, plugins, done, passes, unread>>
  BY DEF SkipHook, AllocFails
<1>2. /\ pass' = [pass EXCEPT !.at = @ + 1] \/ pass' = [pass EXCEPT !.at = @ + 1, !.called = @ \cup {pass.at}]
  BY DEF SkipHook, AllocFails
<1>3. pass' \in Pass /\ pass'.value = pass.value /\ pass'.item = pass.item
        /\ pass.called \subseteq pass'.called
  <2>1. CASE pass' = [pass EXCEPT !.at = @ + 1]
    BY <1>1, <2>1, ChainTypes DEF Pass
  <2>2. CASE pass' = [pass EXCEPT !.at = @ + 1, !.called = @ \cup {pass.at}]
    BY <1>1, <2>2, ChainTypes DEF Pass
  <2> QED
    BY <1>2, <2>1, <2>2
<1>4. ValueKept(pass)'
  BY <1>1, <1>3, ChainTypes DEF ValueKept
<1> QED
  BY <1>1, <1>3, <1>4 DEF IInv, LeftoversTakenOnce, TypeOK, BuffersExplained, ValueKept

\* What a guest writes for the item it was given.
LEMMA ResultTypes ==
  ASSUME IInv, InChain, NEW result \in Results
  PROVE  /\ result \in Value \cup {None, Garbage}
         /\ result \in Value => /\ result.item = pass.value.item
                                /\ result.edits = pass.value.edits \cup {pass.at}
                                /\ result.item \in Items
BY ChainTypes, PluginAssumption DEF Results, Pass, Value

\* A plugin that has trapped: a result it has written is one more left behind.
LEMMA Leaving ==
  ASSUME NEW c \in Plugin, TakenOnce(c), NEW result \in Value \cup {None, Garbage}
  PROVE  LET p == [c EXCEPT !.result_buffer = IF result = None THEN c.result_buffer ELSE result,
                            !.left = IF result = None THEN @ ELSE @ + 1]
         IN  p \in Plugin /\ TakenOnce(p)
<1> DEFINE b == IF result = None THEN c.result_buffer ELSE result
           n == IF result = None THEN c.left ELSE c.left + 1
           p == [c EXCEPT !.result_buffer = b, !.left = n]
<1>1. c.left \in Nat /\ c.stale \in Nat /\ c.result_buffer \in Value \cup {None, Garbage}
  BY DEF Plugin
<1>2. b \in Value \cup {None, Garbage} /\ n \in Nat /\ c.stale + (IF b = None THEN 0 ELSE 1) <= n
  BY <1>1 DEF TakenOnce
<1> HIDE DEF b, n
<1>3. p \in Plugin /\ p.result_buffer = b /\ p.left = n /\ p.stale = c.stale
  BY <1>2 DEF Plugin
<1> HIDE DEF p
<1>4. p \in Plugin /\ TakenOnce(p)
  BY <1>2, <1>3 DEF TakenOnce
<1> QED
  BY <1>4 DEF p, b, n

\* A plugin that has returned: its buffer is empty, and if the call took an
\* earlier result, that one was left behind and not taken before.
LEMMA Taking ==
  ASSUME NEW c \in Plugin, TakenOnce(c), NEW result
  PROVE  Returned(c, result) \in Plugin /\ TakenOnce(Returned(c, result))
         /\ Returned(c, result).result_buffer = None
<1> DEFINE n == CountStale(c, result)
           p == [c EXCEPT !.result_buffer = None, !.stale = n]
<1>1. c.left \in Nat /\ c.stale \in Nat
  BY DEF Plugin
<1>2. n \in Nat /\ n <= c.left
  BY <1>1 DEF TakenOnce, CountStale
<1> HIDE DEF n
<1>3. p \in Plugin /\ p.result_buffer = None /\ p.left = c.left /\ p.stale = n
  BY <1>2 DEF Plugin
<1> HIDE DEF p
<1>4. TakenOnce(p)
  BY <1>1, <1>2, <1>3 DEF TakenOnce
<1> QED
  BY <1>3, <1>4 DEF Returned, p, n

LEMMA TrapStep ==
  ASSUME IInv, NEW result \in Results, HookTraps(result)
  PROVE  IInv'
<1>1. /\ InChain
      /\ pass' = [pass EXCEPT !.at = @ + 1, !.called = @ \cup {pass.at}]
      /\ unread' = IF result \in Value THEN unread \cup {result.item} ELSE unread
      /\ UNCHANGED <<wasm, loaded, done, passes>>
  BY DEF HookTraps
<1> DEFINE p == [Current EXCEPT !.result_buffer = Buffer(result),
                                !.left = IF result = None THEN @ ELSE @ + 1]
<1>2. plugins' = [plugins EXCEPT ![pass.at] = p]
  BY <1>1, ChainTypes DEF HookTraps, Current
<1>3. /\ p \in Plugin /\ TakenOnce(p) /\ p.result_buffer = Buffer(result)
  <2>1. Current \in Plugin /\ TakenOnce(Current)
    BY <1>1, ChainTypes
  <2>2. result \in Value \cup {None, Garbage}
    BY <1>1, ResultTypes
  <2>3. p \in Plugin /\ TakenOnce(p)
    BY <2>1, <2>2, Leaving DEF Buffer
  <2> QED
    BY <2>1, <2>3 DEF Plugin
<1>4. unread \subseteq unread' /\ unread' \subseteq Items
  BY <1>1, ResultTypes DEF IInv, LeftoversTakenOnce, TypeOK
<1>5. p.result_buffer \in Value => p.result_buffer.item \in unread'
  BY <1>1, <1>3, ChainTypes, PluginAssumption DEF Buffer
<1> HIDE DEF p
<1>6. /\ plugins' \in Seq(Plugin) /\ Len(plugins') = Len(plugins)
      /\ BuffersExplained'
      /\ \A j \in DOMAIN plugins' : TakenOnce(plugins'[j])
  BY <1>1, <1>2, <1>3, <1>4, <1>5, ChainTypes, OneReplaced
<1>7. pass' \in Pass /\ pass'.value = pass.value /\ pass'.item = pass.item
        /\ pass.called \subseteq pass'.called
  BY <1>1, ChainTypes DEF Pass
<1>8. ValueKept(pass)'
  BY <1>1, <1>4, <1>7, ChainTypes DEF ValueKept
<1>9. done # None => ValueKept(done)'
  BY <1>1, <1>4 DEF IInv, ValueKept
<1> QED
  BY <1>1, <1>4, <1>6, <1>7, <1>8, <1>9 DEF IInv, LeftoversTakenOnce, TakenOnce, TypeOK

\* The result taken is the plugin's own edit of the item, or what a trap of
\* an earlier call has left.
LEMMA ReturnStep ==
  ASSUME IInv, NEW result \in Results, NEW code \in 0..3, HookReturns(result, code)
  PROVE  IInv'
<1> DEFINE final == Buffer(result)
<1>1. /\ InChain /\ UNCHANGED <<wasm, loaded, done, passes, unread>>
      /\ pass' = [pass EXCEPT !.at = IF FromI32(code) = "Continue" THEN @ + 1 ELSE @,
                              !.called = @ \cup {pass.at},
                              !.value = IF Parses(final) THEN final ELSE @,
                              !.verdict = FromI32(code)]
  BY DEF HookReturns
<1> DEFINE p == Returned(Current, result)
<1>2. plugins' = [plugins EXCEPT ![pass.at] = p]
  BY <1>1, ChainTypes DEF HookReturns, Current
<1>3. /\ p \in Plugin /\ TakenOnce(p) /\ p.result_buffer \notin Value
  BY <1>1, ChainTypes, Taking, PluginAssumption
<1> HIDE DEF p
<1>4. /\ plugins' \in Seq(Plugin) /\ Len(plugins') = Len(plugins)
      /\ BuffersExplained'
      /\ \A j \in DOMAIN plugins' : TakenOnce(plugins'[j])
  BY <1>1, <1>2, <1>3, ChainTypes, OneReplaced
<1>5. FromI32(code) \in {"Continue", "Handled", "Drop"}
  BY DEF FromI32
<1>6. /\ pass' \in Pass /\ pass'.item = pass.item /\ pass'.called = pass.called \cup {pass.at}
      /\ pass'.value = IF Parses(final) THEN final ELSE pass.value
  BY <1>1, <1>5, ChainTypes DEF Pass, Parses
<1>7. CASE ~Parses(final)
  <2>1. ValueKept(pass)'
    BY <1>1, <1>6, <1>7, ChainTypes DEF ValueKept
  <2> QED
    BY <1>1, <1>4, <1>6, <2>1 DEF IInv, LeftoversTakenOnce, TakenOnce, TypeOK, ValueKept
<1>8. CASE Parses(final)
  <2>1. final \in Value /\ (final.item \in Events <=> pass.item \in Events)
    BY <1>8 DEF Parses
  <2>2. \/ final.item \in unread
        \/ final.item = pass.value.item /\ final.edits = pass.value.edits \cup {pass.at}
    BY <1>1, <2>1, ChainTypes, ResultTypes, PluginAssumption DEF Buffer
  <2>3. ValueKept(pass)'
    BY <1>1, <1>6, <1>8, <2>1, <2>2, ChainTypes DEF ValueKept
  <2> QED
    BY <1>1, <1>4, <1>6, <2>3 DEF IInv, LeftoversTakenOnce, TakenOnce, TypeOK, ValueKept
<1> QED
  BY <1>7, <1>8

LEMMA BeginStep ==
  ASSUME IInv, NEW e \in Items, Begin(e)
  PROVE  IInv'
<1>1. /\ pass' \in Pass /\ pass'.item = e /\ pass'.value.item = e /\ pass'.value.edits = {}
  BY PluginAssumption DEF Begin, Pass, Value
<1>2. ValueKept(pass)'
  BY <1>1 DEF ValueKept
<1> QED
  BY <1>1, <1>2, PluginAssumption
  DEF Begin, IInv, LeftoversTakenOnce, TypeOK, BuffersExplained, ValueKept

LEMMA NextIInv == IInv /\ [Next]_vars => IInv'
<1> SUFFICES ASSUME IInv, [Next]_vars PROVE IInv'
  OBVIOUS
<1>1. CASE SkipPlugin
  BY <1>1, PluginAssumption DEF SkipPlugin, IInv, LeftoversTakenOnce, TypeOK, BuffersExplained, ValueKept
<1>2. CASE End
  BY <1>2 DEF End, IInv, LeftoversTakenOnce, TypeOK, BuffersExplained, ValueKept
<1>3. CASE UNCHANGED vars
  BY <1>3 DEF vars, IInv, LeftoversTakenOnce, TypeOK, BuffersExplained, ValueKept
<1> QED
  BY <1>1, <1>2, <1>3, LoadStep, EnableStep, BeginStep, SkipHookStep, TrapStep, ReturnStep DEF Next

-----------------------------------------------------------------------------

LEMMA Invariance == Spec => []IInv
<1> QED
  BY InitIInv, NextIInv, PTL DEF Spec

\* Whatever the guests answer, write or break, an event comes out of the chain
\* as itself with the edits of plugins that were called for it, or as an older
\* event a trap left in a buffer, and never as a request (plugin_engine.rs).
THEOREM ItemCorrect == Spec => []ItemKept
<1>1. IInv => ItemKept
  BY DEF IInv, ItemKept, ValueKept
<1> QED
  BY <1>1, Invariance, PTL

\* For any chain and any number of passes, a result that a trap or an init left
\* behind is taken by at most one later call of the plugin (LoadedPlugin::on_event,
\* on_api_call).
THEOREM LeftoversCorrect == Spec => []LeftoversTakenOnce
<1>1. IInv => LeftoversTakenOnce
  BY DEF IInv
<1> QED
  BY <1>1, Invariance, PTL

=============================================================================
