----------------------------- MODULE PluginEngine -----------------------------
(***************************************************************************)
(* The plugin engine, crates/ferroq-gateway/src/plugin_engine.rs: loading  *)
(* the configured plugins and passing an event or an API request through   *)
(* the chain of them.                                                      *)
(*                                                                         *)
(* process_event and process_api_call hold the lock of the plugin list for *)
(* a whole pass, so a pass excludes any other one and set_plugin_enabled;  *)
(* a step of the model is the call of one plugin's hook.  What the guest   *)
(* does inside is free: it may write a result, return any code, or trap.   *)
(* It answers only for what it was given: a result it writes is its own    *)
(* edit of that item, or does not parse, as an empty one.  Its allocator   *)
(* and deallocator do nothing but that, and the memory they manage is not  *)
(* modelled.  list_plugins only reads.                                     *)
(***************************************************************************)
EXTENDS Naturals, Sequences, FiniteSets

CONSTANTS
  Events,
  Requests,   \* API requests
  Names,      \* names plugins give themselves
  Paths,      \* number of configured plugins
  MaxPasses,  \* bound on the passes through the chain
  None,       \* an empty result buffer, no pass in progress
  Garbage     \* a result that does not parse

Items == Events \cup Requests

\* An item on its way and the plugins whose edits it carries.
Value == [item : Items, edits : SUBSET (1..Paths)]

ASSUME PluginAssumption ==
  /\ {Paths, MaxPasses} \subseteq Nat
  /\ Events \cap Requests = {}
  /\ None # Garbage /\ {None, Garbage} \cap Value = {}

VARIABLES
  wasm,     \* is the engine compiled in, or its stand-in that does nothing
  loaded,   \* configured plugins load_plugins has visited
  plugins,  \* the chain: [name, enabled, result_buffer, left, stale]
  pass,     \* the pass in progress
  done,     \* the pass finished last
  passes,   \* their number
  unread    \* history: items whose edit a trap left in a buffer

vars == <<wasm, loaded, plugins, pass, done, passes, unread>>

\* History: left counts the calls of init and the hooks that ended without their
\* result being taken, stale the calls that took the result of an earlier one.
Plugin == [name : Names, enabled : BOOLEAN, result_buffer : Value \cup {None, Garbage},
           left : Nat, stale : Nat]
Pass == [item : Items, value : Value, at : 1..Paths + 1, called : SUBSET (1..Paths),
         verdict : {"Continue", "Handled", "Drop"}]

TypeOK ==
  /\ wasm \in BOOLEAN
  /\ loaded \in 0..Paths
  /\ plugins \in Seq(Plugin) /\ Len(plugins) <= loaded
  /\ {pass, done} \subseteq Pass \cup {None}
  /\ passes \in 0..MaxPasses
  /\ unread \subseteq Items

Init ==
  /\ wasm \in BOOLEAN
  /\ loaded = 0
  /\ plugins = <<>>
  /\ pass = None
  /\ done = None
  /\ passes = 0
  /\ unread = {}

-----------------------------------------------------------------------------
(* Loading *)

\* A plugin is disabled, has no file, does not compile or instantiate, gives
\* no valid info or traps in its init; the stand-in loads none.
SkipPlugin ==
  /\ loaded < Paths
  /\ loaded' = loaded + 1
  /\ UNCHANGED <<wasm, plugins, pass, done, passes, unread>>

\* The info has been taken from the result buffer.  init is called if the
\* plugin exports it and an allocator, its code is only logged and what it
\* writes stays in the result buffer.
LoadPlugin(name, initialised, result) ==
  /\ wasm
  /\ loaded < Paths
  /\ ~initialised => result = None
  /\ loaded' = loaded + 1
  /\ plugins' = Append(plugins,
       [name |-> name, enabled |-> TRUE, result_buffer |-> result,
        left |-> IF result = None THEN 0 ELSE 1, stale |-> 0])
  /\ UNCHANGED <<wasm, pass, done, passes, unread>>

\* Plugins of a name: only the first of them can be switched.
Named(name) == {i \in DOMAIN plugins : plugins[i].name = name}

SetPluginEnabled(name, enabled) ==
  /\ loaded = Paths
  /\ pass = None
  /\ \E i \in Named(name) :
       /\ \A j \in Named(name) : i <= j
       /\ plugins' = [plugins EXCEPT ![i].enabled = enabled]
  /\ UNCHANGED <<wasm, loaded, pass, done, passes, unread>>

-----------------------------------------------------------------------------
(* A pass through the chain *)

Begin(e) ==
  /\ loaded = Paths
  /\ pass = None
  /\ passes < MaxPasses
  /\ pass' = [item |-> e, value |-> [item |-> e, edits |-> {}], at |-> 1, called |-> {},
              verdict |-> "Continue"]
  /\ passes' = passes + 1
  /\ done' = None
  /\ UNCHANGED <<wasm, loaded, plugins, unread>>

InChain == pass # None /\ pass.at \in DOMAIN plugins /\ pass.verdict = "Continue"
Current == plugins[pass.at]

\* The plugin is disabled or does not export the hook.
SkipHook ==
  /\ InChain
  /\ pass' = [pass EXCEPT !.at = @ + 1]
  /\ UNCHANGED <<wasm, loaded, plugins, done, passes, unread>>

\* The allocator is missing, of another type or traps, or the memory it gives
\* cannot be written: an error, which the chain logs and goes on.
AllocFails ==
  /\ InChain /\ Current.enabled
  /\ pass' = [pass EXCEPT !.at = @ + 1, !.called = @ \cup {pass.at}]
  /\ UNCHANGED <<wasm, loaded, plugins, done, passes, unread>>

\* What the guest can write for the item it was given.
Results == {None, Garbage, [pass.value EXCEPT !.edits = @ \cup {pass.at}]}

\* The result buffer after the guest has written.
Buffer(result) == IF result = None THEN Current.result_buffer ELSE result

\* The guest traps, or the hook has another type: an error too, and the result
\* buffer is not emptied.
HookTraps(result) ==
  /\ InChain /\ Current.enabled
  /\ plugins' = [plugins EXCEPT ![pass.at] =
       [Current EXCEPT !.result_buffer = Buffer(result),
                       !.left = IF result = None THEN @ ELSE @ + 1]]
  /\ pass' = [pass EXCEPT !.at = @ + 1, !.called = @ \cup {pass.at}]
  /\ unread' = IF result \in Value THEN unread \cup {result.item} ELSE unread
  /\ UNCHANGED <<wasm, loaded, done, passes>>

\* Does a result parse as what the chain is processing?
Parses(result) == result \in Value /\ (result.item \in Events <=> pass.item \in Events)

\* PluginResult::from_i32; any other code is an error, which goes on.
FromI32(code) == IF code = 1 THEN "Handled" ELSE IF code = 2 THEN "Drop" ELSE "Continue"

\* The guest left its buffer alone and an earlier result was in it.
CountStale(p, result) == IF result = None /\ p.result_buffer # None THEN p.stale + 1 ELSE p.stale

\* Mutant: the buffer is read, not taken.
Returned_Read(p, result) ==
  [p EXCEPT !.result_buffer = Buffer(result), !.stale = CountStale(p, result)]

\* Mutant: it is taken only if the guest has written to it.
Returned_TakeOwn(p, result) ==
  [p EXCEPT !.result_buffer = IF result = None THEN @ ELSE None, !.stale = CountStale(p, result)]

\* The buffer is taken, whoever has filled it.
Returned(p, result) == [p EXCEPT !.result_buffer = None, !.stale = CountStale(p, result)]

\* The guest returns: what the buffer holds, if it parses, replaces the item
\* and the code decides whether the chain goes on.
HookReturns(result, code) ==
  /\ InChain /\ Current.enabled
  /\ LET final == Buffer(result)
     IN  /\ pass' = [pass EXCEPT !.at = IF FromI32(code) = "Continue" THEN @ + 1 ELSE @,
                                 !.called = @ \cup {pass.at},
                                 !.value = IF Parses(final) THEN final ELSE @,
                                 !.verdict = FromI32(code)]
         /\ plugins' = [plugins EXCEPT ![pass.at] = Returned(@, result)]
  /\ UNCHANGED <<wasm, loaded, done, passes, unread>>

\* The chain has ended or a plugin has ended it.
End ==
  /\ pass # None
  /\ ~InChain
  /\ done' = pass
  /\ pass' = None
  /\ UNCHANGED <<wasm, loaded, plugins, passes, unread>>

Next ==
  \/ SkipPlugin
  \/ \E name \in Names, b \in BOOLEAN :
       \/ \E result \in {None, Garbage} : LoadPlugin(name, b, result)
       \/ SetPluginEnabled(name, b)
  \/ \E e \in Items : Begin(e)
  \/ SkipHook \/ AllocFails
  \/ InChain /\ \E result \in Results :
       \/ HookTraps(result)
       \/ \E code \in 0..3 : HookReturns(result, code)
  \/ End

Spec == Init /\ [][Next]_vars

-----------------------------------------------------------------------------
(* Properties *)

\* What leaves the chain is the item that entered it, edited only by plugins
\* that were called for it, or an older one of its kind whose edit a trap
\* left behind.  An event never comes out as a request.
ItemKept ==
  done # None =>
    /\ done.value.item \in Events <=> done.item \in Events
    /\ done.value.item # done.item => done.value.item \in unread
    /\ done.value.item \notin unread => done.value.edits \subseteq done.called

\* A result that a trap or an init left in a plugin's buffer is taken by at most
\* one later call: the plugin takes no more of them than its calls have left, and
\* one still in the buffer has not been taken (and the types hold).
LeftoversTakenOnce ==
  /\ TypeOK
  /\ \A i \in DOMAIN plugins :
       plugins[i].stale + (IF plugins[i].result_buffer = None THEN 0 ELSE 1) <= plugins[i].left

=============================================================================
