------------------------------ MODULE MCPlugins ------------------------------
(* PluginEngine instantiated for TLC. *)
EXTENDS PluginEngine, TLC

Symmetry == Permutations(Events) \cup Permutations(Names)

=============================================================================
