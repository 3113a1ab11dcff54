----------------------------- MODULE MCLagrange -----------------------------
(* LagrangeAdapter instantiated for TLC. *)
EXTENDS LagrangeAdapter, TLC

\* All these are only compared for equality.  Starter and Cancellable are
\* named by the specification, so their members are not permuted.
Symmetry ==
  Permutations(Conns) \cup Permutations(Monitors) \cup Permutations(Connectors \ {Starter})
    \cup Permutations(Calls \ Cancellable)

=============================================================================
