------------------------------ MODULE MCManager ------------------------------
(* AdapterManager instantiated for TLC: a1 is configured, a2 shares its name *)
(* and its account, a3 and a4 share another name and another account.        *)
EXTENDS AdapterManager

CONSTANTS a1, a2, a3, a4, n1, n2, u1, u2

One == <<a1>>

MCNameOf    == [a \in Adapters |-> IF a \in {a1, a2} THEN n1 ELSE n2]
MCAccountOf == [a \in Adapters |-> IF a \in {a1, a2} THEN u1 ELSE u2]

=============================================================================
