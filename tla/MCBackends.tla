------------------------------ MODULE MCBackends ------------------------------
(* FailoverAdapter instantiated for TLC. *)
EXTENDS FailoverAdapter

=============================================================================
