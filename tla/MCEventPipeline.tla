--------------------------- MODULE MCEventPipeline ---------------------------
(* EventPipeline instantiated for TLC: two adapters of one account report a  *)
(* message, each at its own time, and one of them another message and a      *)
(* notice.                                                                   *)
EXTENDS EventPipeline

CONSTANTS a1, a2, e1, e2, e3

MCSends  == [a \in Adapters |-> IF a = a1 THEN <<e1, e2, e3>> ELSE <<e1>>]
MCTimeOf == [e \in Events |-> IF e = e3 THEN 2 ELSE 0]

=============================================================================
