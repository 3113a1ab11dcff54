--------------------------------- MODULE MCWs ---------------------------------
(* WsConnection instantiated for TLC. *)
EXTENDS WsConnection

=============================================================================
