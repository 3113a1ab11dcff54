---------------------------- MODULE MCConfigReload ----------------------------
(* ConfigReload instantiated for TLC: two valid files with different       *)
(* settings, one of which stops the refill, and a file that is refused.    *)
EXTENDS ConfigReload

CONSTANT t1

Account(name, url, fallback) == [name |-> name, url |-> url, fallback |-> fallback]

Good(tok, r, b) ==
  [parses |-> TRUE, port |-> 80, host |-> "h", token |-> tok, rps |-> r, burst |-> b,
   accounts |-> <<Account("a", "ws", {"http"}), Account("b", "http", {})>>, targets |-> {"u"}]

MCFiles ==
  LET ok == Good(t1, 1, 2)
  IN {Good(t1, 1, 2), Good(NoToken, 0, 1)}
     \cup {[ok EXCEPT !.accounts = <<Account("a", "ws", {}), Account("a", "ws", {})>>]}

\* Every other reason for which a file is refused.
Refused ==
  LET ok == Good(t1, 1, 2)
  IN {[ok EXCEPT !.parses = FALSE], [ok EXCEPT !.port = 0], [ok EXCEPT !.host = ""], [ok EXCEPT !.targets = {""}],
      [ok EXCEPT !.accounts = <<Account("", "ws", {})>>],
      [ok EXCEPT !.accounts = <<Account("a", "ftp", {})>>],
      [ok EXCEPT !.accounts = <<Account("a", "ws", {""})>>]}

ASSUME \A f \in Refused : ~Valid(f)

=============================================================================
