---------------------------- MODULE OncePerWindow ----------------------------
(***************************************************************************)
(* What deduplication promises: an event is accepted when nothing with its *)
(* fingerprint has been accepted in the Window before it, and dropped when *)
(* something has.  Drops do not prolong the window.  Slack is how much     *)
(* earlier than the end of the window an acceptance may come.              *)
(***************************************************************************)
EXTENDS Naturals

CONSTANTS
  Fingerprints,
  Times,         \* arrival times, a set of natural numbers
  Window,
  Slack,
  None

VARIABLES
  accepted,      \* arrival of the event accepted last, for each fingerprint
  decision       \* the last verdict

vars == <<accepted, decision>>

Init ==
  /\ accepted = [f \in Fingerprints |-> None]
  /\ decision = None

Accept(f, t) ==
  /\ accepted[f] = None \/ t + Slack >= accepted[f] + Window
  /\ accepted' = [accepted EXCEPT ![f] = t]
  /\ decision' = [fingerprint |-> f, at |-> t, verdict |-> "accept"]

Drop(f, t) ==
  /\ accepted[f] # None
  /\ t < accepted[f] + Window
  /\ decision' = [fingerprint |-> f, at |-> t, verdict |-> "drop"]
  /\ UNCHANGED accepted

Next == \E f \in Fingerprints, t \in Times : Accept(f, t) \/ Drop(f, t)

Spec == Init /\ [][Next]_vars

=============================================================================
