--------------------------- MODULE OfficialAdapter ---------------------------
(***************************************************************************)
(* The state of official adapters and the locked steps of their            *)
(* operations, crates/ferroq-gateway/src/adapter/official.rs.  HTTP has no *)
(* connection to keep: an adapter posts every request in each of the URL   *)
(* shapes it knows until one is answered, and remembers that one.          *)
(* FailoverAdapter strings the steps together.                             *)
(***************************************************************************)
EXTENDS Naturals, Sequences, SequencesExt

CONSTANTS
  Sides,      \* the adapters
  Templated,  \* those whose URL contains {action}
  None        \* Option::None

VARIABLES
  state,           \* AdapterState
  event_tx,        \* does the adapter hold an event channel
  preferred_mode,  \* the shape answered last
  self_id          \* has the adapter learned its account id

officialVars == <<state, event_tx, preferred_mode, self_id>>

Modes == {"Template", "ApiPrefixed", "DirectAction", "LegacyBody"}
States == {"Disconnected", "Connecting", "Connected", "Reconnecting"}

OfficialTypeOK ==
  /\ state \in [Sides -> States]
  /\ event_tx \in [Sides -> BOOLEAN]
  /\ preferred_mode \in [Sides -> Modes \cup {None}]
  /\ self_id \in [Sides -> BOOLEAN]

OfficialInit ==
  /\ state = [s \in Sides |-> "Disconnected"]
  /\ event_tx = [s \in Sides |-> FALSE]
  /\ preferred_mode = [s \in Sides |-> None]
  /\ self_id = [s \in Sides |-> FALSE]

\* The modes of an adapter in their order.
OrderedModes(s) ==
  IF s \in Templated THEN <<"Template", "ApiPrefixed", "DirectAction", "LegacyBody">>
  ELSE <<"ApiPrefixed", "DirectAction", "LegacyBody">>

\* The modes a request is tried in: the preferred one, then the others.  Only a
\* mode that was tried is ever preferred, so it is one of them.
CandidateModes(s) ==
  LET modes == OrderedModes(s)
      first == preferred_mode[s]
  IN  IF first = None THEN modes
      ELSE [i \in DOMAIN modes |-> IF i = 1 THEN first
                                  ELSE IF \E k \in i..Len(modes) : modes[k] = first
                                       THEN modes[i - 1] ELSE modes[i]]

\* connect, before its probe and after it: nothing is checked after the await.
ConnectBegin(s) ==
  /\ state' = [state EXCEPT ![s] = "Connecting"]
  /\ event_tx' = [event_tx EXCEPT ![s] = TRUE]
  /\ UNCHANGED <<preferred_mode, self_id>>

ConnectEnd(s) ==
  /\ state' = [state EXCEPT ![s] = "Connected"]
  /\ UNCHANGED <<event_tx, preferred_mode, self_id>>

\* Mutant: the state is left alone.
Disconnect_NoState(s) ==
  /\ event_tx' = [event_tx EXCEPT ![s] = FALSE]
  /\ UNCHANGED <<state, preferred_mode, self_id>>

Disconnect(s) ==
  /\ state' = [state EXCEPT ![s] = "Disconnected"]
  /\ event_tx' = [event_tx EXCEPT ![s] = FALSE]
  /\ UNCHANGED <<preferred_mode, self_id>>

\* A mode was answered; an answer to get_login_info may carry the id.
ModeSelected(s, m, learned) ==
  /\ preferred_mode' = [preferred_mode EXCEPT ![s] = m]
  /\ self_id' = [self_id EXCEPT ![s] = @ \/ learned]
  /\ UNCHANGED <<state, event_tx>>

=============================================================================
