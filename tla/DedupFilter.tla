------------------------------ MODULE DedupFilter ------------------------------
(***************************************************************************)
(* The deduplication filter, crates/ferroq-gateway/src/dedup.rs, called by *)
(* the forwarding tasks of all adapters at once.                           *)
(*                                                                         *)
(* is_duplicate reads the clock before it takes the lock of the map, so a  *)
(* task may decide with a reading older than readings other tasks have     *)
(* already used.  MaxDelay bounds that age.                                *)
(*                                                                         *)
(* An event keeps the fields a fingerprint reads; hashes are taken to be   *)
(* free of collisions.  The two counters of the filter are left out.       *)
(***************************************************************************)
EXTENDS Naturals

CONSTANTS
  Tasks,        \* forwarding tasks
  Events,       \* [kind, self_id, id, sub_type, time, extra]
  Window,       \* window_secs
  MinInterval,  \* least time between two sweeps: 10 seconds in the code
  MaxDelay,     \* longest time between a task's clock reading and its lock
  MaxClock,     \* bound of the clock
  Nothing       \* Option::None

ASSUME DedupAssumption ==
  /\ {Window, MinInterval, MaxDelay, MaxClock} \subseteq Nat
  /\ Nothing \notin Nat

VARIABLES
  clock,
  seen,           \* fingerprint to arrival of the event recorded
  last_eviction,  \* clock reading of the last sweep
  task,           \* the event a task is checking and its clock reading
  \* history
  accepted,       \* arrival of the event accepted last, for each fingerprint
  decision        \* the last verdict

filterVars == <<clock, seen, last_eviction, task, accepted, decision>>

-----------------------------------------------------------------------------
(* Fingerprints *)

\* id is the message_id of a message and the type of any other event.
Fingerprint(e) ==
  IF e.kind = "message" THEN <<e.self_id, e.id>>
  ELSE <<e.self_id, e.id, e.sub_type, e.time, e.extra>>

Fingerprints == {Fingerprint(e) : e \in Events}

FilterTypeOK ==
  /\ clock \in 0..MaxClock
  /\ seen \in [Fingerprints -> 0..clock \cup {Nothing}]
  /\ last_eviction \in 0..clock
  /\ task \in [Tasks -> [event : Events, now : 0..clock] \cup {Nothing}]
  /\ accepted \in [Fingerprints -> 0..clock \cup {Nothing}]
  /\ decision \in [fingerprint : Fingerprints, at : 0..clock, verdict : {"accept", "drop"}]
                    \cup {Nothing}

FilterInit ==
  /\ clock = 0
  /\ seen = [f \in Fingerprints |-> Nothing]
  /\ last_eviction = 0
  /\ task = [t \in Tasks |-> Nothing]
  /\ accepted = [f \in Fingerprints |-> Nothing]
  /\ decision = Nothing

-----------------------------------------------------------------------------
\* Time passes, never past the delay of a task that waits for the lock.
Tick ==
  /\ clock < MaxClock
  /\ \A t \in Tasks : task[t] # Nothing => clock < task[t].now + MaxDelay
  /\ clock' = clock + 1
  /\ UNCHANGED <<seen, last_eviction, task, accepted, decision>>

\* A forwarding task receives an event and reads the clock.
Arrive(t, e) ==
  /\ task[t] = Nothing
  /\ task' = [task EXCEPT ![t] = [event |-> e, now |-> clock]]
  /\ UNCHANGED <<clock, seen, last_eviction, accepted, decision>>

\* Instant::duration_since saturates at zero.
Elapsed(now, earlier) == IF now < earlier THEN 0 ELSE now - earlier

\* Mutant: the end of the window belongs to it.
Recent_Inclusive(now, at) == Elapsed(now, at) <= Window

\* Is an arrival still within the window?
Recent(now, at) == Elapsed(now, at) < Window

EvictionInterval == IF Window > MinInterval THEN Window ELSE MinInterval

\* Mutant: the sweep keeps expired entries.
Retained_All(map, now) == map

\* What a sweep keeps.
Retained(map, now) ==
  [f \in Fingerprints |-> IF map[f] # Nothing /\ Recent(now, map[f]) THEN map[f] ELSE Nothing]

\* Mutant: the end of the window is recorded instead of the arrival.
Recorded_Expiry(f, now) == [seen EXCEPT ![f] = now + Window]

Recorded(f, now) == [seen EXCEPT ![f] = now]

\* The event is a duplicate and nothing else changes.
DropEvent(t) ==
  LET f == Fingerprint(task[t].event)
      now == task[t].now
  IN  /\ task[t] # Nothing
      /\ seen[f] # Nothing
      /\ Recent(now, seen[f])
      /\ task' = [task EXCEPT ![t] = Nothing]
      /\ decision' = [fingerprint |-> f, at |-> now, verdict |-> "drop"]
      /\ UNCHANGED <<clock, seen, last_eviction, accepted>>

\* The event is new or its last occurrence has expired: it is recorded, and
\* a sweep follows when one is due.
AcceptEvent(t) ==
  LET f == Fingerprint(task[t].event)
      now == task[t].now
  IN  /\ task[t] # Nothing
      /\ seen[f] # Nothing => ~Recent(now, seen[f])
      /\ IF Elapsed(now, last_eviction) < EvictionInterval
           THEN seen' = Recorded(f, now) /\ UNCHANGED last_eviction
           ELSE seen' = Retained(Recorded(f, now), now) /\ last_eviction' = now
      /\ task' = [task EXCEPT ![t] = Nothing]
      /\ accepted' = [accepted EXCEPT ![f] = now]
      /\ decision' = [fingerprint |-> f, at |-> now, verdict |-> "accept"]
      /\ UNCHANGED clock

FilterNext ==
  \/ Tick
  \/ \E t \in Tasks : DropEvent(t) \/ AcceptEvent(t)
  \/ \E t \in Tasks, e \in Events : Arrive(t, e)

FilterSpec == FilterInit /\ [][FilterNext]_filterVars

-----------------------------------------------------------------------------
(* Properties *)

Promise == INSTANCE OncePerWindow WITH Slack <- MaxDelay, Times <- 0..MaxClock, None <- Nothing

\* The lazily swept map decides as if it had never forgotten anything: an
\* event is dropped only within the window of one that was accepted, and
\* accepted within it only in its last MaxDelay, by a task that was overtaken
\* by a sweep.  With prompt tasks, MaxDelay = 0, the promise is exact.
ImplementsOncePerWindow == Promise!Spec

\* A sweep leaves nothing behind that had expired when it was made, however
\* rarely events trigger one.
SweepIsComplete ==
  \A f \in Fingerprints : seen[f] # Nothing =>
    \/ seen[f] + Window > last_eviction
    \/ seen[f] + MaxDelay >= last_eviction

=============================================================================
