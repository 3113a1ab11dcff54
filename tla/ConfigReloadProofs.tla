-------------------------- MODULE ConfigReloadProofs --------------------------
(***************************************************************************)
(* Proofs about ConfigReload, for any configuration files and any number   *)
(* of overlapping reloads: settings come from validated files, and the     *)
(* rate of requests stays bounded whatever is stored meanwhile.            *)
(***************************************************************************)
EXTENDS ConfigReload, TLAPS

Phases == {"idle", "auth", "read", "compare", "token", "rps", "burst"}

\* The types of the tasks.
TasksOK ==
  /\ reload \in [Reloads -> [pc : Phases, config : Files \cup {None}]]
  /\ refill \in [pc : {"tick", "burst", "update"}, r : Nat, b : Nat]

\* A reload that has not stored a setting yet.
BeforeToken == \E q \in Applying : reload[q].pc \in {"compare", "token"}
BeforeRps   == \E q \in Applying : reload[q].pc \in {"compare", "token", "rps"}

\* Reloads apply files of the group, and a setting that is of none of them is
\* about to be replaced by a reload under way.
GroupInv ==
  /\ group \subseteq Files
  /\ \A q \in Applying : reload[q].config \in group
  /\ BeforeToken \/ token \in {c.token : c \in group}
  /\ BeforeRps \/ rps \in {c.rps : c \in group}
  /\ Applying # {} \/ burst \in {c.burst : c \in group}

\* The parameter the refill task has read is the one in force unless it
\* changed since.
RefillInv ==
  /\ RateBounded
  /\ settled /\ refill.pc = "update" => refill.b = burst

IInv == TypeOK /\ TasksOK /\ GroupInv /\ RefillInv

-----------------------------------------------------------------------------

LEMMA InitIInv == Init => IInv
<1> SUFFICES ASSUME Init PROVE IInv
  OBVIOUS
<1>1. file \in Files /\ {file.rps, file.burst} \subseteq Nat
  BY ConfigAssumption DEF Init
<1>2. Applying = {}
  BY DEF Init, Applying, Idle
<1>3. TypeOK /\ TasksOK
  BY <1>1, <1>2 DEF Init, TypeOK, TasksOK, Phases, Idle, Waiting
<1>4. GroupInv
  BY <1>1, <1>2 DEF Init, GroupInv
<1>5. RefillInv
  BY <1>1 DEF Init, RefillInv, RateBounded, Waiting
<1> QED
  BY <1>3, <1>4, <1>5 DEF IInv

\* What the operator does to the file concerns nobody who has read it.
LEMMA EditStep ==
  ASSUME IInv, EditFile
  PROVE  IInv'
<1>1. file' \in Files /\ UNCHANGED <<token, limiter, refill, reload, group, since>>
  BY DEF EditFile
<1> QED
  BY <1>1 DEF IInv, TypeOK, TasksOK, GroupInv, RefillInv, RateBounded, Applying, BeforeToken,
              BeforeRps, limiter, since

\* The limiter's own steps leave reloads and settings alone.
LEMMA RefillStep ==
  ASSUME IInv, Refill
  PROVE  IInv'
<1>1. UNCHANGED <<file, token, rps, burst, reload, group>>
  BY DEF Refill, RefillTick, RefillReadBurst, RefillUpdate, limiter
<1>2. {rps, burst, tokens, admitted, filled} \subseteq Nat /\ TasksOK /\ RefillInv
  BY DEF IInv, TypeOK
<1>3. GroupInv'
  BY <1>1 DEF IInv, GroupInv, Applying, BeforeToken, BeforeRps
<1>4. CASE RefillTick
  <2>1. refill' = [refill EXCEPT !.pc = "burst", !.r = rps] /\ refill.pc = "tick"
    BY <1>4 DEF RefillTick
  <2>2. refill' \in [pc : {"tick", "burst", "update"}, r : Nat, b : Nat] /\ refill'.pc = "burst"
    BY <1>2, <2>1 DEF TasksOK
  <2>3. RefillInv'
    BY <1>2, <1>4, <2>1, <2>2 DEF RefillTick, RefillInv, RateBounded, limiter, since
  <2> QED
    BY <1>1, <1>2, <1>3, <1>4, <2>2, <2>3
    DEF IInv, TypeOK, TasksOK, RefillTick, limiter, since, Applying
<1>5. CASE RefillReadBurst
  <2>1. /\ refill' = [refill EXCEPT !.pc = "update", !.b = burst] /\ refill.pc = "burst"
        /\ settled' = TRUE /\ UNCHANGED <<tokens, burst, admitted, filled>>
    BY <1>5 DEF RefillReadBurst, limiter
  <2>2. /\ refill' \in [pc : {"tick", "burst", "update"}, r : Nat, b : Nat]
        /\ refill'.pc = "update" /\ refill'.b = burst
    BY <1>2, <2>1 DEF TasksOK
  <2>3. RefillInv'
    BY <1>2, <2>1, <2>2 DEF RefillInv, RateBounded
  <2> QED
    BY <1>1, <1>2, <1>3, <2>1, <2>2, <2>3 DEF IInv, TypeOK, TasksOK, Applying
<1>6. CASE RefillUpdate
  <2>1. /\ refill.pc = "update" /\ refill' = Waiting /\ UNCHANGED <<burst, settled>>
        /\ tokens' = Lesser(tokens + refill.r, refill.b)
        /\ admitted' = 0 /\ filled' = refill.b
    BY <1>6 DEF RefillUpdate
  <2>2. refill.r \in Nat /\ refill.b \in Nat
    BY <1>2 DEF TasksOK
  <2>3. tokens' \in Nat /\ tokens' <= refill.b
    BY <1>2, <2>1, <2>2 DEF Lesser
  <2>4. RefillInv'
    BY <1>2, <2>1, <2>2, <2>3 DEF RefillInv, RateBounded, Waiting
  <2> QED
    BY <1>1, <1>2, <1>3, <2>1, <2>2, <2>3, <2>4 DEF IInv, TypeOK, TasksOK, Applying, Waiting
<1> QED
  BY <1>4, <1>5, <1>6 DEF Refill

\* A request takes a token from the bucket.
LEMMA AcquireStep ==
  ASSUME IInv, TryAcquire, UNCHANGED refill
  PROVE  {rps, burst, tokens, admitted, filled}' \subseteq Nat /\ settled' \in BOOLEAN /\ RefillInv'
BY DEF IInv, TypeOK, TryAcquire, RefillInv, RateBounded

LEMMA OtherStep ==
  ASSUME IInv, OtherRequest
  PROVE  IInv'
<1>1. TryAcquire /\ UNCHANGED <<file, token, rps, burst, refill, reload, group>>
  BY DEF OtherRequest, TryAcquire
<1>2. GroupInv'
  BY <1>1 DEF IInv, GroupInv, Applying, BeforeToken, BeforeRps
<1> QED
  BY <1>1, <1>2, AcquireStep DEF IInv, TypeOK, TasksOK, Applying

\* A request to reload that has not read the file yet, or will apply none,
\* disturbs no setting.
LEMMA OutsideStep ==
  ASSUME IInv, NEW q \in Reloads, NEW r \in [pc : {"idle", "auth", "read"}, config : Files \cup {None}],
         reload[q].pc \notin {"compare", "token", "rps", "burst"},
         reload' = [reload EXCEPT ![q] = r], UNCHANGED <<token, rps, burst, group, refill>>
  PROVE  /\ TasksOK' /\ GroupInv'
         /\ \A p \in Applying' : p \in Applying /\ reload'[p] = reload[p]
<1>1. Applying' = Applying /\ \A p \in Applying : reload'[p] = reload[p]
  BY DEF Applying, IInv, TasksOK
<1>2. BeforeToken => BeforeToken'
  BY <1>1 DEF BeforeToken
<1>3. BeforeRps => BeforeRps'
  BY <1>1 DEF BeforeRps
<1>4. GroupInv'
  BY <1>1, <1>2, <1>3 DEF IInv, GroupInv
<1>5. TasksOK'
  BY DEF IInv, TasksOK, Phases
<1> QED
  BY <1>1, <1>4, <1>5

LEMMA AdmittedStep ==
  ASSUME IInv, NEW q \in Reloads, ReloadAdmitted(q)
  PROVE  IInv'
<1> DEFINE r == [reload[q] EXCEPT !.pc = "auth"]
<1>1. /\ reload[q].pc = "idle" /\ reload' = [reload EXCEPT ![q] = r]
      /\ TryAcquire /\ UNCHANGED <<file, token, rps, burst, refill, group>>
  BY DEF ReloadAdmitted, TryAcquire
<1>2. r \in [pc : {"idle", "auth", "read"}, config : Files \cup {None}]
  BY DEF IInv, TasksOK
<1> HIDE DEF r
<1>3. TasksOK' /\ GroupInv' /\ \A p \in Applying' : p \in Applying /\ reload'[p] = reload[p]
  BY <1>1, <1>2, OutsideStep
<1> QED
  BY <1>1, <1>3, AcquireStep DEF IInv, TypeOK

\* The steps of a reload up to its reading of the file.
LEMMA AuthStep ==
  ASSUME IInv, NEW q \in Reloads, Authorised(q) \/ Unauthorised(q)
  PROVE  IInv'
<1> DEFINE r == IF Authorised(q) THEN [reload[q] EXCEPT !.pc = "read"] ELSE Idle
<1>1. /\ reload[q].pc = "auth" /\ reload' = [reload EXCEPT ![q] = r]
      /\ UNCHANGED <<file, token, limiter, refill, group, since>>
  BY DEF Authorised, Unauthorised
<1>2. r \in [pc : {"idle", "auth", "read"}, config : Files \cup {None}]
  BY DEF IInv, TasksOK, Idle
<1> HIDE DEF r
<1>3. TasksOK' /\ GroupInv' /\ \A p \in Applying' : p \in Applying /\ reload'[p] = reload[p]
  BY <1>1, <1>2, OutsideStep DEF limiter
<1> QED
  BY <1>1, <1>3 DEF IInv, TypeOK, RefillInv, RateBounded, limiter, since

\* Reading a valid file: a first reload starts the group anew, and has yet to
\* store everything.
LEMMA ReadStep ==
  ASSUME IInv, NEW q \in Reloads, ReadFile(q)
  PROVE  IInv'
<1>1. reload[q].pc = "read" /\ UNCHANGED <<file, token, limiter, refill, since>>
  BY DEF ReadFile
<1>2. CASE Valid(file)
  <2>1. /\ reload' = [reload EXCEPT ![q] = [pc |-> "compare", config |-> file]]
        /\ group' = IF Applying = {} THEN {file} ELSE group \cup {file}
    BY <1>2 DEF ReadFile
  <2>2. file \in Files /\ q \notin Applying
    BY <1>1 DEF IInv, TypeOK, Applying
  <2>3. /\ reload'[q].pc = "compare" /\ reload'[q].config = file
        /\ \A p \in Reloads \ {q} : reload'[p] = reload[p]
    BY <2>1 DEF IInv, TasksOK
  <2>4. q \in Applying' /\ Applying' = Applying \cup {q}
    BY <2>3 DEF Applying
  <2>5. BeforeToken' /\ BeforeRps'
    BY <2>3, <2>4 DEF BeforeToken, BeforeRps
  <2>6. GroupInv'
    BY <2>1, <2>2, <2>3, <2>4, <2>5 DEF IInv, GroupInv, Applying
  <2>7. TasksOK'
    BY <1>1, <2>1, <2>2 DEF IInv, TasksOK, Phases
  <2>8. TypeOK'
    BY <1>1, <1>2, <2>2, <2>3, <2>4 DEF IInv, TypeOK, limiter, since, Applying
  <2> QED
    BY <1>1, <2>6, <2>7, <2>8 DEF IInv, RefillInv, RateBounded, limiter, since
<1>3. CASE ~Valid(file)
  <2>1. reload' = [reload EXCEPT ![q] = Idle] /\ UNCHANGED group
    BY <1>3 DEF ReadFile
  <2>2. Idle \in [pc : {"idle", "auth", "read"}, config : Files \cup {None}]
    BY DEF Idle
  <2>3. TasksOK' /\ GroupInv' /\ \A p \in Applying' : p \in Applying /\ reload'[p] = reload[p]
    BY <1>1, <2>1, <2>2, OutsideStep DEF limiter
  <2> QED
    BY <1>1, <2>3 DEF IInv, TypeOK, RefillInv, RateBounded, limiter, since
<1> QED
  BY <1>2, <1>3

\* Storing one setting after the other.  Whoever is past it has made the
\* setting one of the group.
LEMMA StoreStep ==
  ASSUME IInv, NEW q \in Reloads, CompareToken(q) \/ SetToken(q) \/ SetRps(q) \/ SetBurst(q)
  PROVE  IInv'
<1> DEFINE c == reload[q].config
<1>1. q \in Applying /\ c \in group /\ c \in Files
  BY DEF IInv, GroupInv, TypeOK, Applying, CompareToken, SetToken, SetRps, SetBurst
<1>2. c.token \in {d.token : d \in group} /\ c.rps \in {d.rps : d \in group}
        /\ c.burst \in {d.burst : d \in group} /\ {c.rps, c.burst} \subseteq Nat
  BY <1>1, ConfigAssumption
<1>3. UNCHANGED <<file, refill, group, tokens, admitted, filled>>
  BY DEF CompareToken, SetToken, SetRps, SetBurst, limiter, since
<1>4. \A p \in Reloads \ {q} : reload'[p] = reload[p]
  BY DEF IInv, TasksOK, CompareToken, SetToken, SetRps, SetBurst
<1>5. SUFFICES TypeOK' /\ TasksOK' /\ GroupInv' /\ RefillInv'
  BY DEF IInv
<1>6. CASE CompareToken(q)
  <2>1. /\ reload[q].pc = "compare" /\ UNCHANGED <<token, rps, burst, settled>>
        /\ reload' = [reload EXCEPT ![q].pc = IF c.token # token THEN "token" ELSE "rps"]
    BY <1>6 DEF CompareToken, limiter, since
  <2>2. /\ reload'[q].pc = IF c.token # token THEN "token" ELSE "rps"
        /\ reload'[q].config = c
    BY <2>1 DEF IInv, TasksOK
  <2>3. Applying' = Applying
    BY <1>1, <1>4, <2>2 DEF Applying
  <2>4. BeforeToken' \/ token' \in {d.token : d \in group'}
    BY <1>1, <1>2, <1>3, <2>1, <2>2, <2>3 DEF BeforeToken
  <2>5. BeforeRps'
    BY <1>1, <2>2, <2>3 DEF BeforeRps
  <2>6. GroupInv'
    BY <1>1, <1>3, <1>4, <2>1, <2>2, <2>3, <2>4, <2>5 DEF IInv, GroupInv, Applying
  <2>7. TasksOK'
    BY <1>3, <2>1 DEF IInv, TasksOK, Phases
  <2>8. TypeOK'
    BY <1>1, <1>3, <1>4, <2>1, <2>2, <2>3 DEF IInv, TypeOK, Applying
  <2> QED
    BY <1>3, <2>1, <2>6, <2>7, <2>8 DEF IInv, RefillInv, RateBounded
<1>7. CASE SetToken(q)
  <2>1. /\ reload[q].pc = "token" /\ UNCHANGED <<rps, burst, settled>> /\ token' = c.token
        /\ reload' = [reload EXCEPT ![q].pc = "rps"]
    BY <1>7 DEF SetToken, limiter, since
  <2>2. reload'[q].pc = "rps" /\ reload'[q].config = c
    BY <2>1 DEF IInv, TasksOK
  <2>3. Applying' = Applying
    BY <1>1, <1>4, <2>2 DEF Applying
  <2>4. BeforeRps'
    BY <1>1, <2>2, <2>3 DEF BeforeRps
  <2>5. GroupInv'
    BY <1>1, <1>2, <1>3, <1>4, <2>1, <2>2, <2>3, <2>4 DEF IInv, GroupInv, Applying
  <2>6. TasksOK'
    BY <1>3, <2>1 DEF IInv, TasksOK, Phases
  <2>7. TypeOK'
    BY <1>1, <1>3, <1>4, <2>1, <2>2, <2>3 DEF IInv, TypeOK, Applying
  <2> QED
    BY <1>3, <2>1, <2>5, <2>6, <2>7 DEF IInv, RefillInv, RateBounded
<1>8. CASE SetRps(q)
  <2>1. /\ reload[q].pc = "rps" /\ UNCHANGED <<token, burst, settled>> /\ rps' = c.rps
        /\ reload' = [reload EXCEPT ![q].pc = "burst"]
    BY <1>8 DEF SetRps, since
  <2>2. reload'[q].pc = "burst" /\ reload'[q].config = c
    BY <2>1 DEF IInv, TasksOK
  <2>3. Applying' = Applying
    BY <1>1, <1>4, <2>2 DEF Applying
  <2>4. BeforeToken => BeforeToken'
    BY <1>4, <2>1, <2>3 DEF BeforeToken, Applying
  <2>5. GroupInv'
    BY <1>1, <1>2, <1>3, <1>4, <2>1, <2>2, <2>3, <2>4 DEF IInv, GroupInv, Applying
  <2>6. TasksOK'
    BY <1>3, <2>1 DEF IInv, TasksOK, Phases
  <2>7. TypeOK'
    BY <1>1, <1>2, <1>3, <1>4, <2>1, <2>2, <2>3 DEF IInv, TypeOK, Applying
  <2> QED
    BY <1>3, <2>1, <2>5, <2>6, <2>7 DEF IInv, RefillInv, RateBounded
<1>9. CASE SetBurst(q)
  <2>1. /\ reload[q].pc = "burst" /\ UNCHANGED <<token, rps>> /\ burst' = c.burst
        /\ settled' = (settled /\ burst' = burst)
        /\ reload' = [reload EXCEPT ![q] = Idle]
    BY <1>9 DEF SetBurst
  <2>2. reload'[q].pc = "idle"
    BY <2>1 DEF IInv, TasksOK, Idle
  <2>3. Applying' = Applying \ {q}
    BY <1>4, <2>2 DEF Applying
  <2>4. (BeforeToken => BeforeToken') /\ (BeforeRps => BeforeRps')
    BY <1>4, <2>1, <2>3 DEF BeforeToken, BeforeRps, Applying
  <2>5. GroupInv'
    BY <1>1, <1>2, <1>3, <1>4, <2>1, <2>3, <2>4 DEF IInv, GroupInv, Applying
  <2>6. TasksOK'
    BY <1>3, <2>1 DEF IInv, TasksOK, Phases, Idle
  <2>7. TypeOK'
    BY <1>1, <1>2, <1>3, <1>4, <2>1, <2>3 DEF IInv, TypeOK, Applying
  <2> QED
    BY <1>3, <2>1, <2>5, <2>6, <2>7 DEF IInv, RefillInv, RateBounded
<1> QED
  BY <1>6, <1>7, <1>8, <1>9

LEMMA NextIInv == IInv /\ [Next]_vars => IInv'
<1> SUFFICES ASSUME IInv, [Next]_vars PROVE IInv'
  OBVIOUS
<1>1. CASE UNCHANGED vars
  BY <1>1 DEF IInv, TypeOK, TasksOK, GroupInv, RefillInv, RateBounded, Applying, BeforeToken,
              BeforeRps, vars, limiter, since
<1>2. ASSUME NEW q \in Reloads, ReloadStep(q) PROVE IInv'
  BY <1>2, AuthStep, ReadStep, StoreStep DEF ReloadStep
<1> QED
  BY <1>1, <1>2, EditStep, RefillStep, OtherStep, AdmittedStep DEF Next

-----------------------------------------------------------------------------

LEMMA Invariance == Spec => []IInv
<1> QED
  BY InitIInv, NextIInv, PTL DEF Spec

\* Whatever reloads overlap and however the operator edits the file meanwhile,
\* what is stored when none is under way comes from files a reload validated,
\* and from a single one unless reloads overlapped (management.rs:175-271).
THEOREM SettingsCorrect == Spec => []SettingsExplained
<1>1. IInv => SettingsExplained
  BY DEF IInv, SettingsExplained, GroupInv, BeforeToken, BeforeRps
<1> QED
  BY <1>1, Invariance, PTL

\* For all rates and bursts, stored in any order between the reads of the
\* refill task, no more requests get through between two refills than the
\* burst the last refill had read (middleware.rs:138-173).
THEOREM RateCorrect == Spec => []RateBounded
<1>1. IInv => RateBounded
  BY DEF IInv, RefillInv
<1> QED
  BY <1>1, Invariance, PTL

=============================================================================
