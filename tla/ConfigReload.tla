----------------------------- MODULE ConfigReload -----------------------------
(***************************************************************************)
(* The settings that change while the gateway runs: the access token       *)
(* (gateway/shared_config.rs), the token bucket that limits the rate       *)
(* of requests (middleware.rs) and POST /api/reload, which reads the       *)
(* configuration file again and stores them one after the other            *)
(* (management.rs), after validation (core/validation.rs).                 *)
(*                                                                         *)
(* Handlers and the refill task run on different threads: a step is one    *)
(* access to what they share.  The operator edits the file at any time.    *)
(***************************************************************************)
EXTENDS Naturals, Sequences, FiniteSets

CONSTANTS
  Files,    \* contents the configuration file may have
  Reloads,  \* reload requests under way at a time
  NoToken,  \* the empty access token
  None

ASSUME ConfigAssumption ==
  \A f \in Files : {f.port, f.rps, f.burst} \subseteq Nat

VARIABLES
  file,    \* the configuration file
  token,   \* SharedConfig.access_token
  rps, burst, tokens,  \* RateLimiter
  refill,  \* the refill task: [pc, r, b]
  reload,  \* per request [pc, config]
  group,   \* history: files stored by reloads that overlap, down to the last alone
  admitted, filled, settled
           \* history: requests let through since the last refill, the burst it
           \* had read, and whether burst is unchanged since it was read

limiter == <<rps, burst, tokens>>
since   == <<admitted, filled, settled>>
vars    == <<file, token, limiter, refill, reload, group, since>>

-----------------------------------------------------------------------------
(* Validation: the errors among the issues; warnings change nothing. *)

ServerValid(c) == c.port > 0 /\ c.host # ""

\* A url must have the scheme of a WebSocket or of HTTP.
BackendValid(url) == url \in {"ws", "http"}

AccountsValid(c) ==
  \A i \in DOMAIN c.accounts :
    /\ c.accounts[i].name # ""
    /\ \A j \in 1..i - 1 : c.accounts[j].name # c.accounts[i].name
    /\ BackendValid(c.accounts[i].url)
    /\ \A url \in c.accounts[i].fallback : BackendValid(url)

\* Targets of the OneBot v11 server, when it is enabled, need a url.
ProtocolsValid(c) == \A url \in c.targets : url # ""

Valid(c) == c.parses /\ ServerValid(c) /\ AccountsValid(c) /\ ProtocolsValid(c)

-----------------------------------------------------------------------------

Idle == [pc |-> "idle", config |-> None]
Waiting == [pc |-> "tick", r |-> 0, b |-> 0]

\* Requests that have read the file and have not stored all of it.
Applying == {q \in Reloads : reload[q].pc \in {"compare", "token", "rps", "burst"}}

\* The gateway starts with a valid file.
Init ==
  /\ file \in {f \in Files : Valid(f)}
  /\ token = file.token
  /\ rps = file.rps /\ burst = file.burst /\ tokens = file.burst
  /\ refill = Waiting
  /\ reload = [q \in Reloads |-> Idle]
  /\ group = {file}
  /\ admitted = 0 /\ filled = file.burst /\ settled = TRUE

EditFile ==
  /\ \E f \in Files \ {file} : file' = f
  /\ UNCHANGED <<token, limiter, refill, reload, group, since>>

-----------------------------------------------------------------------------
(* The rate limiter *)

RefillTick ==
  /\ refill.pc = "tick"
  /\ refill' = [refill EXCEPT !.pc = "burst", !.r = rps]
  /\ UNCHANGED <<file, token, limiter, reload, group, since>>

RefillReadBurst ==
  /\ refill.pc = "burst"
  /\ refill' = [refill EXCEPT !.pc = "update", !.b = burst]
  /\ settled' = TRUE
  /\ UNCHANGED <<file, token, limiter, reload, group, admitted, filled>>

Lesser(m, n) == IF m < n THEN m ELSE n

\* Mutant: the bucket filled without regard to its size.
RefillUpdate_Uncapped ==
  /\ refill.pc = "update"
  /\ tokens' = Lesser(tokens + refill.r, 3)
  /\ refill' = Waiting
  /\ admitted' = 0 /\ filled' = refill.b
  /\ UNCHANGED <<file, token, rps, burst, reload, group, settled>>

\* Mutant: an empty bucket is not refilled.
RefillUpdate_NonEmpty ==
  /\ refill.pc = "update"
  /\ tokens' = IF tokens = 0 THEN 0 ELSE Lesser(tokens + refill.r, refill.b)
  /\ refill' = Waiting
  /\ admitted' = 0 /\ filled' = refill.b
  /\ UNCHANGED <<file, token, rps, burst, reload, group, settled>>

\* One atomic update of the bucket, with the parameters read before.
RefillUpdate ==
  /\ refill.pc = "update"
  /\ tokens' = Lesser(tokens + refill.r, refill.b)
  /\ refill' = Waiting
  /\ admitted' = 0 /\ filled' = refill.b
  /\ UNCHANGED <<file, token, rps, burst, reload, group, settled>>

TryAcquire ==
  /\ tokens > 0
  /\ tokens' = tokens - 1
  /\ admitted' = admitted + 1
  /\ UNCHANGED <<rps, burst, filled, settled>>

\* A request of any other kind; one that finds the bucket empty is answered
\* 429 and changes nothing.
OtherRequest ==
  /\ TryAcquire
  /\ UNCHANGED <<file, token, refill, reload, group>>

-----------------------------------------------------------------------------
(* POST /api/reload.  The rate limit is the outermost layer, the token is   *)
(* checked next.                                                            *)

ReloadAdmitted(q) ==
  /\ reload[q].pc = "idle"
  /\ TryAcquire
  /\ reload' = [reload EXCEPT ![q].pc = "auth"]
  /\ UNCHANGED <<file, token, refill, group>>

\* The client's token is the one in force, or none is asked for.
Authorised(q) ==
  /\ reload[q].pc = "auth"
  /\ reload' = [reload EXCEPT ![q].pc = "read"]
  /\ UNCHANGED <<file, token, limiter, refill, group, since>>

\* It is another one: 401.
Unauthorised(q) ==
  /\ reload[q].pc = "auth" /\ token # NoToken
  /\ reload' = [reload EXCEPT ![q] = Idle]
  /\ UNCHANGED <<file, token, limiter, refill, group, since>>

ReadFile(q) ==
  /\ reload[q].pc = "read"
  /\ IF Valid(file)
     THEN /\ reload' = [reload EXCEPT ![q] = [pc |-> "compare", config |-> file]]
          /\ group' = IF Applying = {} THEN {file} ELSE group \cup {file}
     ELSE /\ reload' = [reload EXCEPT ![q] = Idle]
          /\ UNCHANGED group
  /\ UNCHANGED <<file, token, limiter, refill, since>>

\* The token in force is read and compared before it is replaced.
CompareToken(q) ==
  /\ reload[q].pc = "compare"
  /\ reload' = [reload EXCEPT ![q].pc = IF reload[q].config.token # token THEN "token" ELSE "rps"]
  /\ UNCHANGED <<file, token, limiter, refill, group, since>>

\* Mutant: the token is taken from the file as it is by now.
SetToken_Reread(q) ==
  /\ reload[q].pc = "token"
  /\ token' = file.token
  /\ reload' = [reload EXCEPT ![q].pc = "rps"]
  /\ UNCHANGED <<file, limiter, refill, group, since>>

SetToken(q) ==
  /\ reload[q].pc = "token"
  /\ token' = reload[q].config.token
  /\ reload' = [reload EXCEPT ![q].pc = "rps"]
  /\ UNCHANGED <<file, limiter, refill, group, since>>

SetRps(q) ==
  /\ reload[q].pc = "rps"
  /\ rps' = reload[q].config.rps
  /\ reload' = [reload EXCEPT ![q].pc = "burst"]
  /\ UNCHANGED <<file, token, burst, tokens, refill, group, since>>

SetBurst(q) ==
  /\ reload[q].pc = "burst"
  /\ burst' = reload[q].config.burst
  /\ settled' = (settled /\ burst' = burst)
  /\ reload' = [reload EXCEPT ![q] = Idle]
  /\ UNCHANGED <<file, token, rps, tokens, refill, group, admitted, filled>>

ReloadStep(q) ==
  \/ Authorised(q) \/ Unauthorised(q) \/ ReadFile(q)
  \/ CompareToken(q) \/ SetToken(q) \/ SetRps(q) \/ SetBurst(q)

Refill == RefillTick \/ RefillReadBurst \/ RefillUpdate

Next ==
  \/ EditFile \/ Refill \/ OtherRequest
  \/ \E q \in Reloads : ReloadAdmitted(q) \/ ReloadStep(q)

Spec == Init /\ [][Next]_vars

\* The interval of the refill task ticks for ever.
FairSpec == Spec /\ WF_vars(Refill)

-----------------------------------------------------------------------------
(* Properties *)

\* The state keeps its types, and what a reload applies has been validated
\* (management.rs:207-226).
TypeOK ==
  /\ file \in Files
  /\ {rps, burst, tokens, admitted, filled} \subseteq Nat
  /\ settled \in BOOLEAN
  /\ \A q \in Applying : reload[q].config \in Files /\ Valid(reload[q].config)

\* When no reload is under way each setting is that of a file a reload has
\* applied, and all come from one file unless reloads overlapped: what is
\* stored is neither a file that was refused nor half of one.  Overlapping
\* reloads may leave the token of one file, the rate of another, and an older
\* file's settings over a newer one's (management.rs:175-271).
SettingsExplained ==
  /\ TypeOK
  /\ Applying = {} =>
       /\ token \in {c.token : c \in group}
       /\ rps \in {c.rps : c \in group}
       /\ burst \in {c.burst : c \in group}

\* Between two refills no more requests get through than the burst the last
\* refill had read, and that is the burst in force unless it changed since:
\* a lowered burst holds from the next refill that reads it
\* (middleware.rs:138-173).
RateBounded ==
  /\ admitted + tokens <= filled
  /\ settled /\ refill.pc # "update" => filled = burst

\* While rate and burst stay positive the bucket never stays empty for good:
\* a client that retries finds it filled again.  (A file with a rate or burst
\* of 0 is valid; once stored it locks out every request, reloads included.)
BucketRefills == <>[](rps > 0 /\ burst > 0) => []<>(tokens > 0)

=============================================================================
