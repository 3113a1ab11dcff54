---------------------------- MODULE EventPipeline ----------------------------
(***************************************************************************)
(* The way of an event from the adapters' channels to what keeps and       *)
(* reports it: forwarding with deduplication (gateway/forward.rs), the     *)
(* event bus (bus.rs), the persistence task (runtime.rs) over the message  *)
(* store (storage.rs), the HTTP POST task of the OneBot v11 server and the *)
(* counters of stats.rs.                                                   *)
(*                                                                         *)
(* The bus is the sequence of all events published while somebody was      *)
(* subscribed; a receiver is the index it reads next, and finds that the   *)
(* bus has overwritten what is more than BusCapacity behind.               *)
(***************************************************************************)
EXTENDS Naturals, Sequences, FiniteSets, SequencesExt, Functions

CONSTANTS
  Adapters,
  Events,
  Messages,     \* those that are messages
  Sends,        \* the events each adapter's backend sends, in order
  TimeOf,       \* the time an event carries, in parts of a day
  BusCapacity,
  PartsPerDay,
  MaxDays,      \* storage.max_days
  Now           \* the times of the run

ASSUME PipelineAssumption ==
  /\ Messages \subseteq Events
  /\ Sends \in [Adapters -> Seq(Events)]
  /\ TimeOf \in [Events -> Nat] /\ Now \subseteq Nat
  /\ {BusCapacity, PartsPerDay} \subseteq Nat \ {0} /\ MaxDays \in Nat

VARIABLES
  forwarded,            \* per adapter: the events taken from its channel
  seen, forgotten,      \* keys in the deduplication filter; history: keys that left it
  published, unheard,   \* the bus; history: the number of events nobody was subscribed for
  persist,              \* the persistence task: [pc, first, next]
  job,                  \* its insert on a blocking thread: [state, index]
  rows,                 \* the messages table: [id, event]; id is the index on the bus
  kept,                 \* history: the ids inserted, in order
  failed, lagged,       \* history: indices whose insert failed, that were overwritten
  post,                 \* the HTTP POST task: [pc, next], and what it has posted
  posted,
  events_total, events_deduplicated, messages_stored,
  now,
  page,                 \* a client paging through the store: [pc, offset, owed, got]
  down                  \* how far the shutdown has come

filter   == <<seen, forgotten>>
bus      == <<published, unheard>>
store    == <<rows, kept, failed>>
counters == <<events_total, events_deduplicated>>
persists == <<persist, job, lagged, messages_stored>>
posts    == <<post, posted>>
vars == <<forwarded, filter, bus, store, counters, persists, posts, now, page, down>>

Indices == DOMAIN published
MaxEvents == FoldFunction(LAMBDA s, n : Len(s) + n, 0, Sends)
NoJob == [state |-> "none", index |-> 0]

Init ==
  /\ forwarded = [a \in Adapters |-> 0]
  /\ seen = {} /\ forgotten = {}
  /\ published = <<>> /\ unheard = 0
  /\ persist = [pc |-> "off", first |-> 1, next |-> 1]
  /\ job = NoJob
  /\ rows = {} /\ kept = <<>> /\ failed = {} /\ lagged = {}
  /\ post = [pc |-> "off", next |-> 1] /\ posted = <<>>
  /\ events_total = 0 /\ events_deduplicated = 0 /\ messages_stored = 0
  /\ now = 0
  /\ page = [pc |-> "off", offset |-> 0, owed |-> {}, got |-> {}]
  /\ down = "no"

Tick ==
  /\ now' \in {t \in Now : t > now}
  /\ UNCHANGED <<forwarded, filter, bus, store, counters, persists, posts, page, down>>

-----------------------------------------------------------------------------
(* Forwarding *)

\* The window of an event is over, or it is evicted; it matters for those
\* that are still to be sent by another adapter.
Forget(e) ==
  /\ \E a \in Adapters : \E i \in DOMAIN Sends[a] : i > forwarded[a] /\ Sends[a][i] = e
  /\ seen' = seen \ {e}
  /\ forgotten' = forgotten \cup (seen \cap {e})
  /\ UNCHANGED <<forwarded, bus, store, counters, persists, posts, now, page, down>>

Runs(task) == task.pc \notin {"off", "aborted"}

Publish(e) ==
  IF Runs(persist) \/ Runs(post) THEN published' = Append(published, e) /\ UNCHANGED unheard
                                     ELSE unheard' = unheard + 1 /\ UNCHANGED published

\* forward_events takes the next event from the channel, which has no bound
\* and keeps the order: what waits in it is as if it were not sent yet. It awaits nothing until it asks for
\* another: the check of the filter is atomic, and the counters and the bus
\* take the updates of two forwarders in any order.
Forward(a) ==
  /\ down \in {"no", "server"} /\ forwarded[a] < Len(Sends[a])
  /\ forwarded' = [forwarded EXCEPT ![a] = @ + 1]
  /\ LET e == Sends[a][forwarded[a] + 1]
     IN /\ TimeOf[e] <= now
        /\ IF e \in seen
           THEN /\ events_deduplicated' = events_deduplicated + 1
                /\ UNCHANGED <<seen, bus, events_total>>
           ELSE /\ seen' = seen \cup {e}
                /\ events_total' = events_total + 1
                /\ Publish(e)
                /\ UNCHANGED events_deduplicated
  /\ UNCHANGED <<forgotten, store, persists, posts, now, page, down>>

-----------------------------------------------------------------------------
(* Receivers *)

Oldest == IF Len(published) > BusCapacity THEN Len(published) - BusCapacity + 1 ELSE 1

\* The persistence task subscribes at the end of start, when the adapters
\* are already forwarding.
StartPersist ==
  /\ persist.pc = "off" /\ down = "no"
  /\ persist' = [pc |-> "receiving", first |-> Len(published) + 1, next |-> Len(published) + 1]
  /\ UNCHANGED <<forwarded, filter, bus, store, counters, job, lagged, messages_stored, posts, now,
                 page, down>>

\* Mutant: after a lag the task subscribes anew.
PersistLag_Resubscribes ==
  /\ persist.pc = "receiving" /\ persist.next < Oldest
  /\ lagged' = lagged \cup (persist.next..Oldest - 1)
  /\ persist' = [persist EXCEPT !.next = Len(published) + 1]
  /\ UNCHANGED <<forwarded, filter, bus, store, counters, job, messages_stored, posts, now, page, down>>

\* recv reports a lag and goes on with the oldest event left.
PersistLag ==
  /\ persist.pc = "receiving" /\ persist.next < Oldest
  /\ lagged' = lagged \cup (persist.next..Oldest - 1)
  /\ persist' = [persist EXCEPT !.next = Oldest]
  /\ UNCHANGED <<forwarded, filter, bus, store, counters, job, messages_stored, posts, now, page, down>>

Receives(r) == r.pc = "receiving" /\ r.next \in Oldest..Len(published)

PersistSkip ==
  /\ Receives(persist) /\ published[persist.next] \notin Messages
  /\ persist' = [persist EXCEPT !.next = @ + 1]
  /\ UNCHANGED <<forwarded, filter, bus, store, counters, job, lagged, messages_stored, posts, now,
                 page, down>>

\* insert copies the message to a blocking thread and waits for it.
PersistInsert ==
  /\ Receives(persist) /\ published[persist.next] \in Messages
  /\ job' = [state |-> "queued", index |-> persist.next]
  /\ persist' = [pc |-> "inserting", first |-> persist.first, next |-> persist.next + 1]
  /\ UNCHANGED <<forwarded, filter, bus, store, counters, lagged, messages_stored, posts, now, page,
                 down>>

\* The blocking thread, with the connection locked; it runs to its end even
\* when the task that waits for it is aborted.
JobInserts ==
  /\ job.state = "queued"
  /\ rows' = rows \cup {[id |-> job.index, event |-> published[job.index]]}
  /\ kept' = Append(kept, job.index)
  /\ job' = [job EXCEPT !.state = "ok"]
  /\ UNCHANGED <<forwarded, filter, bus, counters, failed, persist, lagged, messages_stored, posts,
                 now, page, down>>

JobFails ==
  /\ job.state = "queued"
  /\ failed' = failed \cup {job.index}
  /\ job' = [job EXCEPT !.state = "failed"]
  /\ UNCHANGED <<forwarded, filter, bus, rows, kept, counters, persist, lagged, messages_stored,
                 posts, now, page, down>>

\* Mutant: a failed insert ends the task.
PersistResume_Ends ==
  /\ persist.pc = "inserting" /\ job.state \in {"ok", "failed"}
  /\ messages_stored' = messages_stored + (IF job.state = "ok" THEN 1 ELSE 0)
  /\ job' = NoJob
  /\ persist' = [persist EXCEPT !.pc = IF job.state = "ok" THEN "receiving" ELSE "aborted"]
  /\ UNCHANGED <<forwarded, filter, bus, store, counters, lagged, posts, now, page, down>>

\* The task goes on, whether the insert succeeded or not.
PersistResume ==
  /\ persist.pc = "inserting" /\ job.state \in {"ok", "failed"}
  /\ messages_stored' = messages_stored + (IF job.state = "ok" THEN 1 ELSE 0)
  /\ job' = NoJob
  /\ persist' = [persist EXCEPT !.pc = "receiving"]
  /\ UNCHANGED <<forwarded, filter, bus, store, counters, lagged, posts, now, page, down>>

\* The HTTP POST task of the OneBot v11 server, started after the runtime.
StartPost ==
  /\ persist.pc # "off" /\ post.pc = "off" /\ down = "no"
  /\ post' = [pc |-> "receiving", next |-> Len(published) + 1]
  /\ UNCHANGED <<forwarded, filter, bus, store, counters, persists, posted, now, page, down>>

PostLag ==
  /\ post.pc = "receiving" /\ post.next < Oldest
  /\ post' = [post EXCEPT !.next = Oldest]
  /\ UNCHANGED <<forwarded, filter, bus, store, counters, persists, posted, now, page, down>>

PostSend ==
  /\ Receives(post)
  /\ posted' = Append(posted, post.next)
  /\ post' = [pc |-> "sending", next |-> post.next + 1]
  /\ UNCHANGED <<forwarded, filter, bus, store, counters, persists, now, page, down>>

\* Mutant: an event the target refuses is sent again.
PostDone_Again ==
  /\ post.pc = "sending"
  /\ \E next \in {post.next, post.next - 1} : post' = [pc |-> "receiving", next |-> next]
  /\ UNCHANGED <<forwarded, filter, bus, store, counters, persists, posted, now, page, down>>

\* The target answers or refuses; there is no timeout, and it may do neither.
PostDone ==
  /\ post.pc = "sending"
  /\ post' = [post EXCEPT !.pc = "receiving"]
  /\ UNCHANGED <<forwarded, filter, bus, store, counters, persists, posted, now, page, down>>

-----------------------------------------------------------------------------
(* The store *)

Day(t) == t \div PartsPerDay

\* Mutant: the day of the cutoff is deleted too.
Expired_WholeDay(t) == now >= MaxDays * PartsPerDay /\ Day(t) <= Day(now - MaxDays * PartsPerDay)

\* DELETE ... WHERE time < datetime('now', '-N days') compares texts: a row's
\* 'T' follows the cutoff's ' ' in the alphabet, so on the cutoff's own day no
\* row is smaller.
Expired(t) == now >= MaxDays * PartsPerDay /\ Day(t) < Day(now - MaxDays * PartsPerDay)

\* The cleanup task deletes on a blocking thread, perhaps still when it has
\* been aborted.
Cleanup ==
  /\ persist.pc # "off"
  /\ rows' = {r \in rows : ~Expired(TimeOf[r.event])}
  /\ UNCHANGED <<forwarded, filter, bus, kept, failed, counters, persists, posts, now, page, down>>

\* Mutant: oldest first.
NewestFirst_Ascending(r, s) ==
  \/ TimeOf[r.event] < TimeOf[s.event]
  \/ TimeOf[r.event] = TimeOf[s.event] /\ r.id < s.id

\* ORDER BY time DESC over the index on time.
NewestFirst(r, s) ==
  \/ TimeOf[r.event] > TimeOf[s.event]
  \/ TimeOf[r.event] = TimeOf[s.event] /\ r.id > s.id

\* The number of rows a query has before a row.
Rank(r) == Cardinality({s \in rows : NewestFirst(s, r)})

Ids == {r.id : r \in rows}

\* A client asks for page after page, of one row each.
StartPaging ==
  /\ page.pc = "off" /\ rows # {}
  /\ page' = [pc |-> "reading", offset |-> 0, owed |-> Ids, got |-> {}]
  /\ UNCHANGED <<forwarded, filter, bus, store, counters, persists, posts, now, down>>

QueryPage ==
  /\ page.pc = "reading"
  /\ \/ \E r \in rows :
          /\ Rank(r) = page.offset
          /\ page' = [page EXCEPT !.offset = page.offset + 1, !.got = page.got \cup {r.id}]
     \/ /\ Cardinality(rows) <= page.offset
        /\ page' = [page EXCEPT !.pc = "end", !.owed = page.owed \cap Ids]
  /\ UNCHANGED <<forwarded, filter, bus, store, counters, persists, posts, now, down>>

-----------------------------------------------------------------------------
(* The end of the process: the server's task is aborted, then forwarding   *)
(* with the adapters, then the persistence task where it stands.           *)

Aborted(task) == [task EXCEPT !.pc = IF @ = "off" THEN "off" ELSE "aborted"]

StopServer ==
  /\ down = "no"
  /\ down' = "server"
  /\ post' = Aborted(post)
  /\ UNCHANGED <<forwarded, filter, bus, store, counters, persists, posted, now, page>>

StopForwarding ==
  /\ down = "server"
  /\ down' = "adapters"
  /\ UNCHANGED <<forwarded, filter, bus, store, counters, persists, posts, now, page>>

AbortPersist ==
  /\ down = "adapters"
  /\ down' = "all"
  /\ persist' = Aborted(persist)
  /\ UNCHANGED <<forwarded, filter, bus, store, counters, job, lagged, messages_stored, posts, now, page>>

PersistStep == PersistLag \/ PersistSkip \/ PersistInsert \/ PersistResume
Job == JobInserts \/ JobFails

Next ==
  \/ Tick
  \/ \E a \in Adapters : Forward(a)
  \/ \E e \in seen : Forget(e)
  \/ StartPersist \/ PersistStep \/ Job
  \/ StartPost \/ PostLag \/ PostSend \/ PostDone
  \/ Cleanup \/ StartPaging \/ QueryPage
  \/ StopServer \/ StopForwarding \/ AbortPersist

Spec == Init /\ [][Next]_vars

\* The persistence task is polled when it can go on, and the thread pool
\* runs what it was given.
FairSpec == Spec /\ WF_vars(PersistStep) /\ WF_vars(Job)

-----------------------------------------------------------------------------
(* Properties *)

\* The state keeps its types; a task never waits for an insert that is not
\* under way.
TypeOK ==
  /\ forwarded \in [Adapters -> Nat] /\ \A a \in Adapters : forwarded[a] <= Len(Sends[a])
  /\ seen \subseteq Events /\ forgotten \subseteq Events
  /\ published \in Seq(Events) /\ unheard \in Nat
  /\ persist \in [pc : {"off", "receiving", "inserting", "aborted"}, first : Nat \ {0},
                  next : Nat \ {0}]
  /\ job \in [state : {"none", "queued", "ok", "failed"}, index : Nat]
  /\ rows \subseteq [id : Nat, event : Events]
  /\ kept \in Seq(Nat) /\ failed \subseteq Nat /\ lagged \subseteq Nat
  /\ post \in [pc : {"off", "receiving", "sending", "aborted"}, next : Nat \ {0}]
  /\ posted \in Seq(Nat)
  /\ events_total \in Nat /\ events_deduplicated \in Nat /\ messages_stored \in Nat /\ now \in Nat
  /\ page \in [pc : {"off", "reading", "end"}, offset : Nat, owed : SUBSET Nat, got : SUBSET Nat]
  /\ down \in {"no", "server", "adapters", "all"}
  /\ persist.pc = "inserting" => job.state # "none"
  /\ job.state # "none" => persist.pc \in {"inserting", "aborted"}

Stored == Range(kept)

Increasing(s) == \A i, j \in DOMAIN s : i < j => s[i] < s[j]

\* What reaches the store and the HTTP target is in the order of the bus and
\* nothing twice; one event is stored twice only if the deduplication filter
\* had forgotten it in between (forward.rs, runtime.rs:240-274).
OnceInOrder ==
  /\ Increasing(kept)
  /\ Increasing(posted)
  /\ \A i, j \in Stored : published[i] = published[j] /\ i # j => published[i] \in forgotten

\* The events taken from the channels.
Taken == UNION {{a} \X (1..forwarded[a]) : a \in Adapters}

\* The counters of the health endpoint agree with what happened: every event
\* taken from a channel was either suppressed or published or unheard, and
\* messages_stored is behind the rows by the one insert not yet reported, for
\* good when the task was aborted in it.
CountersAgree ==
  /\ Cardinality(Taken) = events_total + events_deduplicated
  /\ events_total = Len(published) + unheard
  /\ Len(kept) = messages_stored + (IF job.state = "ok" THEN 1 ELSE 0)

\* What may have become of a message: stored, failed, overwritten before it was
\* read, still to be read, or in the one insert under way.
Fates == <<Stored, failed, lagged, persist.next..Len(published),
           IF job.state = "queued" THEN {job.index} ELSE {}>>

\* Every message published since the persistence task subscribed has exactly
\* one fate: a failed insert or a lag costs the messages it is about and no
\* other; and the counters agree with that.
MessagesAccounted ==
  /\ TypeOK
  /\ CountersAgree
  /\ \A i \in Indices : published[i] \in Messages /\ i >= persist.first /\ persist.pc # "off" =>
       \E f \in DOMAIN Fates : \A g \in DOMAIN Fates : i \in Fates[g] <=> g = f

\* The cleanup deletes no message younger than max_days, and leaves none that
\* is a day older than that (storage.rs:299-315).
RetentionKept ==
  [][/\ \A r \in rows \ rows' : now - TimeOf[r.event] > MaxDays * PartsPerDay
     /\ Cleanup => \A r \in rows' : now - TimeOf[r.event] < (MaxDays + 1) * PartsPerDay]_vars

\* A client that pages from offset 0 to the end has seen every message that
\* was stored when it began and still is, whatever was stored and cleaned up
\* meanwhile; it may see some twice (storage.rs:190-296).
PagingSkipsNothing == page.pc = "end" => page.owed \subseteq page.got

\* A message published while the persistence task runs is in the end stored,
\* known to have failed or overwritten, unless the process is stopped: the
\* task never waits for ever and never ends by itself (runtime.rs:240-274).
EventuallySettled ==
  \A i \in 1..MaxEvents :
    (persist.pc # "off" /\ i \in Indices /\ i >= persist.first /\ published[i] \in Messages)
      ~> (i \in Stored \cup failed \cup lagged \/ down # "no")

=============================================================================
