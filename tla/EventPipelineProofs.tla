------------------------- MODULE EventPipelineProofs -------------------------
(***************************************************************************)
(* Proofs about EventPipeline, for any adapters, whatever their backends   *)
(* send, any bus, any times and any retention: the order and the fate of   *)
(* what is stored and posted, the counters, the pages of a client and the  *)
(* cleanup.                                                                *)
(***************************************************************************)
EXTENDS EventPipeline, FiniteSetTheorems, SequenceTheorems, TLAPS

\* What is on the bus is in the filter or was forgotten by it.
BusInv ==
  /\ \A i \in Indices : published[i] \in seen \cup forgotten
  /\ \A i, j \in Indices : published[i] = published[j] /\ i # j => published[i] \in forgotten

Queued == IF job.state = "queued" THEN {job.index} ELSE {}

\* The persistence task has dealt with what lies between the first event and
\* the next, each in one way.
PersistInv ==
  /\ persist.first <= persist.next /\ persist.next <= Len(published) + 1
  /\ persist.pc = "off" => kept = <<>> /\ failed = {} /\ lagged = {}
  /\ \A i \in Stored \cup failed \cup lagged \cup Queued : persist.first <= i /\ i < persist.next
  /\ Stored \cap failed = {} /\ Stored \cap lagged = {} /\ failed \cap lagged = {}
  /\ \A i \in Queued : i \notin Stored \cup failed \cup lagged /\ \A k \in Stored : k < i
  /\ \A i \in persist.first..persist.next - 1 :
       published[i] \in Messages => i \in Stored \cup failed \cup lagged \cup Queued
  /\ Increasing(kept)

PostInv ==
  /\ post.pc = "off" => posted = <<>>
  /\ \A k \in DOMAIN posted : posted[k] < post.next
  /\ Increasing(posted)

\* A row is one of the inserted messages.
RowsInv ==
  /\ IsFiniteSet(rows)
  /\ \A r \in rows : r.id \in Stored /\ r.event = published[r.id]

\* What a client still has to see comes at its offset or after it.
PageInv ==
  /\ page.owed \subseteq Stored
  /\ page.pc = "reading" =>
       \A r \in rows : r.id \in page.owed \ page.got => page.offset <= Rank(r)
  /\ page.pc = "end" => page.owed \subseteq page.got

IInv ==
  /\ TypeOK
  /\ CountersAgree
  /\ IsFiniteSet(Taken)
  /\ BusInv
  /\ PersistInv
  /\ PostInv
  /\ RowsInv
  /\ PageInv

-----------------------------------------------------------------------------
(* Arithmetic of days *)

LEMMA DayBounds ==
  ASSUME NEW t \in Nat
  PROVE  Day(t) \in Nat /\ Day(t) * PartsPerDay <= t /\ t < Day(t) * PartsPerDay + PartsPerDay
<1>1. PartsPerDay \in Nat /\ PartsPerDay > 0
  BY PipelineAssumption
<1> QED BY <1>1 DEF Day

LEMMA DayMonotone ==
  ASSUME NEW t \in Nat, NEW u \in Nat, t <= u
  PROVE  Day(t) <= Day(u)
<1>1. PartsPerDay \in Nat /\ PartsPerDay > 0
  BY PipelineAssumption
<1> DEFINE d == Day(t)  e == Day(u)  p == PartsPerDay
<1>2. d \in Nat /\ e \in Nat /\ d * p <= t /\ u < e * p + p
  BY DayBounds
<1> HIDE DEF d, e, p
<1>3. d * p < (e + 1) * p
  BY <1>1, <1>2 DEF p
<1>4. ASSUME d > e PROVE FALSE
  <2>1. PICK k \in Nat : d = e + 1 + k
    BY <1>2, <1>4
  <2>2. d * p = (e + 1) * p + k * p /\ k * p >= 0
    BY <1>1, <1>2, <2>1 DEF p
  <2> QED BY <1>1, <1>2, <1>3, <2>2 DEF p
<1> QED
  BY <1>2, <1>4 DEF d, e

\* The older a message, the sooner it expires.
LEMMA ExpiredMonotone ==
  ASSUME NEW t \in Nat, NEW u \in Nat, t <= u, Expired(u), now \in Nat
  PROVE  Expired(t)
<1>1. MaxDays * PartsPerDay \in Nat
  BY PipelineAssumption
<1>2. now >= MaxDays * PartsPerDay /\ Day(u) < Day(now - MaxDays * PartsPerDay)
      /\ now - MaxDays * PartsPerDay \in Nat
  BY <1>1 DEF Expired
<1>3. Day(t) <= Day(u) /\ Day(t) \in Nat /\ Day(u) \in Nat /\ Day(now - MaxDays * PartsPerDay) \in Nat
  BY <1>2, DayMonotone, DayBounds
<1> HIDE DEF Expired
<1>4. Day(t) < Day(now - MaxDays * PartsPerDay)
  BY <1>2, <1>3
<1> QED
  BY <1>2, <1>4 DEF Expired

\* Only what is older than max_days expires.
LEMMA ExpiredIsOld ==
  ASSUME NEW t \in Nat, Expired(t), now \in Nat
  PROVE  now - t > MaxDays * PartsPerDay
<1> DEFINE m == MaxDays * PartsPerDay
<1>1. m \in Nat
  BY PipelineAssumption
<1>2. now >= m /\ Day(t) < Day(now - m)
  BY DEF Expired
<1> HIDE DEF m
<1>3. now - m \in Nat
  BY <1>1, <1>2
<1>4. ASSUME now - m <= t PROVE FALSE
  <2>1. Day(now - m) <= Day(t) /\ Day(now - m) \in Nat /\ Day(t) \in Nat
    BY <1>3, <1>4, DayMonotone, DayBounds
  <2> QED BY <1>2, <2>1
<1> QED
  BY <1>1, <1>3, <1>4 DEF m

\* What is a day older has expired.
LEMMA KeptIsYoung ==
  ASSUME NEW t \in Nat, ~Expired(t), now \in Nat
  PROVE  now - t < (MaxDays + 1) * PartsPerDay
<1> DEFINE m == MaxDays * PartsPerDay  p == PartsPerDay
<1>1. m \in Nat /\ p \in Nat /\ p > 0 /\ (MaxDays + 1) * PartsPerDay = m + p
  BY PipelineAssumption
<1>2. ~(now >= m) \/ ~(Day(t) < Day(now - m))
  BY DEF Expired
<1> HIDE DEF m, p
<1>3. CASE ~(now >= m)
  BY <1>1, <1>3
<1>4. CASE now >= m /\ ~(Day(t) < Day(now - m))
  <2>1. now - m \in Nat
    BY <1>1, <1>4
  <2>2. /\ Day(now - m) \in Nat /\ Day(t) \in Nat /\ Day(t) * p <= t
        /\ now - m < Day(now - m) * p + p
    BY <2>1, DayBounds DEF p
  <2>3. Day(now - m) <= Day(t)
    BY <1>4, <2>2
  <2>4. Day(now - m) * p <= Day(t) * p /\ Day(now - m) * p \in Nat /\ Day(t) * p \in Nat
    <3> DEFINE d == Day(now - m)  e == Day(t)
    <3>2. d \in Nat /\ e \in Nat /\ d <= e
      BY <2>2, <2>3
    <3> HIDE DEF d, e
    <3>1. PICK k \in Nat : e = d + k
      <4>1. e - d \in Nat /\ e = d + (e - d)
        BY <3>2
      <4> QED BY <4>1
    <3>3. e * p = d * p + k * p /\ k * p \in Nat /\ d * p \in Nat
      BY <1>1, <3>1, <3>2
    <3> QED BY <3>3 DEF d, e
  <2> QED BY <1>1, <2>1, <2>2, <2>4
<1> QED
  BY <1>2, <1>3, <1>4

-----------------------------------------------------------------------------
(* Retention *)

\* Nothing but a cleanup deletes, what it deletes is older than max_days, and
\* it leaves nothing that is a day older than that (MessageStore::cleanup).
LEMMA RetentionStep ==
  ASSUME TypeOK, [Next]_vars
  PROVE  /\ \A r \in rows \ rows' : now - TimeOf[r.event] > MaxDays * PartsPerDay
         /\ Cleanup => \A r \in rows' : now - TimeOf[r.event] < (MaxDays + 1) * PartsPerDay
<1>1. \A r \in rows : TimeOf[r.event] \in Nat
  BY PipelineAssumption DEF TypeOK
<1>2. now \in Nat
  BY DEF TypeOK
<1>3. ASSUME Cleanup
      PROVE  /\ \A r \in rows \ rows' : now - TimeOf[r.event] > MaxDays * PartsPerDay
             /\ \A r \in rows' : now - TimeOf[r.event] < (MaxDays + 1) * PartsPerDay
  <2>1. rows' = {r \in rows : ~Expired(TimeOf[r.event])}
    BY <1>3 DEF Cleanup
  <2> QED
    BY <1>1, <1>2, <2>1, ExpiredIsOld, KeptIsYoung
<1>4. ~Cleanup => rows \subseteq rows'
  <2> SUFFICES ASSUME ~Cleanup PROVE rows \subseteq rows'
    OBVIOUS
  <2>1. CASE UNCHANGED rows
    BY <2>1
  <2>2. CASE JobInserts
    BY <2>2 DEF JobInserts
  <2> QED
    BY <2>1, <2>2 DEF Next, vars, store, Tick, Forward, Forget, StartPersist, PersistStep, PersistLag,
       PersistSkip, PersistInsert, PersistResume, Job, JobFails, StartPost, PostLag, PostSend, PostDone,
       StartPaging, QueryPage, StopServer, StopForwarding, AbortPersist
<1> QED
  BY <1>3, <1>4

-----------------------------------------------------------------------------
(* Facts about the parts of the state *)

\* What a proof about types may take from the invariant.
LEMMA Typed == ASSUME IInv PROVE TypeOK
BY DEF IInv

LEMMA InitIInv == Init => IInv
<1> SUFFICES ASSUME Init PROVE IInv
  OBVIOUS
<1>1. \A a \in Adapters : 0 <= Len(Sends[a])
  BY PipelineAssumption
<1>2. <<>> \in Seq(Nat) /\ <<>> \in Seq(Events) /\ DOMAIN <<>> = {} /\ Len(<<>>) = 0
  OBVIOUS
<1>3. TypeOK
  BY <1>1, <1>2 DEF Init, TypeOK, NoJob
<1>4. Taken = {} /\ IsFiniteSet(Taken) /\ Cardinality(Taken) = 0
  <2>1. Taken = {}
    BY DEF Init, Taken
  <2> QED BY <2>1, FS_EmptySet
<1>5. Stored = {} /\ Queued = {}
  BY <1>2 DEF Init, Stored, Range, Queued, NoJob
<1>6. CountersAgree
  BY <1>2, <1>4 DEF Init, CountersAgree, NoJob
<1>7. BusInv
  BY <1>2 DEF Init, BusInv, Indices
<1>8. PersistInv
  BY <1>2, <1>5 DEF Init, PersistInv, Increasing
<1>9. PostInv /\ RowsInv /\ PageInv
  BY <1>2, <1>5, FS_EmptySet DEF Init, PostInv, RowsInv, PageInv, Increasing
<1> QED
  BY <1>3, <1>4, <1>6, <1>7, <1>8, <1>9 DEF IInv

\* What is known of the history of the store.
LEMMA StoreFacts ==
  ASSUME IInv
  PROVE  /\ published \in Seq(Events) /\ Indices = 1..Len(published) /\ Len(published) \in Nat
         /\ persist.first \in Nat \ {0} /\ persist.next \in Nat \ {0}
         /\ Stored \subseteq Indices /\ Queued \subseteq Indices
         /\ Stored \subseteq Nat /\ Queued \subseteq Nat /\ lagged \subseteq Nat /\ failed \subseteq Nat
         /\ kept \in Seq(Nat) /\ DOMAIN kept = 1..Len(kept) /\ Len(kept) \in Nat
<1>1. /\ published \in Seq(Events) /\ Indices = 1..Len(published) /\ Len(published) \in Nat
      /\ persist.first \in Nat \ {0} /\ persist.next \in Nat \ {0}
      /\ kept \in Seq(Nat) /\ DOMAIN kept = 1..Len(kept) /\ Len(kept) \in Nat
      /\ job.index \in Nat
  BY Typed DEF TypeOK, Indices
<1>2. Stored \subseteq Nat /\ Queued \subseteq Nat
  BY <1>1 DEF Stored, Range, Queued
<1>3. \A i \in Stored \cup Queued : persist.first <= i /\ i < persist.next /\ persist.next <= Len(published) + 1
  BY DEF IInv, PersistInv
<1>4. \A i \in Stored \cup Queued : i \in 1..Len(published)
  BY <1>1, <1>2, <1>3
<1>5. lagged \subseteq Nat /\ failed \subseteq Nat
  BY Typed DEF TypeOK
<1> QED
  BY <1>1, <1>2, <1>4, <1>5

\* The parts that a step leaves alone.
LEMMA TakenKept == ASSUME UNCHANGED forwarded PROVE Taken' = Taken
BY DEF Taken

LEMMA PostKept == ASSUME IInv, UNCHANGED <<post, posted>> PROVE PostInv'
BY DEF IInv, PostInv, Increasing

LEMMA PageKept == ASSUME IInv, UNCHANGED <<page, rows, kept>> PROVE PageInv'
BY DEF IInv, PageInv, Rank, NewestFirst, Stored

LEMMA RowsKept == ASSUME IInv, UNCHANGED <<rows, kept, published>> PROVE RowsInv'
BY DEF IInv, RowsInv, Stored

LEMMA BusKept == ASSUME IInv, UNCHANGED <<seen, forgotten, published>> PROVE BusInv'
BY DEF IInv, BusInv, Indices

LEMMA PersistKept == ASSUME IInv, UNCHANGED <<published, persist, job, kept, failed, lagged>> PROVE PersistInv'
BY DEF IInv, PersistInv, Queued, Stored, Increasing

\* The types in four groups, of which a step changes one or two.
FilterTypes ==
  /\ forwarded \in [Adapters -> Nat] /\ \A a \in Adapters : forwarded[a] <= Len(Sends[a])
  /\ seen \subseteq Events /\ forgotten \subseteq Events
  /\ published \in Seq(Events) /\ unheard \in Nat
  /\ events_total \in Nat /\ events_deduplicated \in Nat

StoreTypes ==
  /\ job \in [state : {"none", "queued", "ok", "failed"}, index : Nat]
  /\ rows \subseteq [id : Nat, event : Events]
  /\ kept \in Seq(Nat) /\ failed \subseteq Nat /\ lagged \subseteq Nat
  /\ messages_stored \in Nat

TaskTypes ==
  /\ persist \in [pc : {"off", "receiving", "inserting", "aborted"}, first : Nat \ {0},
                  next : Nat \ {0}]
  /\ persist.pc = "inserting" => job.state # "none"
  /\ job.state # "none" => persist.pc \in {"inserting", "aborted"}
  /\ post \in [pc : {"off", "receiving", "sending", "aborted"}, next : Nat \ {0}]
  /\ posted \in Seq(Nat)

ClientTypes ==
  /\ page \in [pc : {"off", "reading", "end"}, offset : Nat, owed : SUBSET Nat, got : SUBSET Nat]
  /\ now \in Nat /\ down \in {"no", "server", "adapters", "all"}

LEMMA TypesKept ==
  ASSUME IInv
  PROVE  /\ FilterTypes /\ StoreTypes /\ TaskTypes /\ ClientTypes
         /\ UNCHANGED <<forwarded, seen, forgotten, published, unheard, events_total,
                        events_deduplicated>> => FilterTypes'
         /\ UNCHANGED <<job, rows, kept, failed, lagged, messages_stored>> => StoreTypes'
         /\ UNCHANGED <<persist, job, post, posted>> => TaskTypes'
         /\ UNCHANGED <<now, page, down>> => ClientTypes'
         /\ FilterTypes' /\ StoreTypes' /\ TaskTypes' /\ ClientTypes' => TypeOK'
<1>1. FilterTypes
  BY Typed DEF TypeOK, FilterTypes
<1>2. StoreTypes
  BY Typed DEF TypeOK, StoreTypes
<1>3. TaskTypes
  BY Typed DEF TypeOK, TaskTypes
<1>4. ClientTypes
  BY Typed DEF TypeOK, ClientTypes
<1>5. UNCHANGED <<forwarded, seen, forgotten, published, unheard, events_total,
                  events_deduplicated>> => FilterTypes'
  BY <1>1 DEF FilterTypes
<1>6. UNCHANGED <<job, rows, kept, failed, lagged, messages_stored>> => StoreTypes'
  BY <1>2 DEF StoreTypes
<1>7. UNCHANGED <<persist, job, post, posted>> => TaskTypes'
  BY <1>3 DEF TaskTypes
<1>8. UNCHANGED <<now, page, down>> => ClientTypes'
  BY <1>4 DEF ClientTypes
<1>9. FilterTypes' /\ StoreTypes' /\ TaskTypes' /\ ClientTypes' => TypeOK'
  BY DEF TypeOK, FilterTypes, StoreTypes, TaskTypes, ClientTypes
<1> QED
  BY <1>1, <1>2, <1>3, <1>4, <1>5, <1>6, <1>7, <1>8, <1>9

-----------------------------------------------------------------------------
(* Forwarding *)

LEMMA TickStep == ASSUME IInv, Tick PROVE IInv'
<1>1. /\ now' \in Nat
      /\ UNCHANGED <<forwarded, seen, forgotten, published, unheard, persist, job, rows, kept, failed,
                     lagged, post, posted, events_total, events_deduplicated, messages_stored, page, down>>
  BY PipelineAssumption DEF Tick, filter, bus, store, counters, persists, posts
<1>2. TypeOK'
  <2>1. ClientTypes'
    BY <1>1, TypesKept DEF ClientTypes
  <2> QED BY <1>1, <2>1, TypesKept
<1>3. CountersAgree' /\ IsFiniteSet(Taken)'
  BY <1>1, TakenKept DEF IInv, CountersAgree
<1> QED
  BY <1>1, <1>2, <1>3, PostKept, PageKept, RowsKept, BusKept, PersistKept DEF IInv

LEMMA ForgetStep == ASSUME IInv, NEW e \in seen, Forget(e) PROVE IInv'
<1>1. /\ seen' = seen \ {e} /\ forgotten' = forgotten \cup {e}
      /\ UNCHANGED <<forwarded, published, unheard, persist, job, rows, kept, failed, lagged, post,
                     posted, events_total, events_deduplicated, messages_stored, now, page, down>>
  BY DEF Forget, bus, store, counters, persists, posts
<1>2. TypeOK'
  <2>1. FilterTypes'
    BY <1>1, TypesKept DEF FilterTypes
  <2> QED BY <1>1, <2>1, TypesKept
<1>3. CountersAgree' /\ IsFiniteSet(Taken)'
  BY <1>1, TakenKept DEF IInv, CountersAgree
<1>4. BusInv'
  BY <1>1 DEF IInv, BusInv, Indices
<1> QED
  BY <1>1, <1>2, <1>3, <1>4, PostKept, PageKept, RowsKept, PersistKept DEF IInv

\* One more event taken.
LEMMA TakenGrows ==
  ASSUME IInv, NEW a \in Adapters, forwarded' = [forwarded EXCEPT ![a] = @ + 1]
  PROVE  /\ IsFiniteSet(Taken)' /\ Cardinality(Taken)' = Cardinality(Taken) + 1
         /\ Cardinality(Taken) \in Nat
<1> DEFINE n == forwarded[a]
<1>1. forwarded \in [Adapters -> Nat] /\ n \in Nat /\ IsFiniteSet(Taken)
  BY DEF IInv, TypeOK
<1>2. \A b \in Adapters : forwarded'[b] = IF b = a THEN n + 1 ELSE forwarded[b]
  BY <1>1
<1> HIDE DEF n
<1>3. 1..(n + 1) = (1..n) \cup {n + 1} /\ n + 1 \notin 1..n
  BY <1>1
<1>4. \A x : x \in Taken <=> \E b \in Adapters : \E k \in 1..forwarded[b] : x = <<b, k>>
  BY DEF Taken
<1>5. \A x : x \in Taken' <=> \E b \in Adapters : \E k \in 1..forwarded'[b] : x = <<b, k>>
  BY DEF Taken
<1>6. <<a, n + 1>> \notin Taken
  <2> SUFFICES ASSUME NEW b \in Adapters, NEW k \in 1..forwarded[b], <<a, n + 1>> = <<b, k>>
               PROVE  FALSE
    BY <1>4
  <2>1. b = a /\ k = n + 1
    OBVIOUS
  <2> QED BY <1>3, <2>1 DEF n
<1>7. ASSUME NEW x PROVE x \in Taken' <=> x \in Taken \cup {<<a, n + 1>>}
  <2>1. ASSUME NEW b \in Adapters, NEW k \in 1..forwarded'[b], x = <<b, k>>
        PROVE  x \in Taken \cup {<<a, n + 1>>}
    <3>1. CASE b = a
      <4>1. k \in 1..n \/ k = n + 1
        BY <1>2, <1>3, <2>1, <3>1
      <4> QED BY <1>4, <2>1, <3>1, <4>1 DEF n
    <3>2. CASE b # a
      BY <1>2, <1>4, <2>1, <3>2
    <3> QED BY <3>1, <3>2
  <2>2. ASSUME NEW b \in Adapters, NEW k \in 1..forwarded[b], x = <<b, k>>
        PROVE  x \in Taken'
    <3>1. k \in 1..forwarded'[b]
      BY <1>2, <1>3, <2>2 DEF n
    <3> QED BY <1>5, <2>2, <3>1
  <2>3. <<a, n + 1>> \in Taken'
    <3>1. n + 1 \in 1..forwarded'[a]
      BY <1>2, <1>3
    <3> QED BY <1>5, <3>1
  <2> QED BY <1>4, <1>5, <2>1, <2>2, <2>3
<1>8. Taken' = Taken \cup {<<a, n + 1>>}
  BY <1>7
<1> QED
  BY <1>1, <1>6, <1>8, FS_AddElement, FS_CardinalityType

\* One more event on the bus: what is there is where it was.
LEMMA BusGrows ==
  ASSUME IInv, NEW e \in Events, published' = Append(published, e),
         UNCHANGED <<rows, kept, failed, persist, job, lagged>>
  PROVE  /\ published' \in Seq(Events) /\ Len(published') = Len(published) + 1
         /\ PersistInv' /\ RowsInv'
         /\ e \notin seen /\ seen' = seen \cup {e} /\ forgotten' = forgotten => BusInv'
<1>1. published \in Seq(Events) /\ Len(published) \in Nat /\ Indices = 1..Len(published)
  BY StoreFacts
<1>2. /\ published' \in Seq(Events) /\ Len(published') = Len(published) + 1
      /\ \A i \in 1..Len(published) : published'[i] = published[i]
      /\ published'[Len(published) + 1] = e
  BY <1>1, AppendProperties
<1>3. Indices' = 1..(Len(published) + 1)
  BY <1>2 DEF Indices
<1>4. PersistInv'
  <2>1. Stored' = Stored /\ Queued' = Queued
    BY DEF Stored, Queued
  <2>2. /\ persist.next <= Len(published) + 1 /\ persist.next \in Nat \ {0} /\ persist.first \in Nat \ {0}
    BY StoreFacts DEF IInv, PersistInv
  <2>3. persist.next <= Len(published') + 1
    BY <1>1, <1>2, <2>2
  <2>4. \A i \in persist.first..persist.next - 1 : published'[i] = published[i]
    BY <1>1, <1>2, <2>2
  <2> QED
    BY <2>1, <2>3, <2>4 DEF IInv, PersistInv, Increasing
<1>5. RowsInv'
  <2>1. Stored' = Stored /\ Stored \subseteq 1..Len(published)
    BY <1>1, StoreFacts DEF Stored
  <2> QED
    BY <1>2, <2>1 DEF IInv, RowsInv
<1>6. ASSUME e \notin seen, seen' = seen \cup {e}, forgotten' = forgotten PROVE BusInv'
  <2>1. \A i \in 1..Len(published) : /\ published[i] \in seen \cup forgotten
                                     /\ published[i] = e => e \in forgotten
    BY <1>1, <1>6 DEF IInv, BusInv
  <2>2. \A i, j \in 1..Len(published) : published[i] = published[j] /\ i # j => published[i] \in forgotten
    BY <1>1 DEF IInv, BusInv
  <2>3. \A i \in Indices' : published'[i] \in seen' \cup forgotten'
    BY <1>2, <1>3, <1>6, <2>1
  <2>4. \A i, j \in Indices' : published'[i] = published'[j] /\ i # j => published'[i] \in forgotten'
    <3> SUFFICES ASSUME NEW i \in 1..(Len(published) + 1), NEW j \in 1..(Len(published) + 1),
                        published'[i] = published'[j], i # j
                 PROVE  published'[i] \in forgotten
      BY <1>3, <1>6
    <3>1. CASE i \in 1..Len(published) /\ j \in 1..Len(published)
      BY <1>2, <2>2, <3>1
    <3>2. CASE i = Len(published) + 1 /\ j \in 1..Len(published)
      BY <1>2, <2>1, <3>2
    <3>3. CASE j = Len(published) + 1 /\ i \in 1..Len(published)
      BY <1>2, <2>1, <3>3
    <3> QED BY <1>1, <3>1, <3>2, <3>3
  <2> QED BY <2>3, <2>4 DEF BusInv
<1> QED
  BY <1>2, <1>4, <1>5, <1>6

LEMMA ForwardStep == ASSUME IInv, NEW a \in Adapters, Forward(a) PROVE IInv'
<1> DEFINE e == Sends[a][forwarded[a] + 1]
<1>1. /\ forwarded[a] < Len(Sends[a])
      /\ forwarded' = [forwarded EXCEPT ![a] = @ + 1]
      /\ UNCHANGED <<forgotten, rows, kept, failed, persist, job, lagged, messages_stored, post, posted,
                     now, page, down>>
      /\ IF e \in seen
         THEN events_deduplicated' = events_deduplicated + 1 /\ UNCHANGED <<seen, bus, events_total>>
         ELSE /\ seen' = seen \cup {e} /\ events_total' = events_total + 1 /\ Publish(e)
              /\ UNCHANGED events_deduplicated
  BY DEF Forward, store, persists, posts
<1>2. forwarded \in [Adapters -> Nat] /\ forwarded[a] \in Nat
  BY Typed DEF TypeOK
<1>3. Sends[a] \in Seq(Events) /\ Len(Sends[a]) \in Nat /\ forwarded[a] + 1 \in 1..Len(Sends[a])
  BY <1>1, <1>2, PipelineAssumption
<1>4. e \in Events
  BY <1>3
<1> HIDE DEF e
<1>a. UNCHANGED <<forgotten, rows, kept, failed, persist, job, lagged, messages_stored, post, posted,
                  now, page, down>>
  BY <1>1
<1>5. forwarded' \in [Adapters -> Nat] /\ \A b \in Adapters : forwarded'[b] <= Len(Sends[b])
  <2>1. forwarded' \in [Adapters -> Nat]
    BY <1>1, <1>2
  <2>2. \A b \in Adapters : forwarded'[b] = IF b = a THEN forwarded[a] + 1 ELSE forwarded[b]
    BY <1>1, <1>2
  <2>3. \A b \in Adapters : forwarded[b] <= Len(Sends[b])
    BY Typed DEF TypeOK
  <2>4. ASSUME NEW b \in Adapters PROVE forwarded'[b] <= Len(Sends[b])
    <3>1. CASE b = a
      BY <1>3, <2>2, <3>1
    <3>2. CASE b # a
      BY <2>2, <2>3, <3>2
    <3> QED BY <3>1, <3>2
  <2> QED BY <2>1, <2>4
<1>6. IsFiniteSet(Taken)' /\ Cardinality(Taken)' = Cardinality(Taken) + 1 /\ Cardinality(Taken) \in Nat
  BY <1>1, TakenGrows
<1>7. PostInv' /\ PageInv'
  BY <1>1, PostKept, PageKept
<1>8. /\ events_total \in Nat /\ events_deduplicated \in Nat /\ unheard \in Nat /\ Len(published) \in Nat
      /\ Cardinality(Taken) = events_total + events_deduplicated
      /\ events_total = Len(published) + unheard
      /\ Len(kept) = messages_stored + (IF job.state = "ok" THEN 1 ELSE 0)
  BY StoreFacts DEF IInv, CountersAgree, TypeOK
<1>9. CASE e \in seen
  <2>1. events_deduplicated' = events_deduplicated + 1 /\ UNCHANGED <<seen, published, unheard, events_total>>
    BY <1>1, <1>9 DEF bus
  <2>2. TypeOK'
    <3>1. events_deduplicated' \in Nat
      BY <1>8, <2>1
    <3>2. FilterTypes'
      BY <1>a, <1>5, <2>1, <3>1, TypesKept DEF FilterTypes
    <3> QED BY <1>a, <3>2, TypesKept
  <2>3. CountersAgree'
    <3>1. Cardinality(Taken)' = events_total' + events_deduplicated'
      BY <1>6, <1>8, <2>1
    <3>2. events_total' = Len(published') + unheard'
      BY <1>8, <2>1
    <3>3. Len(kept') = messages_stored' + (IF job'.state = "ok" THEN 1 ELSE 0)
      BY <1>1, <1>8
    <3> QED BY <3>1, <3>2, <3>3 DEF CountersAgree
  <2> QED
    BY <1>1, <1>6, <1>7, <2>1, <2>2, <2>3, RowsKept, BusKept, PersistKept DEF IInv
<1>10. CASE e \notin seen /\ published' = Append(published, e) /\ unheard' = unheard
  <2>1. /\ seen' = seen \cup {e} /\ events_total' = events_total + 1
        /\ UNCHANGED <<events_deduplicated, unheard>>
    BY <1>1, <1>10
  <2>2. /\ published' \in Seq(Events) /\ Len(published') = Len(published) + 1
        /\ PersistInv' /\ RowsInv' /\ BusInv'
    BY <1>1, <1>4, <1>10, <2>1, BusGrows
  <2>3. TypeOK'
    <3>1. events_total' \in Nat
      BY <1>8, <2>1
    <3>2. seen' \subseteq Events
      BY <1>4, <2>1, TypesKept DEF FilterTypes
    <3>3. FilterTypes'
      BY <1>a, <1>5, <2>1, <2>2, <3>1, <3>2, TypesKept DEF FilterTypes
    <3> QED BY <1>a, <3>3, TypesKept
  <2>4. CountersAgree'
    <3>1. Cardinality(Taken)' = events_total' + events_deduplicated'
      BY <1>6, <1>8, <2>1
    <3>2. events_total' = Len(published') + unheard'
      BY <1>8, <2>1, <2>2
    <3>3. Len(kept') = messages_stored' + (IF job'.state = "ok" THEN 1 ELSE 0)
      BY <1>1, <1>8
    <3> QED BY <3>1, <3>2, <3>3 DEF CountersAgree
  <2> QED
    BY <1>6, <1>7, <2>2, <2>3, <2>4 DEF IInv
<1>11. CASE e \notin seen /\ unheard' = unheard + 1 /\ published' = published
  <2>1. /\ seen' = seen \cup {e} /\ events_total' = events_total + 1
        /\ UNCHANGED <<events_deduplicated, published>>
    BY <1>1, <1>11
  <2>2. TypeOK'
    <3>1. events_total' \in Nat /\ unheard' \in Nat
      BY <1>8, <1>11, <2>1
    <3>2. seen' \subseteq Events
      BY <1>4, <2>1, TypesKept DEF FilterTypes
    <3>3. FilterTypes'
      BY <1>a, <1>5, <2>1, <3>1, <3>2, TypesKept DEF FilterTypes
    <3> QED BY <1>a, <3>3, TypesKept
  <2>3. CountersAgree'
    <3>1. Cardinality(Taken)' = events_total' + events_deduplicated'
      BY <1>6, <1>8, <2>1
    <3>2. events_total' = Len(published') + unheard'
      BY <1>8, <1>11, <2>1
    <3>3. Len(kept') = messages_stored' + (IF job'.state = "ok" THEN 1 ELSE 0)
      BY <1>1, <1>8
    <3> QED BY <3>1, <3>2, <3>3 DEF CountersAgree
  <2>4. BusInv'
    BY <1>1, <2>1 DEF IInv, BusInv, Indices
  <2> QED
    BY <1>1, <1>6, <1>7, <2>1, <2>2, <2>3, <2>4, RowsKept, PersistKept DEF IInv
<1> QED
  BY <1>1, <1>9, <1>10, <1>11 DEF Publish

-----------------------------------------------------------------------------
(* Receivers *)

\* Steps that neither forward nor forget.
LEMMA QuietStep ==
  ASSUME IInv, UNCHANGED <<forwarded, seen, forgotten, published, unheard, events_total,
                           events_deduplicated>>,
         TypeOK', PersistInv', PostInv', RowsInv', PageInv',
         Len(kept') = messages_stored' + (IF job'.state = "ok" THEN 1 ELSE 0)
  PROVE  IInv'
<1>1. IsFiniteSet(Taken)' /\ CountersAgree'
  BY TakenKept DEF IInv, CountersAgree
<1> QED
  BY <1>1, BusKept DEF IInv

LEMMA OldestFacts ==
  ASSUME IInv
  PROVE  Oldest \in Nat \ {0} /\ Oldest <= Len(published) + 1
<1>1. Len(published) \in Nat /\ BusCapacity \in Nat \ {0}
  BY StoreFacts, PipelineAssumption
<1> QED BY <1>1 DEF Oldest

LEMMA StartPersistStep == ASSUME IInv, StartPersist PROVE IInv'
<1> DEFINE n == Len(published) + 1
<1>1. /\ persist.pc = "off" /\ persist' = [pc |-> "receiving", first |-> n, next |-> n]
      /\ UNCHANGED <<forwarded, seen, forgotten, published, unheard, rows, kept, failed, events_total,
                     events_deduplicated, job, lagged, messages_stored, post, posted, now, page, down>>
  BY DEF StartPersist, filter, bus, store, counters, posts
<1>2. n \in Nat \ {0} /\ n <= n /\ n = Len(published) + 1
  BY StoreFacts
<1> HIDE DEF n
<1>3. job.state = "none" /\ Stored = {} /\ failed = {} /\ lagged = {} /\ Queued = {} /\ kept = <<>>
  <2>1. kept = <<>> /\ failed = {} /\ lagged = {}
    BY <1>1 DEF IInv, PersistInv
  <2>2. job.state = "none"
    BY <1>1, Typed DEF TypeOK
  <2> QED BY <2>1, <2>2 DEF Stored, Range, Queued
<1>4. /\ persist'.pc = "receiving" /\ persist'.first = n /\ persist'.next = n
      /\ persist' \in [pc : {"off", "receiving", "inserting", "aborted"}, first : Nat \ {0},
                       next : Nat \ {0}]
  BY <1>1, <1>2
<1>5. TypeOK'
  BY <1>1, <1>3, <1>4, Typed DEF TypeOK
<1>6. Stored' = {} /\ Queued' = {} /\ Increasing(kept')
  BY <1>1, <1>3 DEF Stored, Queued, Increasing
<1>7. PersistInv'
  BY <1>1, <1>2, <1>3, <1>4, <1>6 DEF PersistInv
<1>8. Len(kept') = messages_stored' + (IF job'.state = "ok" THEN 1 ELSE 0)
  BY <1>1 DEF IInv, CountersAgree
<1> QED
  BY <1>1, <1>5, <1>7, <1>8, QuietStep, PostKept, RowsKept, PageKept

\* What the persistence task goes past.
LEMMA PersistAdvances ==
  ASSUME IInv, NEW n \in Nat \ {0}, persist.next <= n, n <= Len(published) + 1,
         persist.pc = "receiving",
         persist'.first = persist.first, persist'.next = n, persist'.pc # "off",
         UNCHANGED <<published, kept, failed>>, lagged \subseteq lagged',
         lagged' \cup Queued' \subseteq Nat,
         \A i \in lagged' \cup Queued' : i \in lagged \/ (persist.next <= i /\ i < n),
         lagged' \cap Queued' = {},
         \A i \in persist.next..n - 1 : published[i] \in Messages => i \in lagged' \cup Queued'
  PROVE  PersistInv'
<1>1. Queued = {} /\ Stored' = Stored
  BY Typed DEF TypeOK, Queued, Stored
<1>2. persist.first <= persist.next /\ persist.first \in Nat \ {0} /\ persist.next \in Nat \ {0}
  BY StoreFacts DEF IInv, PersistInv
<1>3. \A i \in Stored \cup failed \cup lagged : persist.first <= i /\ i < persist.next
  BY DEF IInv, PersistInv
<1>4. Stored \cup failed \cup lagged \subseteq Nat
  BY StoreFacts
<1>5. lagged' \cup Queued' \subseteq Nat
  OBVIOUS
<1>6. \A i \in Stored' \cup failed' \cup lagged' \cup Queued' : persist'.first <= i /\ i < persist'.next
  BY <1>1, <1>2, <1>3, <1>4, <1>5
<1>7. Stored' \cap failed' = {} /\ Stored' \cap lagged' = {} /\ failed' \cap lagged' = {}
  BY <1>1, <1>2, <1>3, <1>4 DEF IInv, PersistInv
<1>8. \A i \in Queued' : i \notin Stored' \cup failed' \cup lagged' /\ \A k \in Stored' : k < i
  <2> SUFFICES ASSUME NEW i \in Queued' PROVE i \notin Stored \cup failed /\ \A k \in Stored : k < i
    BY <1>1
  <2>1. (persist.next <= i /\ i \in Nat) \/ i \in lagged
    BY <1>5
  <2>2. i \notin lagged
    OBVIOUS
  <2> QED BY <1>2, <1>3, <1>4, <2>1, <2>2
<1>9. \A i \in persist'.first..persist'.next - 1 :
        published'[i] \in Messages => i \in Stored' \cup failed' \cup lagged' \cup Queued'
  <2> SUFFICES ASSUME NEW i \in persist.first..n - 1, published[i] \in Messages
               PROVE  i \in Stored \cup failed \cup lagged' \cup Queued'
    BY <1>1
  <2>1. CASE i < persist.next
    BY <1>1, <1>2, <2>1 DEF IInv, PersistInv
  <2>2. CASE persist.next <= i
    BY <1>2, <2>2
  <2> QED BY <1>2, <2>1, <2>2
<1>10. persist'.first <= persist'.next /\ persist'.next <= Len(published') + 1
  BY <1>2
<1>11. Increasing(kept')
  BY DEF IInv, PersistInv, Increasing
<1> QED
  BY <1>6, <1>7, <1>8, <1>9, <1>10, <1>11 DEF PersistInv

LEMMA PersistLagStep == ASSUME IInv, PersistLag PROVE IInv'
<1>1. /\ persist.pc = "receiving" /\ persist.next < Oldest
      /\ lagged' = lagged \cup (persist.next..Oldest - 1)
      /\ persist' = [persist EXCEPT !.next = Oldest]
      /\ UNCHANGED <<forwarded, seen, forgotten, published, unheard, rows, kept, failed, events_total,
                     events_deduplicated, job, messages_stored, post, posted, now, page, down>>
  BY DEF PersistLag, filter, bus, store, counters, posts
<1>2. PICK n \in Nat \ {0} : n = Oldest /\ n <= Len(published) + 1
  BY OldestFacts
<1>3. persist.next \in Nat \ {0}
  BY StoreFacts
<1>4. /\ persist'.pc = "receiving" /\ persist'.first = persist.first /\ persist'.next = n
      /\ persist' \in [pc : {"off", "receiving", "inserting", "aborted"}, first : Nat \ {0},
                       next : Nat \ {0}]
  BY <1>1, <1>2, Typed DEF TypeOK
<1>5. job.state = "none" /\ Queued' = {}
  BY <1>1, Typed DEF TypeOK, Queued
<1>6. lagged' \subseteq Nat /\ lagged' = lagged \cup (persist.next..n - 1) /\ persist.next <= n
  <2>1. lagged' = lagged \cup (persist.next..n - 1) /\ lagged \subseteq Nat
    BY <1>1, <1>2, Typed DEF TypeOK
  <2> QED BY <1>1, <1>2, <1>3, <2>1
<1>7. PersistInv'
  <2>1. \A i \in lagged' \cup Queued' : i \in lagged \/ (persist.next <= i /\ i < n)
    BY <1>2, <1>3, <1>5, <1>6
  <2>2. \A i \in persist.next..n - 1 : published[i] \in Messages => i \in lagged' \cup Queued'
    BY <1>6
  <2> QED
    BY <1>1, <1>2, <1>4, <1>5, <1>6, <2>1, <2>2, PersistAdvances
<1>8. TypeOK'
  BY <1>1, <1>4, <1>5, <1>6, Typed DEF TypeOK
<1>9. Len(kept') = messages_stored' + (IF job'.state = "ok" THEN 1 ELSE 0)
  BY <1>1 DEF IInv, CountersAgree
<1> QED
  BY <1>1, <1>7, <1>8, <1>9, QuietStep, PostKept, RowsKept, PageKept

LEMMA PersistReceivesStep == ASSUME IInv, PersistSkip \/ PersistInsert PROVE IInv'
<1> DEFINE n == persist.next
<1>1. /\ persist.pc = "receiving" /\ n \in Oldest..Len(published)
      /\ UNCHANGED <<forwarded, seen, forgotten, published, unheard, rows, kept, failed, events_total,
                     events_deduplicated, lagged, messages_stored, post, posted, now, page, down>>
  BY DEF PersistSkip, PersistInsert, Receives, filter, bus, store, counters, posts
<1>2. /\ n \in Nat \ {0} /\ n + 1 \in Nat \ {0} /\ n <= Len(published) /\ Len(published) \in Nat
      /\ n <= n + 1 /\ n + 1 <= Len(published) + 1
      /\ \A i \in n..(n + 1) - 1 : i = n
  BY <1>1, StoreFacts, OldestFacts
<1>3. persist' = [pc |-> persist'.pc, first |-> persist.first, next |-> n + 1]
      /\ persist'.pc = IF PersistInsert THEN "inserting" ELSE "receiving"
  <2>1. CASE PersistInsert
    BY <2>1 DEF PersistInsert
  <2>2. CASE PersistSkip
    <3>1. persist \in [pc : {"off", "receiving", "inserting", "aborted"}, first : Nat \ {0},
                       next : Nat \ {0}]
      BY Typed DEF TypeOK
    <3>2. persist' = [persist EXCEPT !.next = n + 1] /\ published[n] \notin Messages
      BY <2>2 DEF PersistSkip
    <3>3. ~PersistInsert
      BY <3>2 DEF PersistInsert
    <3> QED BY <1>1, <3>1, <3>2, <3>3
  <2> QED BY <2>1, <2>2
<1> HIDE DEF n
<1>4. /\ persist'.first = persist.first /\ persist'.next = n + 1 /\ persist'.pc # "off"
      /\ persist' \in [pc : {"off", "receiving", "inserting", "aborted"}, first : Nat \ {0},
                       next : Nat \ {0}]
  BY <1>2, <1>3, Typed DEF TypeOK
<1>5. lagged \cap {n} = {} /\ job.state = "none"
  BY <1>1 DEF IInv, PersistInv, TypeOK, n
<1>6. CASE PersistSkip
  <2>1. job' = job /\ published[n] \notin Messages /\ Queued' = {} /\ ~PersistInsert
    BY <1>5, <1>6 DEF PersistSkip, PersistInsert, Queued, n
  <2>2. PersistInv'
    <3>1. lagged' = lagged /\ lagged \subseteq Nat /\ lagged' \cap Queued' = {}
      BY <1>1, <2>1, StoreFacts
    <3>2. \A i \in n..(n + 1) - 1 : published[i] \in Messages => i \in lagged' \cup Queued'
      BY <1>2, <2>1
    <3> QED
      BY <1>1, <1>2, <1>4, <2>1, <3>1, <3>2, PersistAdvances DEF n
  <2>3. TypeOK'
    <3>1. persist'.pc = "receiving"
      BY <1>3, <2>1
    <3> QED BY <1>1, <1>4, <1>5, <2>1, <3>1, Typed DEF TypeOK
  <2>4. Len(kept') = messages_stored' + (IF job'.state = "ok" THEN 1 ELSE 0)
    BY <1>1, <2>1 DEF IInv, CountersAgree
  <2> QED
    BY <1>1, <2>2, <2>3, <2>4, QuietStep, PostKept, RowsKept, PageKept
<1>7. CASE PersistInsert
  <2>1. job' = [state |-> "queued", index |-> n] /\ Queued' = {n}
    BY <1>7 DEF PersistInsert, Queued, n
  <2>2. PersistInv'
    <3>1. \A i \in lagged' \cup Queued' : i \in lagged \/ (n <= i /\ i < n + 1)
      BY <1>1, <1>2, <2>1
    <3>2. \A i \in n..(n + 1) - 1 : published[i] \in Messages => i \in lagged' \cup Queued'
      BY <1>2, <2>1
    <3>3. lagged' \cap Queued' = {} /\ lagged' \cup Queued' \subseteq Nat
      BY <1>1, <1>2, <1>5, <2>1, StoreFacts
    <3> QED
      BY <1>1, <1>2, <1>4, <3>1, <3>2, <3>3, PersistAdvances DEF n
  <2>3. TypeOK'
    <3>1. job' \in [state : {"none", "queued", "ok", "failed"}, index : Nat] /\ job'.state = "queued"
      BY <1>2, <2>1
    <3> QED BY <1>1, <1>3, <1>4, <1>7, <3>1, Typed DEF TypeOK
  <2>4. Len(kept') = messages_stored' + (IF job'.state = "ok" THEN 1 ELSE 0)
    BY <1>1, <1>5, <2>1 DEF IInv, CountersAgree
  <2> QED
    BY <1>1, <2>2, <2>3, <2>4, QuietStep, PostKept, RowsKept, PageKept
<1> QED
  BY <1>6, <1>7

-----------------------------------------------------------------------------
(* The order of a query *)

\* The rows before a row.
Before(r) == {s \in rows : NewestFirst(s, r)}

LEMMA RowFacts ==
  ASSUME IInv, NEW r \in rows
  PROVE  /\ r.id \in Nat /\ r.id \in Stored /\ TimeOf[r.event] \in Nat /\ r.event \in Events
         /\ \A s \in rows : s.id = r.id => s = r
         /\ IsFiniteSet(Before(r)) /\ Rank(r) \in Nat /\ Rank(r) = Cardinality(Before(r))
         /\ r \notin Before(r)
<1>1. rows \subseteq [id : Nat, event : Events] /\ IsFiniteSet(rows)
      /\ \A s \in rows : s.id \in Stored /\ s.event = published[s.id]
  BY DEF IInv, TypeOK, RowsInv
<1>2. r.id \in Nat /\ r.id \in Stored /\ TimeOf[r.event] \in Nat /\ r.event \in Events
  BY <1>1, PipelineAssumption
<1>3. ASSUME NEW s \in rows, s.id = r.id PROVE s = r
  BY <1>1, <1>3
<1>4. Before(r) \subseteq rows
  BY DEF Before
<1>5. IsFiniteSet(Before(r)) /\ Cardinality(Before(r)) \in Nat
  BY <1>1, <1>4, FS_Subset, FS_CardinalityType
<1>6. r \notin Before(r)
  BY <1>2 DEF Before, NewestFirst
<1> QED
  BY <1>2, <1>3, <1>5, <1>6 DEF Rank, Before

\* The rows are in a total order, so no two have the same rank.
LEMMA RankOrder ==
  ASSUME IInv, NEW r \in rows, NEW s \in rows, r # s
  PROVE  Rank(r) # Rank(s)
<1>1. ASSUME NEW x \in rows, NEW y \in rows, NewestFirst(x, y)
      PROVE  Rank(x) < Rank(y)
  <2>1. /\ x.id \in Nat /\ y.id \in Nat /\ TimeOf[x.event] \in Nat /\ TimeOf[y.event] \in Nat
        /\ IsFiniteSet(Before(x)) /\ IsFiniteSet(Before(y)) /\ x \notin Before(x)
        /\ Rank(x) \in Nat /\ Rank(y) \in Nat
        /\ Rank(x) = Cardinality(Before(x)) /\ Rank(y) = Cardinality(Before(y))
    BY RowFacts
  <2>2. ASSUME NEW z \in Before(x) PROVE z \in Before(y)
    <3>1. z \in rows /\ NewestFirst(z, x) /\ z.id \in Nat /\ TimeOf[z.event] \in Nat
      BY RowFacts DEF Before
    <3>2. NewestFirst(z, y)
      BY <1>1, <2>1, <3>1 DEF NewestFirst
    <3> QED BY <3>1, <3>2 DEF Before
  <2>3. Before(x) \cup {x} \subseteq Before(y)
    BY <1>1, <2>2 DEF Before
  <2>4. Cardinality(Before(x) \cup {x}) = Rank(x) + 1
    BY <2>1, FS_AddElement
  <2>5. Cardinality(Before(x) \cup {x}) <= Cardinality(Before(y))
    BY <2>1, <2>3, FS_Subset
  <2> QED BY <2>1, <2>4, <2>5
<1>2. /\ r.id \in Nat /\ s.id \in Nat /\ r.id # s.id
      /\ TimeOf[r.event] \in Nat /\ TimeOf[s.event] \in Nat /\ Rank(r) \in Nat /\ Rank(s) \in Nat
  BY RowFacts
<1>3. NewestFirst(r, s) \/ NewestFirst(s, r)
  BY <1>2 DEF NewestFirst
<1> QED
  BY <1>1, <1>2, <1>3

LEMMA RankBound ==
  ASSUME IInv, NEW r \in rows
  PROVE  Rank(r) < Cardinality(rows)
<1>1. IsFiniteSet(rows) /\ Cardinality(rows) \in Nat
  BY FS_CardinalityType DEF IInv, RowsInv
<1>2. /\ IsFiniteSet(Before(r)) /\ r \notin Before(r) /\ Rank(r) \in Nat
      /\ Rank(r) = Cardinality(Before(r))
  BY RowFacts
<1>3. Before(r) \cup {r} \subseteq rows
  BY DEF Before
<1>4. Cardinality(Before(r) \cup {r}) = Rank(r) + 1
  BY <1>2, FS_AddElement
<1>5. Cardinality(Before(r) \cup {r}) <= Cardinality(rows)
  BY <1>1, <1>3, FS_Subset
<1> QED
  BY <1>1, <1>2, <1>4, <1>5

-----------------------------------------------------------------------------
(* The store *)

\* A row that comes shifts a client's pages towards the end, never back.
LEMMA JobInsertsStep == ASSUME IInv, JobInserts PROVE IInv'
<1> DEFINE x == job.index  r == [id |-> x, event |-> published[x]]
<1>1. /\ job.state = "queued" /\ rows' = rows \cup {r} /\ kept' = Append(kept, x)
      /\ job' = [job EXCEPT !.state = "ok"]
      /\ UNCHANGED <<forwarded, seen, forgotten, published, unheard, failed, events_total,
                     events_deduplicated, persist, lagged, messages_stored, post, posted, now, page, down>>
  BY DEF JobInserts, filter, bus, counters, posts
<1>2. /\ job \in [state : {"none", "queued", "ok", "failed"}, index : Nat] /\ x \in Nat
      /\ job'.state = "ok" /\ job' \in [state : {"none", "queued", "ok", "failed"}, index : Nat]
  BY <1>1, Typed DEF TypeOK
<1>3. /\ kept \in Seq(Nat) /\ DOMAIN kept = 1..Len(kept) /\ Len(kept) \in Nat /\ published \in Seq(Events)
      /\ x \in 1..Len(published) /\ Stored \subseteq Nat
  BY <1>1, StoreFacts DEF Queued
<1>4. /\ kept' \in Seq(Nat) /\ Len(kept') = Len(kept) + 1
      /\ \A i \in 1..Len(kept) : kept'[i] = kept[i]
      /\ kept'[Len(kept) + 1] = x
  BY <1>1, <1>2, <1>3, AppendProperties
<1>5. DOMAIN kept' = 1..(Len(kept) + 1)
  BY <1>4
<1>6. Queued = {x} /\ Queued' = {}
  BY <1>1, <1>2 DEF Queued
<1>7. Stored' = Stored \cup {x}
  <2>1. \A y : y \in Stored' <=> \E i \in 1..(Len(kept) + 1) : kept'[i] = y
    BY <1>5 DEF Stored, Range
  <2>2. \A y : y \in Stored <=> \E i \in 1..Len(kept) : kept[i] = y
    BY <1>3 DEF Stored, Range
  <2>3. 1..(Len(kept) + 1) = 1..Len(kept) \cup {Len(kept) + 1}
    BY <1>3
  <2>4. ASSUME NEW y \in Stored' PROVE y \in Stored \/ y = x
    BY <1>4, <2>1, <2>2, <2>3, <2>4
  <2>5. ASSUME NEW y \in Stored PROVE y \in Stored'
    BY <1>4, <2>1, <2>2, <2>3, <2>5
  <2>6. x \in Stored'
    BY <1>4, <2>1, <2>3
  <2> QED BY <2>4, <2>5, <2>6
<1>8. x \notin Stored \cup failed \cup lagged /\ \A k \in Stored : k < x
  BY <1>6 DEF IInv, PersistInv
<1>9. Increasing(kept')
  <2>1. \A i \in 1..Len(kept) : kept[i] \in Stored
    BY <1>3 DEF Stored, Range
  <2>2. \A i, j \in 1..Len(kept) : i < j => kept[i] < kept[j]
    BY <1>3 DEF IInv, PersistInv, Increasing
  <2> SUFFICES ASSUME NEW i \in 1..(Len(kept) + 1), NEW j \in 1..(Len(kept) + 1), i < j
               PROVE  kept'[i] < kept'[j]
    BY <1>5 DEF Increasing
  <2>3. CASE j \in 1..Len(kept)
    <3>1. i \in 1..Len(kept)
      BY <1>3, <2>3
    <3>2. kept'[i] = kept[i] /\ kept'[j] = kept[j]
      BY <1>4, <2>3, <3>1
    <3> QED BY <2>2, <2>3, <3>1, <3>2
  <2>4. CASE j = Len(kept) + 1
    <3>1. i \in 1..Len(kept)
      BY <1>3, <2>4
    <3>2. kept'[i] = kept[i] /\ kept[i] \in Stored
      BY <1>4, <2>1, <3>1
    <3>3. kept'[j] = x
      BY <1>4, <2>4
    <3> QED BY <1>8, <3>2, <3>3
  <2> QED BY <1>3, <2>3, <2>4
<1> HIDE DEF x
<1>10. PersistInv'
  <2>1. /\ Stored' \cup failed' \cup lagged' \cup Queued' = Stored \cup failed \cup lagged \cup Queued
        /\ Stored' \cap failed' = {} /\ Stored' \cap lagged' = {} /\ failed' \cap lagged' = {}
    BY <1>1, <1>6, <1>7, <1>8 DEF IInv, PersistInv
  <2>2. persist.pc # "off"
    BY <1>1, Typed DEF TypeOK
  <2> QED
    BY <1>1, <1>6, <1>9, <2>1, <2>2 DEF IInv, PersistInv
<1>11. r \in [id : Nat, event : Events] /\ r.id = x /\ r.event = published[x]
  BY <1>2, <1>3
<1> HIDE DEF r
<1>12. RowsInv'
  <2>1. IsFiniteSet(rows')
    BY <1>1, FS_AddElement DEF IInv, RowsInv
  <2> QED
    BY <1>1, <1>7, <1>11, <2>1 DEF IInv, RowsInv
<1>13. PageInv'
  <2>1. page.owed \subseteq Stored'
    BY <1>7 DEF IInv, PageInv
  <2>2. ASSUME page.pc = "reading", NEW s \in rows', s.id \in page.owed \ page.got
        PROVE  page.offset <= Rank(s)'
    <3>1. s \in rows
      BY <1>1, <1>8, <1>11, <2>2 DEF IInv, PageInv
    <3>2. /\ page.offset <= Rank(s) /\ page.offset \in Nat /\ Rank(s) \in Nat
          /\ Rank(s) = Cardinality(Before(s))
      BY <2>2, <3>1, RowFacts DEF IInv, PageInv, TypeOK
    <3>3. /\ Before(s)' = {y \in rows' : NewestFirst(y, s)} /\ Rank(s)' = Cardinality(Before(s)')
          /\ Before(s) \subseteq Before(s)' /\ Before(s)' \subseteq rows'
      BY <1>1 DEF Before, Rank, NewestFirst
    <3>4. IsFiniteSet(Before(s)') /\ Cardinality(Before(s)') \in Nat
      BY <1>12, <3>3, FS_Subset, FS_CardinalityType DEF RowsInv
    <3>5. Cardinality(Before(s)) <= Cardinality(Before(s)')
      BY <3>3, <3>4, FS_Subset
    <3> QED BY <3>2, <3>3, <3>4, <3>5
  <2> QED
    BY <1>1, <2>1, <2>2 DEF IInv, PageInv
<1>14. TypeOK'
  <2>1. rows' \subseteq [id : Nat, event : Events]
    BY <1>1, <1>11, Typed DEF TypeOK
  <2> QED BY <1>1, <1>2, <1>4, <2>1, Typed DEF TypeOK
<1>15. Len(kept') = messages_stored' + (IF job'.state = "ok" THEN 1 ELSE 0)
  <2>1. Len(kept) = messages_stored + 0 /\ messages_stored \in Nat
    BY <1>1 DEF IInv, CountersAgree, TypeOK
  <2> QED BY <1>1, <1>2, <1>3, <1>4, <2>1
<1> QED
  BY <1>1, <1>10, <1>12, <1>13, <1>14, <1>15, QuietStep, PostKept

\* A cleanup deletes nothing that comes before a row it leaves.
LEMMA CleanupStep == ASSUME IInv, Cleanup PROVE IInv'
<1>1. /\ rows' = {r \in rows : ~Expired(TimeOf[r.event])}
      /\ UNCHANGED <<forwarded, seen, forgotten, published, unheard, kept, failed, events_total,
                     events_deduplicated, persist, job, lagged, messages_stored, post, posted, now, page,
                     down>>
  BY DEF Cleanup, filter, bus, counters, persists, posts
<1>2. rows' \subseteq rows /\ now \in Nat
  BY <1>1, TypesKept DEF ClientTypes
<1>3. TypeOK'
  <2>1. StoreTypes'
    BY <1>1, <1>2, TypesKept DEF StoreTypes
  <2> QED BY <1>1, <2>1, TypesKept
<1>4. RowsInv'
  <2>1. IsFiniteSet(rows')
    BY <1>2, FS_Subset DEF IInv, RowsInv
  <2> QED BY <1>1, <1>2, <2>1 DEF IInv, RowsInv, Stored
<1>5. ASSUME NEW s \in rows' PROVE Rank(s)' = Rank(s)
  <2>1. s \in rows /\ ~Expired(TimeOf[s.event])
    BY <1>1
  <2>2. ASSUME NEW y \in rows, NewestFirst(y, s) PROVE y \in rows'
    <3>1. TimeOf[y.event] \in Nat /\ TimeOf[s.event] \in Nat /\ y.id \in Nat /\ s.id \in Nat
      BY <2>1, RowFacts
    <3>2. TimeOf[s.event] <= TimeOf[y.event]
      BY <2>2, <3>1 DEF NewestFirst
    <3>3. ~Expired(TimeOf[y.event])
      BY <1>2, <2>1, <3>1, <3>2, ExpiredMonotone
    <3> QED BY <1>1, <3>3
  <2>3. {y \in rows' : NewestFirst(y, s)} = {y \in rows : NewestFirst(y, s)}
    BY <1>2, <2>2
  <2> QED BY <2>3 DEF Rank, NewestFirst
<1>6. PageInv'
  BY <1>1, <1>2, <1>5 DEF IInv, PageInv, Stored
<1>7. Len(kept') = messages_stored' + (IF job'.state = "ok" THEN 1 ELSE 0)
  BY <1>1 DEF IInv, CountersAgree
<1> QED
  BY <1>1, <1>3, <1>4, <1>6, <1>7, QuietStep, PostKept, PersistKept

LEMMA StartPagingStep == ASSUME IInv, StartPaging PROVE IInv'
<1>1. /\ page' = [pc |-> "reading", offset |-> 0, owed |-> Ids, got |-> {}]
      /\ UNCHANGED <<forwarded, seen, forgotten, published, unheard, rows, kept, failed, events_total,
                     events_deduplicated, persist, job, lagged, messages_stored, post, posted, now, down>>
  BY DEF StartPaging, filter, bus, store, counters, persists, posts
<1>2. Ids \subseteq Stored /\ Ids \subseteq Nat
  BY RowFacts DEF Ids
<1>3. page'.pc = "reading" /\ page'.offset = 0 /\ page'.owed = Ids /\ page'.got = {}
      /\ page' \in [pc : {"off", "reading", "end"}, offset : Nat, owed : SUBSET Nat, got : SUBSET Nat]
  BY <1>1, <1>2
<1>4. \A r \in rows' : 0 <= Rank(r)'
  <2> SUFFICES ASSUME NEW r \in rows PROVE 0 <= Rank(r)'
    BY <1>1
  <2>1. Rank(r)' = Rank(r) /\ Rank(r) \in Nat
    BY <1>1, RowFacts DEF Rank, NewestFirst
  <2> QED BY <2>1
<1>5. PageInv'
  BY <1>1, <1>2, <1>3, <1>4 DEF PageInv, Stored
<1>6. TypeOK'
  BY <1>1, <1>3, Typed DEF TypeOK
<1>7. Len(kept') = messages_stored' + (IF job'.state = "ok" THEN 1 ELSE 0)
  BY <1>1 DEF IInv, CountersAgree
<1> QED
  BY <1>1, <1>5, <1>6, <1>7, QuietStep, PostKept, PersistKept, RowsKept

LEMMA QueryPageStep == ASSUME IInv, QueryPage PROVE IInv'
<1> DEFINE P == [pc : {"off", "reading", "end"}, offset : Nat, owed : SUBSET Nat, got : SUBSET Nat]
<1>1. /\ page.pc = "reading"
      /\ UNCHANGED <<forwarded, seen, forgotten, published, unheard, rows, kept, failed, events_total,
                     events_deduplicated, persist, job, lagged, messages_stored, post, posted, now, down>>
  BY DEF QueryPage, filter, bus, store, counters, persists, posts
<1>2. page \in P /\ page.offset \in Nat /\ page.owed \subseteq Stored
  BY DEF IInv, TypeOK, PageInv
<1>3. \A r \in rows : r.id \in page.owed \ page.got => page.offset <= Rank(r)
  BY <1>1 DEF IInv, PageInv
<1>4. \A r : Rank(r)' = Rank(r)
  BY <1>1 DEF Rank, NewestFirst
<1>5. page' \in P /\ PageInv'
  <2>1. ASSUME NEW r \in rows, Rank(r) = page.offset,
               page' = [page EXCEPT !.offset = page.offset + 1, !.got = page.got \cup {r.id}]
        PROVE  page' \in P /\ PageInv'
    <3>1. PICK n \in Nat, got \in SUBSET Nat : n = page.offset + 1 /\ got = page.got \cup {r.id}
      <4>1. r.id \in Nat /\ page.got \subseteq Nat
        BY <1>2, RowFacts
      <4>2. page.offset + 1 \in Nat /\ page.got \cup {r.id} \in SUBSET Nat
        BY <1>2, <4>1
      <4> QED BY <4>2
    <3>2. page' = [page EXCEPT !.offset = n, !.got = got]
      BY <2>1, <3>1
    <3>3. page' \in P /\ page'.pc = "reading" /\ page'.offset = n /\ page'.owed = page.owed /\ page'.got = got
      BY <1>1, <1>2, <3>2
    <3>4. ASSUME NEW s \in rows, s.id \in page.owed \ got PROVE n <= Rank(s)
      <4>1. s # r /\ s.id \in page.owed \ page.got
        BY <3>1, <3>4
      <4>2. Rank(s) # Rank(r) /\ Rank(s) \in Nat
        BY <4>1, RankOrder, RowFacts
      <4> QED BY <1>2, <1>3, <2>1, <3>1, <4>1, <4>2
    <3> QED
      BY <1>1, <1>2, <1>4, <3>3, <3>4 DEF PageInv, Stored
  <2>2. ASSUME Cardinality(rows) <= page.offset,
               page' = [page EXCEPT !.pc = "end", !.owed = page.owed \cap Ids]
        PROVE  page' \in P /\ PageInv'
    <3>1. PICK owed \in SUBSET Nat : owed = page.owed \cap Ids
      BY <1>2
    <3>2. page' = [page EXCEPT !.pc = "end", !.owed = owed]
      BY <2>2, <3>1
    <3>3. page' \in P /\ page'.pc = "end" /\ page'.owed = owed /\ page'.got = page.got
      BY <1>2, <3>2
    <3>4. ASSUME NEW i \in owed, i \notin page.got PROVE FALSE
      <4>1. PICK r \in rows : r.id = i
        BY <3>1 DEF Ids
      <4>2. page.offset <= Rank(r)
        BY <1>3, <3>1, <3>4, <4>1
      <4>3. Rank(r) < Cardinality(rows) /\ Rank(r) \in Nat
        BY RankBound, RowFacts
      <4>4. Cardinality(rows) \in Nat
        BY FS_CardinalityType DEF IInv, RowsInv
      <4> QED BY <1>2, <2>2, <4>2, <4>3, <4>4
    <3>5. owed \subseteq Stored'
      BY <1>1, <1>2, <3>1 DEF Stored
    <3> QED
      BY <3>3, <3>4, <3>5 DEF PageInv
  <2> QED
    BY <2>1, <2>2 DEF QueryPage
<1>6. TypeOK'
  BY <1>1, <1>5, Typed DEF TypeOK
<1>7. Len(kept') = messages_stored' + (IF job'.state = "ok" THEN 1 ELSE 0)
  BY <1>1 DEF IInv, CountersAgree
<1> QED
  BY <1>1, <1>5, <1>6, <1>7, QuietStep, PostKept, PersistKept, RowsKept

-----------------------------------------------------------------------------
(* The insert's other ends, the HTTP POST task and the shutdown *)

LEMMA JobFailsStep == ASSUME IInv, JobFails PROVE IInv'
<1> DEFINE x == job.index
<1>1. /\ job.state = "queued" /\ failed' = failed \cup {x} /\ job' = [job EXCEPT !.state = "failed"]
      /\ UNCHANGED <<forwarded, seen, forgotten, published, unheard, rows, kept, events_total,
                     events_deduplicated, persist, lagged, messages_stored, post, posted, now, page, down>>
  BY DEF JobFails, filter, bus, counters, posts
<1>2. /\ x \in Nat /\ job'.state = "failed"
      /\ job' \in [state : {"none", "queued", "ok", "failed"}, index : Nat]
  BY <1>1, Typed DEF TypeOK
<1>3. Queued = {x} /\ Queued' = {} /\ Stored' = Stored /\ Increasing(kept')
  BY <1>1, <1>2 DEF Queued, Stored, IInv, PersistInv, Increasing
<1> HIDE DEF x
<1>4. /\ Stored' \cup failed' \cup lagged' \cup Queued' = Stored \cup failed \cup lagged \cup Queued
      /\ Stored' \cap failed' = {} /\ Stored' \cap lagged' = {} /\ failed' \cap lagged' = {}
  BY <1>1, <1>3 DEF IInv, PersistInv
<1>5. PersistInv'
  <2>1. persist.pc # "off"
    BY <1>1, Typed DEF TypeOK
  <2> QED BY <1>1, <1>3, <1>4, <2>1 DEF IInv, PersistInv
<1>6. TypeOK'
  <2>1. failed' \subseteq Nat
    BY <1>1, <1>2, Typed DEF TypeOK
  <2> QED BY <1>1, <1>2, <2>1, Typed DEF TypeOK
<1>7. Len(kept') = messages_stored' + (IF job'.state = "ok" THEN 1 ELSE 0)
  BY <1>1, <1>2 DEF IInv, CountersAgree
<1> QED
  BY <1>1, <1>5, <1>6, <1>7, QuietStep, PostKept, RowsKept, PageKept

LEMMA PersistResumeStep == ASSUME IInv, PersistResume PROVE IInv'
<1>1. /\ persist.pc = "inserting" /\ job.state \in {"ok", "failed"} /\ job' = NoJob
      /\ messages_stored' = messages_stored + (IF job.state = "ok" THEN 1 ELSE 0)
      /\ persist' = [persist EXCEPT !.pc = "receiving"]
      /\ UNCHANGED <<forwarded, seen, forgotten, published, unheard, rows, kept, failed, events_total,
                     events_deduplicated, lagged, post, posted, now, page, down>>
  BY DEF PersistResume, filter, bus, store, counters, posts
<1>2. /\ persist'.pc = "receiving" /\ persist'.first = persist.first /\ persist'.next = persist.next
      /\ persist' \in [pc : {"off", "receiving", "inserting", "aborted"}, first : Nat \ {0},
                       next : Nat \ {0}]
  BY <1>1, Typed DEF TypeOK
<1>3. job'.state = "none" /\ job' \in [state : {"none", "queued", "ok", "failed"}, index : Nat]
  BY <1>1 DEF NoJob
<1>4. Queued = {} /\ Queued' = {} /\ Stored' = Stored /\ Increasing(kept')
  BY <1>1, <1>3 DEF Queued, Stored, IInv, PersistInv, Increasing
<1>5. PersistInv'
  BY <1>1, <1>2, <1>4 DEF IInv, PersistInv
<1>6. /\ messages_stored \in Nat /\ messages_stored' \in Nat
      /\ Len(kept') = messages_stored' + (IF job'.state = "ok" THEN 1 ELSE 0)
  <2>1. messages_stored \in Nat /\ Len(kept) = messages_stored + (IF job.state = "ok" THEN 1 ELSE 0)
    BY DEF IInv, TypeOK, CountersAgree
  <2> QED BY <1>1, <1>3, <2>1
<1>7. TypeOK'
  BY <1>1, <1>2, <1>3, <1>6, Typed DEF TypeOK
<1> QED
  BY <1>1, <1>5, <1>6, <1>7, QuietStep, PostKept, RowsKept, PageKept

LEMMA PostStep == ASSUME IInv, StartPost \/ PostLag \/ PostSend \/ PostDone PROVE IInv'
<1>1. UNCHANGED <<forwarded, seen, forgotten, published, unheard, rows, kept, failed, events_total,
                  events_deduplicated, persist, job, lagged, messages_stored, now, page, down>>
  BY DEF StartPost, PostLag, PostSend, PostDone, filter, bus, store, counters, persists
<1>2. /\ post \in [pc : {"off", "receiving", "sending", "aborted"}, next : Nat \ {0}]
      /\ posted \in Seq(Nat) /\ Len(posted) \in Nat /\ DOMAIN posted = 1..Len(posted)
      /\ Len(published) \in Nat
  BY StoreFacts, Typed DEF TypeOK
<1>3. \A k \in DOMAIN posted : posted[k] \in Nat /\ posted[k] < post.next
  BY <1>2 DEF IInv, PostInv
<1>4. /\ post' \in [pc : {"off", "receiving", "sending", "aborted"}, next : Nat \ {0}]
      /\ posted' \in Seq(Nat) /\ PostInv'
  <2>1. ASSUME NEW n \in Nat \ {0}, post'.next = n, post'.pc \in {"receiving", "sending"},
               post' = [pc |-> post'.pc, next |-> n], post.next <= n \/ posted = <<>>,
               posted' = posted
        PROVE  /\ post' \in [pc : {"off", "receiving", "sending", "aborted"}, next : Nat \ {0}]
               /\ posted' \in Seq(Nat) /\ PostInv'
    <3>1. \A k \in DOMAIN posted : posted[k] < n
      BY <1>2, <1>3, <2>1
    <3>2. post' \in [pc : {"off", "receiving", "sending", "aborted"}, next : Nat \ {0}]
      BY <2>1
    <3> QED BY <1>2, <2>1, <3>1, <3>2 DEF IInv, PostInv, Increasing
  <2>2. CASE StartPost
    <3>1. post' = [pc |-> "receiving", next |-> Len(published) + 1] /\ posted' = posted /\ post.pc = "off"
      BY <2>2 DEF StartPost
    <3>2. posted = <<>> /\ Len(published) + 1 \in Nat \ {0}
      BY <1>2, <3>1 DEF IInv, PostInv
    <3> QED BY <2>1, <3>1, <3>2
  <2>3. CASE PostLag
    <3>1. /\ post.pc = "receiving" /\ post.next < Oldest /\ posted' = posted
          /\ post' = [post EXCEPT !.next = Oldest]
      BY <2>3 DEF PostLag
    <3>2. PICK n \in Nat \ {0} : n = Oldest
      BY OldestFacts
    <3>3. post' = [pc |-> "receiving", next |-> n]
      BY <1>2, <3>1, <3>2
    <3>4. post.next <= n
      BY <1>2, <3>1, <3>2
    <3>5. post'.next = n /\ post'.pc = "receiving" /\ post' = [pc |-> post'.pc, next |-> n]
      BY <3>3
    <3> QED BY <2>1, <3>1, <3>4, <3>5
  <2>4. CASE PostDone
    <3>1. post' = [pc |-> "receiving", next |-> post.next] /\ posted' = posted
      BY <1>2, <2>4 DEF PostDone, filter
    <3> QED BY <1>2, <2>1, <3>1
  <2>5. CASE PostSend
    <3>1. PICK n \in Nat \ {0} : n = post.next
      BY <1>2
    <3>2. posted' = Append(posted, n) /\ post' = [pc |-> "sending", next |-> n + 1]
      BY <2>5, <3>1 DEF PostSend
    <3>3. /\ posted' \in Seq(Nat) /\ Len(posted') = Len(posted) + 1
          /\ \A i \in 1..Len(posted) : posted'[i] = posted[i]
          /\ posted'[Len(posted) + 1] = n
      BY <1>2, <3>1, <3>2, AppendProperties
    <3>4. DOMAIN posted' = 1..(Len(posted) + 1)
      BY <3>3
    <3>5. /\ post'.next = n + 1 /\ post'.pc = "sending" /\ n + 1 \in Nat \ {0}
          /\ post' \in [pc : {"off", "receiving", "sending", "aborted"}, next : Nat \ {0}]
      BY <3>2
    <3>6. \A k \in DOMAIN posted' : posted'[k] < post'.next
      <4> SUFFICES ASSUME NEW k \in 1..(Len(posted) + 1) PROVE posted'[k] < n + 1
        BY <3>4, <3>5
      <4>1. CASE k \in 1..Len(posted)
        <5>1. posted'[k] = posted[k] /\ posted[k] \in Nat /\ posted[k] < n
          BY <1>2, <1>3, <3>1, <3>3, <4>1
        <5> QED BY <5>1
      <4>2. CASE k = Len(posted) + 1
        BY <3>3, <4>2
      <4>3. k \in 1..Len(posted) \/ k = Len(posted) + 1
        BY <1>2
      <4> QED BY <4>1, <4>2, <4>3
    <3>7. \A i, j \in 1..Len(posted) : i < j => posted[i] < posted[j]
      BY <1>2 DEF IInv, PostInv, Increasing
    <3>8. Increasing(posted')
      <4> SUFFICES ASSUME NEW i \in 1..(Len(posted) + 1), NEW j \in 1..(Len(posted) + 1), i < j
                   PROVE  posted'[i] < posted'[j]
        BY <3>4 DEF Increasing
      <4>1. CASE j \in 1..Len(posted)
        <5>1. i \in 1..Len(posted)
          BY <1>2, <4>1
        <5>2. posted'[i] = posted[i] /\ posted'[j] = posted[j]
          BY <3>3, <4>1, <5>1
        <5> QED BY <3>7, <4>1, <5>1, <5>2
      <4>2. CASE j = Len(posted) + 1
        <5>1. i \in 1..Len(posted)
          BY <1>2, <4>2
        <5>2. posted'[i] = posted[i] /\ posted[i] \in Nat /\ posted[i] < n
          BY <1>2, <1>3, <3>1, <3>3, <5>1
        <5>3. posted'[j] = n
          BY <3>3, <4>2
        <5> QED BY <5>2, <5>3
      <4> QED BY <1>2, <4>1, <4>2
    <3> QED BY <3>3, <3>5, <3>6, <3>8 DEF PostInv
  <2> QED BY <2>2, <2>3, <2>4, <2>5
<1>5. TypeOK'
  BY <1>1, <1>4, Typed DEF TypeOK
<1>6. Len(kept') = messages_stored' + (IF job'.state = "ok" THEN 1 ELSE 0)
  BY <1>1 DEF IInv, CountersAgree
<1> QED
  BY <1>1, <1>4, <1>5, <1>6, QuietStep, PersistKept, RowsKept, PageKept

LEMMA StopStep == ASSUME IInv, StopServer \/ StopForwarding \/ AbortPersist PROVE IInv'
<1>1. UNCHANGED <<forwarded, seen, forgotten, published, unheard, rows, kept, failed, events_total,
                  events_deduplicated, job, lagged, messages_stored, posted, now, page>>
  BY DEF StopServer, StopForwarding, AbortPersist, filter, bus, store, counters, persists, posts
<1>2. /\ post \in [pc : {"off", "receiving", "sending", "aborted"}, next : Nat \ {0}]
      /\ persist \in [pc : {"off", "receiving", "inserting", "aborted"}, first : Nat \ {0},
                      next : Nat \ {0}]
  BY Typed DEF TypeOK
<1>3. /\ post' \in [pc : {"off", "receiving", "sending", "aborted"}, next : Nat \ {0}]
      /\ post'.next = post.next /\ (post'.pc = "off" <=> post.pc = "off")
  <2>1. post' = post \/ post' = Aborted(post)
    BY DEF StopServer, StopForwarding, AbortPersist, posts
  <2> QED BY <1>2, <2>1 DEF Aborted
<1>4. /\ persist' \in [pc : {"off", "receiving", "inserting", "aborted"}, first : Nat \ {0},
                       next : Nat \ {0}]
      /\ persist'.next = persist.next /\ persist'.first = persist.first
      /\ (persist'.pc = "off" <=> persist.pc = "off")
      /\ persist'.pc \in {persist.pc, "aborted"}
  <2>1. persist' = persist \/ persist' = Aborted(persist)
    BY DEF StopServer, StopForwarding, AbortPersist, persists
  <2> QED BY <1>2, <2>1 DEF Aborted
<1>5. down' \in {"no", "server", "adapters", "all"}
  BY DEF StopServer, StopForwarding, AbortPersist
<1>6. TypeOK'
  BY <1>1, <1>3, <1>4, <1>5, Typed DEF TypeOK
<1>7. PersistInv'
  BY <1>1, <1>4 DEF IInv, PersistInv, Queued, Stored, Increasing
<1>8. PostInv'
  BY <1>1, <1>3 DEF IInv, PostInv, Increasing
<1>9. Len(kept') = messages_stored' + (IF job'.state = "ok" THEN 1 ELSE 0)
  BY <1>1 DEF IInv, CountersAgree
<1> QED
  BY <1>1, <1>6, <1>7, <1>8, <1>9, QuietStep, RowsKept, PageKept

-----------------------------------------------------------------------------
(* The theorems *)

LEMMA NextIInv == ASSUME IInv, [Next]_vars PROVE IInv'
<1>1. CASE UNCHANGED vars
  <2>1. UNCHANGED <<forwarded, seen, forgotten, published, unheard, rows, kept, failed, events_total,
                    events_deduplicated, persist, job, lagged, messages_stored, post, posted, now, page,
                    down>>
    BY <1>1 DEF vars, filter, bus, store, counters, persists, posts
  <2>2. TypeOK'
    BY <2>1, TypesKept
  <2>3. Len(kept') = messages_stored' + (IF job'.state = "ok" THEN 1 ELSE 0)
    BY <2>1 DEF IInv, CountersAgree
  <2> QED BY <2>1, <2>2, <2>3, QuietStep, PersistKept, PostKept, RowsKept, PageKept
<1>2. CASE Next
  BY <1>2, TickStep, ForgetStep, ForwardStep, StartPersistStep, PersistLagStep, PersistReceivesStep,
     PersistResumeStep, JobInsertsStep, JobFailsStep, PostStep, CleanupStep, StartPagingStep,
     QueryPageStep, StopStep DEF Next, PersistStep, Job
<1> QED
  BY <1>1, <1>2

LEMMA InductiveInvariant == Spec => []IInv
BY InitIInv, NextIInv, PTL DEF Spec

\* Whatever lags, fails or is forgotten: the store and the HTTP target get the
\* events in the order of the bus and none twice, and one event is stored twice
\* only if the filter had forgotten it (forward.rs, runtime.rs:240-274).
THEOREM OrderCorrect == Spec => []OnceInOrder
<1>1. IInv => OnceInOrder
  BY StoreFacts DEF IInv, PersistInv, PostInv, BusInv, OnceInOrder
<1> QED
  BY <1>1, InductiveInvariant, PTL

\* Every message since the subscription has exactly one fate, and the counters
\* agree with the bus and with the store (runtime.rs:240-274, stats.rs).
THEOREM AccountingCorrect == Spec => []MessagesAccounted
<1>1. IInv => MessagesAccounted
  <2> SUFFICES ASSUME IInv, NEW i \in Indices, published[i] \in Messages, i >= persist.first,
                      persist.pc # "off"
               PROVE  \E f \in DOMAIN Fates : \A g \in DOMAIN Fates : i \in Fates[g] <=> g = f
    BY DEF IInv, MessagesAccounted
  <2> DEFINE unread == persist.next..Len(published)
  <2>1. /\ DOMAIN Fates = 1..5 /\ Fates[1] = Stored /\ Fates[2] = failed /\ Fates[3] = lagged
        /\ Fates[4] = unread /\ Fates[5] = Queued
    BY DEF Fates, Queued
  <2>2. /\ i \in 1..Len(published) /\ Len(published) \in Nat /\ persist.first \in Nat \ {0}
        /\ persist.next \in Nat \ {0}
    BY StoreFacts
  <2>3. /\ Stored \cap failed = {} /\ Stored \cap lagged = {} /\ failed \cap lagged = {}
        /\ Queued \cap (Stored \cup failed \cup lagged) = {}
    BY DEF IInv, PersistInv
  <2>4. i \in Stored \cup failed \cup lagged \cup Queued => i \notin unread
    BY <2>2 DEF IInv, PersistInv
  <2>5. i \in Stored \cup failed \cup lagged \cup Queued \cup unread
    BY <2>2 DEF IInv, PersistInv
  <2> HIDE DEF unread
  <2>6. ASSUME NEW f \in 1..5, i \in Fates[f] PROVE \A g \in 1..5 : i \in Fates[g] <=> g = f
    BY <2>1, <2>3, <2>4, <2>6
  <2>7. \E f \in 1..5 : i \in Fates[f]
    BY <2>1, <2>5
  <2> QED
    BY <2>1, <2>6, <2>7
<1> QED
  BY <1>1, InductiveInvariant, PTL

\* Rows that come and rows that are cleaned up between two pages hide none of
\* the others from a client (MessageStore::query).
THEOREM PagingCorrect == Spec => []PagingSkipsNothing
<1>1. IInv => PagingSkipsNothing
  BY DEF IInv, PageInv, PagingSkipsNothing
<1> QED
  BY <1>1, InductiveInvariant, PTL

\* The comparison of times as texts deletes nothing younger than max_days, and
\* leaves nothing a day older (MessageStore::cleanup).
THEOREM RetentionCorrect == Spec => RetentionKept
<1>1. IInv => TypeOK
  BY DEF IInv
<1>2. TypeOK /\ [Next]_vars =>
        [/\ \A r \in rows \ rows' : now - TimeOf[r.event] > MaxDays * PartsPerDay
         /\ Cleanup => \A r \in rows' : now - TimeOf[r.event] < (MaxDays + 1) * PartsPerDay]_vars
  BY RetentionStep
<1> QED
  BY <1>1, <1>2, InductiveInvariant, PTL DEF Spec, RetentionKept

=============================================================================
