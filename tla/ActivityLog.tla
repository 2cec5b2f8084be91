------------------------------ MODULE ActivityLog ------------------------------
(***************************************************************************)
(* The activity log: a list per day and kind of activity, kept in memory   *)
(* and queued for its file at every change, the signatures that keep a     *)
(* state from being recorded twice, and a page that reads the log from its *)
(* newest entry to its oldest.                                             *)
(*                                                                         *)
(* The clock moves on with every stamp, so no two events share one.  Each  *)
(* kind belongs to one device; names, icons and categories are left out.   *)
(***************************************************************************)
EXTENDS Naturals, FiniteSets, SequencesExt

CONSTANTS StateKinds,   \* recorded by record_state_change
          EventKinds,   \* recorded by record_event
          Initial,      \* kinds recorded with record_initial
          States, Threads, Readers, None,
          Buckets,      \* number of ACTIVITY_BUCKETS
          BucketTime,   \* BUCKET_SECONDS
          Limit,        \* limit of a page
          MaxWait,      \* how long an event waits for the lock, far less than a bucket
          MaxTime, MaxCrashes  \* bounds

VARIABLES
  now,
  events,     \* the lists of each bucket, newest first
  signature,  \* last_signatures
  queued,     \* the snapshot that waits for the writer, None if there is none
  disk,       \* activity_state.json
  stamped,    \* the event each thread has stamped and not yet appended
  page,       \* what each page has read
  overtaken,  \* history: events an older one of their kind was put ahead of
  crashes

vars == <<now, events, signature, queued, disk, stamped, page, overtaken, crashes>>

Kinds == StateKinds \cup EventKinds
Days == 0 .. Buckets - 1
Event == [kind : Kinds, ts : 1 .. MaxTime, state : States \cup {None}]
Retention == Buckets * BucketTime
Lists == [Days -> [Kinds -> Seq(Event)]]
Snapshot(es, sig) == [events |-> es, signature |-> sig]
Contents(es) == UNION {ToSet(es[d][k]) : d \in Days, k \in Kinds}
Expired(e, t) == t - e.ts >= Retention

TypeOK ==
  /\ now \in 0 .. MaxTime /\ events \in Lists
  /\ signature \in [StateKinds -> States \cup {None}]
  /\ \A d \in Days, k \in Kinds : \A e \in ToSet(events[d][k]) : e.kind = k
  /\ disk.events \in Lists /\ (queued # None => queued.events \in Lists)
  /\ stamped \in [Threads -> Event \cup {None}]
  /\ page \in [Readers -> [open : BOOLEAN, more : BOOLEAN,
                           shown : SUBSET Event, begun : SUBSET Event]]
  /\ crashes \in 0 .. MaxCrashes

NoEvents == [d \in Days |-> [k \in Kinds |-> <<>>]]
Closed == [open |-> FALSE, more |-> FALSE, shown |-> {}, begun |-> {}]
Empty == Snapshot(NoEvents, [k \in StateKinds |-> None])

Init ==
  /\ now = 0 /\ events = NoEvents /\ signature = Empty.signature
  /\ queued = None /\ disk = Empty
  /\ stamped = [t \in Threads |-> None] /\ page = [r \in Readers |-> Closed]
  /\ overtaken = {} /\ crashes = 0

-----------------------------------------------------------------------------
(* The lists.                                                              *)

Bucket(age) == age \div BucketTime

\* Whether an event stamped at ts belongs to bucket d at time t.
In(d, ts, t) == Bucket(t - ts) = d

\* _stored_event_records: the events of a kind, bucket after bucket.
Records(es, k) == FlattenSeq([d \in 1 .. Buckets |-> es[d - 1][k]])
Group(es, t) ==
  [d \in Days |-> [k \in Kinds |-> SelectSeq(Records(es, k), LAMBDA e : In(d, e.ts, t))]]
NewerFirst(e, f) == e.ts > f.ts
GroupSorted(es, t) ==
  LET g == Group(es, t) IN [d \in Days |-> [k \in Kinds |-> SortSeq(g[d][k], NewerFirst)]]

AppendEvent(es, e, t) ==
  [d \in Days |-> [k \in Kinds |->
    IF k = e.kind /\ In(d, e.ts, t) THEN <<e>> \o es[d][k] ELSE es[d][k]]]

\* _save_locked: the lists are regrouped and the snapshot queued.
Save(es, sig, t) ==
  /\ events' = Group(es, t) /\ signature' = sig
  /\ queued' = Snapshot(Group(es, t), sig)

-----------------------------------------------------------------------------
(* Recording.                                                              *)

\* The clock, while no event waits longer than it may for the lock.
Advance ==
  /\ now < MaxTime /\ now' = now + 1
  /\ \A t \in Threads : stamped[t] # None => now' - stamped[t].ts <= MaxWait

\* record_state_change: stamped and appended under the lock.
RecordStateChange(k, s) ==
  /\ signature[k] # s /\ Advance
  /\ LET seen == [signature EXCEPT ![k] = s]
         e == [kind |-> k, ts |-> now', state |-> s]
     IN  IF signature[k] = None /\ k \notin Initial
         THEN Save(events, seen, now')
         ELSE Save(AppendEvent(events, e, now'), seen, now')
  /\ UNCHANGED <<disk, stamped, page, overtaken, crashes>>

\* Called for the motions and presses only, which are recorded with
\* record_initial.
ResetStateSignature(k) ==
  /\ k \in Initial /\ signature[k] # None
  /\ Save(events, [signature EXCEPT ![k] = None], now)
  /\ UNCHANGED <<now, disk, stamped, page, overtaken, crashes>>

\* record_event takes the time before it takes the lock.
Stamp(t, k) ==
  /\ stamped[t] = None /\ Advance
  /\ stamped' = [stamped EXCEPT ![t] = [kind |-> k, ts |-> now', state |-> None]]
  /\ UNCHANGED <<events, signature, queued, disk, page, overtaken, crashes>>

RecordEvent(t) ==
  /\ stamped[t] # None
  /\ Save(AppendEvent(events, stamped[t], now), signature, now)
  /\ stamped' = [stamped EXCEPT ![t] = None]
  /\ overtaken' = overtaken \cup
       {e \in Contents(events) : e.kind = stamped[t].kind /\ e.ts > stamped[t].ts}
  /\ UNCHANGED <<now, disk, page, crashes>>

Wait == /\ Advance
        /\ UNCHANGED <<events, signature, queued, disk, stamped, page, overtaken, crashes>>

\* The writer's flush.
Flush == /\ queued # None /\ disk' = queued /\ queued' = None
         /\ UNCHANGED <<now, events, signature, stamped, page, overtaken, crashes>>

\* _load_locked sorts what it reads; the constructor saves it at once.
Load(snapshot, t) == GroupSorted(snapshot.events, t)
Crash ==
  /\ crashes < MaxCrashes /\ crashes' = crashes + 1
  /\ Save(Load(disk, now), disk.signature, now)
  /\ stamped' = [t \in Threads |-> None]
  /\ UNCHANGED <<now, disk, page, overtaken>>

-----------------------------------------------------------------------------
(* Reading.                                                                *)

\* _event_stream stops at the first event that is too old.
Stream(items, before) ==
  LET old == {i \in DOMAIN items : Expired(items[i], now)}
      upTo == IF old = {} THEN Len(items) ELSE CHOOSE i \in 0 .. Len(items) - 1 :
                i + 1 \in old /\ \A j \in old : i < j
  IN  SelectSeq(SubSeq(items, 1, upTo), LAMBDA e : before = None \/ e.ts < before)

\* heapq.merge takes the newest head again and again.
RECURSIVE Merge(_, _)
Merge(streams, n) ==
  LET full == {x \in DOMAIN streams : streams[x] # <<>>}
  IN  IF n = 0 \/ full = {} THEN <<>>
      ELSE LET x == CHOOSE x \in full : \A y \in full : streams[x][1].ts >= streams[y][1].ts
           IN  <<streams[x][1]>> \o Merge([streams EXCEPT ![x] = SubSeq(@, 2, Len(@))], n - 1)

RecentPage(before) ==
  LET records == Merge([x \in Days \X Kinds |-> Stream(events[x[1]][x[2]], before)], Limit + 1)
  IN  [items |-> ToSet(SubSeq(records, 1, IF Len(records) > Limit THEN Limit ELSE Len(records))),
       more |-> Len(records) > Limit]

Oldest(items) == CHOOSE ts \in {e.ts : e \in items} : \A e \in items : ts <= e.ts

Open(r) ==
  /\ ~ page[r].open
  /\ LET answer == RecentPage(None)
     IN  page' = [page EXCEPT ![r] = [open |-> TRUE, more |-> answer.more, shown |-> answer.items,
                  begun |-> {e \in Contents(events) : ~ Expired(e, now)}]]
  /\ UNCHANGED <<now, events, signature, queued, disk, stamped, overtaken, crashes>>

\* loadOlderActivity
LoadOlder(r) ==
  /\ page[r].more
  /\ LET answer == RecentPage(Oldest(page[r].shown))
     IN  page' = [page EXCEPT ![r].more = answer.more, ![r].shown = @ \cup answer.items]
  /\ UNCHANGED <<now, events, signature, queued, disk, stamped, overtaken, crashes>>

\* The poll of an open page merges the newest page and keeps has_more.
Poll(r) ==
  /\ page[r].open
  /\ page' = [page EXCEPT ![r].shown = @ \cup RecentPage(None).items]
  /\ UNCHANGED <<now, events, signature, queued, disk, stamped, overtaken, crashes>>

Next ==
  \/ \E k \in StateKinds : (\E s \in States : RecordStateChange(k, s)) \/ ResetStateSignature(k)
  \/ \E t \in Threads : RecordEvent(t) \/ \E k \in EventKinds : Stamp(t, k)
  \/ Wait \/ Flush \/ Crash
  \/ \E r \in Readers : Open(r) \/ LoadOlder(r) \/ Poll(r)

Spec == Init /\ [][Next]_vars

-----------------------------------------------------------------------------
(* An event stays in memory, and once in the file in the file, until it is *)
(* older than the retention, whatever is recorded, regrouped or restarted  *)
(* in between; a crash takes only what had not been written.               *)
Kept ==
  /\ \A e \in Contents(events) :
       \/ e \in Contents(events') \/ Expired(e, now')
       \/ crashes' # crashes /\ e \notin Contents(disk.events)
  /\ \A e \in Contents(disk.events) : e \in Contents(disk'.events) \/ Expired(e, now')

(* What is written of the signatures goes with the events: neither a crash *)
(* nor a regrouping lets a state be recorded twice in a row.               *)
Newest(es, k) ==
  CHOOSE e \in {e \in Contents(es) : e.kind = k} :
    \A f \in Contents(es) : f.kind = k => f.ts <= e.ts
NoRepeat ==
  \A e \in Contents(events') \ Contents(events) :
    \/ e.kind \in EventKinds \/ crashes' # crashes
    \/ signature[e.kind] = None
    \/ ~ \E f \in Contents(events) : f.kind = e.kind
    \/ Newest(events, e.kind).state # e.state

(* A page read to its end has shown every event that was in the log when   *)
(* it was opened, but for those that expired or were lost in a crash       *)
(* meanwhile and those an older event of their kind was put ahead of.      *)
PagesComplete ==
  \A r \in Readers : page[r].open /\ ~ page[r].more =>
    \A e \in page[r].begun :
      e \in page[r].shown \/ Expired(e, now) \/ e \notin Contents(events) \/ e \in overtaken
=============================================================================
