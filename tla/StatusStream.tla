----------------------------- MODULE StatusStream -----------------------------
(***************************************************************************)
(* The status stream of the dashboard: request handlers that change the    *)
(* state and broadcast it, and streams that hold one of a few slots, read  *)
(* a queue of one payload and check their session before they send.        *)
(*                                                                         *)
(* A payload is the number of the state it was built from.                 *)
(***************************************************************************)
EXTENDS Naturals, FiniteSets

CONSTANTS Streams, Writers,
          Limit,       \* KOTIBOT_STATUS_STREAM_LIMIT
          None,
          MaxVersion   \* bound

VARIABLES
  version,    \* the state
  lock,       \* the writer that holds STATE_LOCK through its broadcast
  writer,     \* step, payload and remaining listeners of each writer
  listeners, queue,
  free,       \* slots of the semaphore
  lease,      \* streams whose slot has not been released
  step, hand, \* step of each stream, and the payload it is about to send
  shown,      \* the last payload sent
  first,      \* history: the payload of the snapshot that a stream began with
  revoked,    \* the state at which the session was revoked, None before
  gone,       \* streams whose page has left
  overtaken   \* history: payloads that were still being delivered when a newer
              \* one was built

vars == <<version, lock, writer, listeners, queue, free, lease, step, hand, shown, first, revoked, gone, overtaken>>
writing == <<version, lock, writer, overtaken>>
page == <<shown, first, revoked, gone>>

Version == 0 .. MaxVersion
Steps == {"none", "admitted", "registered", "snapshot", "got", "send", "loop", "waiting",
          "closing", "done"}
Idle == [step |-> "idle", payload |-> 0, todo |-> {}, at |-> None]

TypeOK ==
  /\ version \in Version /\ lock \in Writers \cup {None}
  /\ \A w \in Writers : writer[w].step \in {"idle", "changed", "listed", "put", "evict", "again"}
  /\ queue \in [Streams -> Version \cup {None}] /\ listeners \subseteq Streams
  /\ step \in [Streams -> Steps] /\ shown \in [Streams -> Version \cup {None}]
  /\ free + Cardinality(lease) = Limit /\ overtaken \subseteq Version

Init ==
  /\ version = 0 /\ lock = None /\ writer = [w \in Writers |-> Idle]
  /\ listeners = {} /\ queue = [s \in Streams |-> None]
  /\ free = Limit /\ lease = {}
  /\ step = [s \in Streams |-> "none"] /\ hand = [s \in Streams |-> None]
  /\ shown = [s \in Streams |-> None] /\ first = [s \in Streams |-> 0] /\ revoked = [s \in Streams |-> None] /\ gone = {}
  /\ overtaken = {}

-----------------------------------------------------------------------------
(* A handler changes the state and calls broadcast_state.                  *)

Streaming == UNCHANGED <<listeners, free, lease, step, hand, page>>
Goto(w, s) == writer' = [writer EXCEPT ![w].step = s]
Return(w) ==
  /\ writer' = [writer EXCEPT ![w] = Idle]
  /\ lock' = IF lock = w THEN None ELSE lock

\* Some handlers hold STATE_LOCK through their broadcast, others let go of it.
Change(w) ==
  /\ writer[w].step = "idle" /\ lock = None /\ version < MaxVersion
  /\ version' = version + 1 /\ Goto(w, "changed")
  /\ lock' \in {w, None}
  /\ UNCHANGED <<queue, overtaken>> /\ Streaming

Listen(w) ==
  /\ writer[w].step = "changed"
  /\ IF listeners = {} THEN Return(w)
     ELSE /\ writer' = [writer EXCEPT ![w] = [@ EXCEPT !.step = "listed", !.todo = listeners]]
          /\ UNCHANGED lock
  /\ UNCHANGED <<version, queue, overtaken>> /\ Streaming

Delivering(v) == writer[v].step \in {"put", "evict", "again"}

Build(w) ==
  /\ writer[w].step = "listed" /\ lock \in {None, w}
  /\ writer' = [writer EXCEPT ![w] = [@ EXCEPT !.step = "put", !.payload = version]]
  /\ overtaken' = overtaken \cup
       {writer[v].payload : v \in {u \in Writers : Delivering(u) /\ writer[u].payload < version}}
  /\ UNCHANGED <<version, lock, queue>> /\ Streaming

Served(w, s) == [writer[w] EXCEPT !.step = "put", !.todo = @ \ {s}, !.at = None]
Full(w, s, next) == [writer[w] EXCEPT !.step = next, !.at = s]

\* put_nowait; on Full get_nowait and put_nowait once more, which may find it full again.
Put(w, s) ==
  /\ writer[w].step = "put" /\ s \in writer[w].todo
  /\ IF queue[s] = None
     THEN /\ queue' = [queue EXCEPT ![s] = writer[w].payload]
          /\ writer' = [writer EXCEPT ![w] = Served(w, s)]
     ELSE UNCHANGED queue /\ writer' = [writer EXCEPT ![w] = Full(w, s, "evict")]
  /\ UNCHANGED <<version, lock, overtaken>> /\ Streaming

Evict(w) ==
  /\ writer[w].step = "evict"
  /\ queue' = [queue EXCEPT ![writer[w].at] = None]
  /\ writer' = [writer EXCEPT ![w].step = "again"]
  /\ UNCHANGED <<version, lock, overtaken>> /\ Streaming

PutAgain(w) ==
  /\ writer[w].step = "again"
  /\ LET s == writer[w].at IN
     /\ queue' = IF queue[s] = None THEN [queue EXCEPT ![s] = writer[w].payload] ELSE queue
     /\ writer' = [writer EXCEPT ![w] = Served(w, s)]
  /\ UNCHANGED <<version, lock, overtaken>> /\ Streaming

EndBroadcast(w) ==
  /\ writer[w].step = "put" /\ writer[w].todo = {} /\ Return(w)
  /\ UNCHANGED <<version, queue, overtaken>> /\ Streaming

-----------------------------------------------------------------------------
(* A stream, from its admission to the return of its slot.                 *)

Authorized(s) == revoked[s] = None
Move(s, next) == step' = [step EXCEPT ![s] = next]

Admit(s) ==
  /\ step[s] = "none" /\ Authorized(s) /\ free > 0
  /\ free' = free - 1 /\ lease' = lease \cup {s} /\ Move(s, "admitted")
  /\ UNCHANGED <<writing, listeners, queue, hand, page>>

Register(s) ==
  /\ step[s] = "admitted"
  /\ listeners' = listeners \cup {s} /\ Move(s, "registered")
  /\ UNCHANGED <<writing, queue, free, lease, hand, page>>

Snapshot(s) ==
  /\ step[s] = "registered" /\ Authorized(s) /\ lock = None
  /\ hand' = [hand EXCEPT ![s] = version] /\ Move(s, "snapshot")
  /\ first' = [first EXCEPT ![s] = version]
  /\ UNCHANGED <<writing, listeners, queue, free, lease, shown, revoked, gone>>

Get(s) ==
  /\ step[s] = "waiting" /\ queue[s] # None
  /\ hand' = [hand EXCEPT ![s] = queue[s]] /\ queue' = [queue EXCEPT ![s] = None]
  /\ Move(s, "got")
  /\ UNCHANGED <<writing, listeners, free, lease, page>>

\* The session may be revoked between this check and the payload it lets through.
Check(s) ==
  /\ step[s] \in {"snapshot", "got"} /\ Authorized(s) /\ Move(s, "send")
  /\ UNCHANGED <<writing, listeners, queue, free, lease, hand, page>>

Send(s) ==
  /\ step[s] = "send" /\ s \notin gone
  /\ shown' = [shown EXCEPT ![s] = hand[s]] /\ hand' = [hand EXCEPT ![s] = None]
  /\ Move(s, "loop")
  /\ UNCHANGED <<writing, listeners, queue, free, lease, first, revoked, gone>>

\* Mutant: what came while the page was served is thrown away.
WaitClearing(s) ==
  /\ step[s] = "loop" /\ Authorized(s) /\ Move(s, "waiting")
  /\ queue' = [queue EXCEPT ![s] = None]
  /\ UNCHANGED <<writing, listeners, free, lease, hand, page>>
Wait(s) ==
  /\ step[s] = "loop" /\ Authorized(s) /\ Move(s, "waiting")
  /\ UNCHANGED <<writing, listeners, queue, free, lease, hand, page>>

\* Nothing came for 15 s: the heartbeat that finds a page there.
Heartbeat(s) ==
  /\ step[s] = "waiting" /\ queue[s] = None /\ Authorized(s) /\ s \notin gone
  /\ Move(s, "loop")
  /\ UNCHANGED <<writing, listeners, queue, free, lease, hand, page>>

\* The generator returns at a check that fails, or is closed where it could not send.
Over(s) ==
  \/ step[s] \in {"registered", "snapshot", "got", "loop"} /\ ~Authorized(s)
  \/ step[s] = "waiting" /\ queue[s] = None /\ (~Authorized(s) \/ s \in gone)
  \/ step[s] = "send" /\ s \in gone

Release(s) ==
  /\ free' = IF s \in lease THEN free + 1 ELSE free
  /\ lease' = lease \ {s}

End(s) ==
  /\ Over(s) /\ Release(s)
  /\ listeners' = listeners \ {s} /\ Move(s, "closing")
  /\ hand' = [hand EXCEPT ![s] = None]
  /\ UNCHANGED <<writing, queue, page>>

CloseTwice(s) ==
  /\ \/ step[s] = "closing"
     \/ step[s] = "admitted" /\ s \in gone
  /\ free' = free + 1 /\ lease' = lease \ {s} /\ Move(s, "done")
  /\ UNCHANGED <<writing, listeners, queue, hand, page>>
\* call_on_close: also of a response whose generator never ran.
Close(s) ==
  /\ \/ step[s] = "closing"
     \/ step[s] = "admitted" /\ s \in gone
  /\ Release(s) /\ Move(s, "done")
  /\ UNCHANGED <<writing, listeners, queue, hand, page>>

-----------------------------------------------------------------------------
(* The pages, while their streams are open.                                *)

Open(s) == step[s] \notin {"none", "done"}

Revoke(s) ==
  /\ Open(s) /\ Authorized(s) /\ revoked' = [revoked EXCEPT ![s] = version]
  /\ UNCHANGED <<writing, listeners, queue, free, lease, step, hand, shown, first, gone>>

Leave(s) ==
  /\ Open(s) /\ s \notin gone /\ gone' = gone \cup {s}
  /\ UNCHANGED <<writing, listeners, queue, free, lease, step, hand, shown, first, revoked>>

Broadcast(w) ==
  \/ Listen(w) \/ Build(w) \/ Evict(w) \/ PutAgain(w) \/ EndBroadcast(w)
  \/ \E s \in Streams : Put(w, s)

Stream(s) ==
  \/ Register(s) \/ Snapshot(s) \/ Get(s) \/ Check(s) \/ Send(s) \/ Wait(s)
  \/ Heartbeat(s) \/ End(s) \/ Close(s)

Next ==
  \/ \E w \in Writers : Change(w) \/ Broadcast(w)
  \/ \E s \in Streams : Admit(s) \/ Stream(s) \/ Revoke(s) \/ Leave(s)

Spec == Init /\ [][Next]_vars

\* Threads run; a pool of worker threads serves the streams.
FairSpec ==
  /\ Spec
  /\ \A w \in Writers : WF_vars(Broadcast(w))
  /\ \A s \in Streams : WF_vars(Stream(s)) /\ SF_vars(Snapshot(s)) /\ WF_vars(Admit(s))

-----------------------------------------------------------------------------
\* A page whose session was revoked has been shown nothing that happened afterwards,
\* whichever payload was on its way in a queue, a broadcast or a check.
RevokedSeesNothingNew == \A s \in Streams : ~Authorized(s) /\ shown[s] # None => shown[s] <= revoked[s]

\* When every broadcast has been made, each open stream that has caught up shows the
\* current state, or a payload that a newer one has overtaken: that is put right by
\* the next broadcast that overlaps no other.
Settled ==
  (\A w \in Writers : writer[w].step = "idle") =>
    \A s \in Streams : step[s] = "waiting" /\ queue[s] = None => shown[s] \in {version} \cup overtaken

\* src/kotibot_server.py:956 "Notifies all SSE listeners that the state has changed.":
\* the state that a stream shows in the end is the current one.
ShowsCurrent ==
  (\A w \in Writers : writer[w].step = "idle") =>
    \A s \in Streams : step[s] = "waiting" /\ queue[s] = None => shown[s] = version

\* A page goes back to an older state only with a payload that was overtaken, or
\* that was on its way to the page before its first snapshot was made.
NeverBack ==
  \A s \in Streams : shown'[s] # shown[s] /\ shown[s] # None =>
    \/ shown'[s] > shown[s] \/ shown'[s] \in overtaken
    \/ shown'[s] < first[s]

\* The slot of a stream whose page has left or whose session is over becomes free.
SlotsReturn == \A s \in Streams : (s \in gone \/ ~Authorized(s)) ~> s \notin lease
=============================================================================
