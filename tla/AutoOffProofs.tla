---------------------------- MODULE AutoOffProofs ----------------------------
(***************************************************************************)
(* Proofs about AutoOff for any number of reporters, timers and users and  *)
(* any bounds.  MotionInv relates the queue of the device to what each     *)
(* thread is doing, what is shown to what the device does, and the entry   *)
(* of route_timers to its thread; from it follow the promises of           *)
(* TimersAreTrue.  With one thread of reports LightInv adds that nothing   *)
(* can turn the light off during motion once the thread has looked at it.  *)
(***************************************************************************)
EXTENDS MCAutomations, SequenceTheorems, TLAPS

USE AutoOffAssumption

TimerState == [at : {"done", "pending", "waiting", "sending", "sent", "failed"}, route : Nat]
ReporterState == [at : {"idle", "reported", "matched", "cancelled", "waiting",
                        "sending", "sent"}, active : BOOLEAN, route : Nat]
UserState == [at : {"idle", "waiting", "stored"}, on : BOOLEAN]

\* The threads that stand in the queue, and those that have begun their command.
Queued ==
  {r \in Reporter : reporter[r].at \in {"waiting", "sending", "sent"}}
  \cup {t \in Timer : timer[t].at \in {"waiting", "sending", "sent", "failed"}}
  \cup {u \in User : user[u].at # "idle"}
Holders ==
  {r \in Reporter : reporter[r].at \in {"sending", "sent"}}
  \cup {t \in Timer : timer[t].at \in {"sending", "sent", "failed"}}
  \cup {u \in User : user[u].at = "stored"}

\* Only those who wait for the slot or have it are in the queue, nobody twice,
\* and who has begun is the first.
QueueInv ==
  /\ queue \in Seq(Actor) /\ IsInjective(queue)
  /\ \A i \in DOMAIN queue : queue[i] \in Queued
  /\ \A a \in Holders : First(a)

\* Unless there is a reason, only a command on its way parts what is shown from
\* what the device does.
Sent == \/ \E r \in Reporter : reporter[r].at = "sent"
        \/ \E t \in Timer : timer[t].at = "sent"
ShadowInv ==
  ~drift => /\ \A r \in Reporter : reporter[r].at = "sent" => power
            /\ \A t \in Timer : timer[t].at = "sent" => ~power
            /\ shadow = power \/ Sent

\* The timer in the entry is one that works and was not revoked.
EntryInv == NoDeadTimer /\ current \notin revoked

MotionInv == TypeOK /\ QueueInv /\ ShadowInv /\ EntryInv

\* With one thread of reports.  The thread is about the motion there is now; the
\* automation it found is the present one unless an edit excuses the light.
ReportInv ==
  /\ \A r \in Reporter : reporter[r].at # "idle" => reporter[r].active = motion
  /\ ~excused => /\ IsCurrent(route)
                 /\ \A r \in Reporter : reporter[r].at \notin {"idle", "reported"} =>
                      reporter[r].route = route

\* From the cancellation on no timer is entered during motion, and once the
\* thread has looked at the light none can turn it off any more.
Before == \E r \in Reporter : reporter[r].at \in {"reported", "matched", "cancelled", "waiting"}
LightInv ==
  motion =>
    /\ (\E r \in Reporter : reporter[r].at \in {"cancelled", "waiting"}) => current = None
    /\ ~excused /\ ~Before =>
         /\ ~drift /\ current = None
         /\ \A t \in Timer : timer[t].at \notin {"sending", "sent", "failed"}
         /\ power \/ \E r \in Reporter : reporter[r].at = "sending"

-----------------------------------------------------------------------------
(* Steps of the queue.                                                     *)

\* The first of the queue and the others.
LEMMA QueueFacts ==
  ASSUME QueueInv
  PROVE  /\ Len(queue) \in Nat /\ DOMAIN queue = 1 .. Len(queue)
         /\ \A i \in 1 .. Len(queue) : queue[i] \in Actor
         /\ queue # <<>> => Head(queue) = queue[1] /\ 1 \in DOMAIN queue
         /\ queue = <<>> <=> Len(queue) = 0
BY LenProperties, ElementOfSeq, EmptySeq, HeadTailProperties DEF QueueInv

\* A step that leaves the queue alone, and lets only its first thread begin.
LEMMA QueueStays ==
  ASSUME QueueInv, queue' = queue,
         Queued \subseteq Queued', \A a \in Holders' : a \in Holders \/ First(a)
  PROVE  QueueInv'
<1>1. \A i \in DOMAIN queue' : queue'[i] \in Queued'
  BY QueueFacts DEF QueueInv
<1>2. \A a \in Holders' : First(a)'
  BY DEF QueueInv, First
<1> QED  BY <1>1, <1>2 DEF QueueInv, IsInjective

\* A thread that was not in the queue joins it.
LEMMA QueueGrows ==
  ASSUME QueueInv, NEW b \in Actor, b \notin Queued, Ask(b), b \in Queued',
         Queued \ {b} \subseteq Queued', Holders' \subseteq Holders
  PROVE  QueueInv'
<1> DEFINE n == Len(queue)
<1>1. /\ queue' \in Seq(Actor) /\ Len(queue') = n + 1 /\ n \in Nat
      /\ \A i \in 1 .. n : queue'[i] = queue[i]
      /\ queue'[n + 1] = b
  BY QueueFacts, AppendProperties DEF Ask, QueueInv
<1>2. DOMAIN queue' = 1 .. n + 1
  BY <1>1, LenProperties
<1>3. \A i \in 1 .. n : queue[i] \in Actor /\ queue[i] # b /\ queue[i] \in Queued
  BY QueueFacts DEF QueueInv
<1>4. \A i \in DOMAIN queue' : queue'[i] \in Queued'
  BY <1>1, <1>2, <1>3
<1>5. IsInjective(queue)'
  <2> SUFFICES ASSUME NEW i \in 1 .. n + 1, NEW j \in 1 .. n + 1, queue'[i] = queue'[j]
               PROVE  i = j
    BY <1>2 DEF IsInjective
  <2>1. \A k, l \in 1 .. n : queue[k] = queue[l] => k = l
    BY QueueFacts DEF QueueInv, IsInjective
  <2>2. (i \in 1 .. n \/ i = n + 1) /\ (j \in 1 .. n \/ j = n + 1)
    BY <1>1
  <2> HIDE DEF n
  <2>3. i \in 1 .. n <=> j \in 1 .. n
    BY <1>1, <1>3, <2>2
  <2> QED  BY <1>1, <2>1, <2>2, <2>3
<1>6. \A a \in Holders' : First(a)'
  <2> SUFFICES ASSUME NEW a \in Holders' PROVE First(a)'
    OBVIOUS
  <2>1. First(a)
    BY DEF QueueInv
  <2>2. n # 0 /\ queue[1] = a
    BY <2>1, QueueFacts DEF First
  <2>3. queue' # <<>> /\ Head(queue') = queue'[1]
    BY <1>1, EmptySeq, HeadTailProperties
  <2> QED  BY <1>1, <2>2, <2>3 DEF First
<1> QED  BY <1>1, <1>4, <1>5, <1>6 DEF QueueInv

\* The first thread leaves.
LEMMA QueueShrinks ==
  ASSUME QueueInv, NEW b \in Actor, First(b), Leave, b \notin Holders',
         Queued \ {b} \subseteq Queued', Holders' \subseteq Holders
  PROVE  QueueInv'
<1> DEFINE n == Len(queue)
<1>1. /\ queue # <<>> /\ queue[1] = b /\ n \in Nat \ {0}
  BY QueueFacts DEF First
<1>2. /\ queue' \in Seq(Actor) /\ Len(queue') = n - 1
      /\ \A i \in 1 .. n - 1 : queue'[i] = queue[i + 1]
  BY <1>1, HeadTailProperties DEF Leave, QueueInv
<1>3. DOMAIN queue' = 1 .. n - 1
  BY <1>2, LenProperties
<1>4. \A k, l \in 1 .. n : queue[k] = queue[l] => k = l
  BY QueueFacts DEF QueueInv, IsInjective
<1>5. \A i \in 1 .. n - 1 : queue[i + 1] \in Actor \ {b} /\ queue[i + 1] \in Queued
  <2> SUFFICES ASSUME NEW i \in 1 .. n - 1
               PROVE  queue[i + 1] \in Actor \ {b} /\ queue[i + 1] \in Queued
    OBVIOUS
  <2>1. i + 1 \in 1 .. n /\ 1 \in 1 .. n /\ i + 1 # 1
    BY <1>1
  <2> QED  BY <2>1, <1>1, <1>4, QueueFacts DEF QueueInv
<1>6. \A i \in DOMAIN queue' : queue'[i] \in Queued'
  BY <1>2, <1>3, <1>5
<1>7. IsInjective(queue)'
  <2> SUFFICES ASSUME NEW i \in 1 .. n - 1, NEW j \in 1 .. n - 1, queue'[i] = queue'[j]
               PROVE  i = j
    BY <1>3 DEF IsInjective
  <2>1. i + 1 \in 1 .. n /\ j + 1 \in 1 .. n /\ queue[i + 1] = queue[j + 1]
    BY SMTT(30), <1>1, <1>2
  <2>2. i + 1 = j + 1
    BY <2>1, <1>4
  <2> QED  BY <2>2
<1>8. Holders' = {}
  BY DEF QueueInv, First
<1> QED  BY <1>2, <1>6, <1>7, <1>8 DEF QueueInv

\* A thread behind the first gives up.
LEMMA QueueLoses ==
  ASSUME QueueInv, NEW b \in Actor, NEW k \in 2 .. Len(queue), queue[k] = b,
         queue' = RemoveAt(queue, k), b \notin Holders',
         Queued \ {b} \subseteq Queued', Holders' \subseteq Holders
  PROVE  QueueInv'
<1> DEFINE n == Len(queue)
           u == SubSeq(queue, 1, k - 1)
           v == SubSeq(queue, k + 1, n)
           w(i) == IF i < k THEN i ELSE i + 1
<1>1. queue \in Seq(Actor) /\ n \in Nat /\ k \in 2 .. n
  BY QueueFacts DEF QueueInv
<1>2. u \in Seq(Actor) /\ Len(u) = k - 1 /\ \A i \in 1 .. k - 1 : u[i] = queue[i]
  <2>1. \A i \in 1 .. k - 1 : queue[i] \in Actor
    BY <1>1, QueueFacts
  <2>2. 1 \in Int /\ k - 1 \in Int
    BY <1>1
  <2> QED  BY <1>1, <2>1, <2>2, SubSeqProperties
<1>3. v \in Seq(Actor) /\ Len(v) = n - k /\ \A i \in 1 .. n - k : v[i] = queue[k + i]
  <2>1. \A i \in k + 1 .. n : queue[i] \in Actor
    BY <1>1, QueueFacts
  <2>2. k + 1 \in Int /\ n \in Int
    BY <1>1
  <2> QED  BY <1>1, <2>1, <2>2, SubSeqProperties
<1>4. queue' = u \o v
  BY DEF RemoveAt
<1> HIDE DEF u, v
<1>5. /\ queue' \in Seq(Actor) /\ Len(queue') = n - 1
      /\ \A i \in 1 .. n - 1 : queue'[i] = queue[w(i)]
  <2>1. /\ u \o v \in Seq(Actor) /\ Len(u \o v) = Len(u) + Len(v)
        /\ \A i \in 1 .. Len(u) + Len(v) :
             (u \o v)[i] = IF i <= Len(u) THEN u[i] ELSE v[i - Len(u)]
    <3>1. u \in Seq(Actor) /\ v \in Seq(Actor)
      BY <1>2, <1>3
    <3> QED  BY <3>1, ConcatProperties, ZenonT(30)
  <2>2. Len(u) + Len(v) = n - 1 /\ Len(u) = k - 1
    BY <1>1, <1>2, <1>3
  <2>3. ASSUME NEW i \in 1 .. n - 1
        PROVE  (u \o v)[i] = queue[w(i)]
    <3>1. (u \o v)[i] = IF i <= k - 1 THEN u[i] ELSE v[i - (k - 1)]
      BY <2>1, <2>2
    <3>2. CASE i < k
      <4>1. i \in 1 .. k - 1 /\ i <= k - 1
        BY <3>2, <1>1
      <4> QED  BY <3>1, <3>2, <4>1, <1>2
    <3>3. CASE ~(i < k)
      <4>1. i \in Int /\ k \in Int /\ n \in Int /\ k <= i /\ i <= n - 1
        BY <3>3, <1>1
      <4> HIDE DEF n
      <4>2. i - (k - 1) \in 1 .. n - k
        BY <4>1
      <4>3. k + (i - (k - 1)) = i + 1 /\ ~(i <= k - 1)
        BY <4>1
      <4> QED  BY <3>1, <3>3, <4>2, <4>3, <1>3
    <3> QED  BY <3>2, <3>3
  <2> QED  BY <2>1, <2>2, <2>3, <1>4
<1>6. DOMAIN queue' = 1 .. n - 1
  BY <1>5, LenProperties
<1>7. \A i, j \in 1 .. n : queue[i] = queue[j] => i = j
  BY QueueFacts DEF QueueInv, IsInjective
<1>8. \A i \in 1 .. n - 1 : w(i) \in 1 .. n /\ w(i) # k
  BY <1>1
<1>9. \A i, j \in 1 .. n - 1 : w(i) = w(j) => i = j
  BY <1>1
<1> HIDE DEF w
<1>10. \A i \in 1 .. n - 1 : queue[w(i)] \in Actor \ {b} /\ queue[w(i)] \in Queued
  BY SMTT(30), <1>1, <1>7, <1>8, QueueFacts DEF QueueInv
<1>11. \A i \in DOMAIN queue' : queue'[i] \in Queued'
  BY <1>5, <1>6, <1>10
<1>12. IsInjective(queue)'
  <2> SUFFICES ASSUME NEW i \in 1 .. n - 1, NEW j \in 1 .. n - 1, queue'[i] = queue'[j]
               PROVE  i = j
    BY <1>6 DEF IsInjective
  <2>1. w(i) = w(j)
    BY ZenonT(30), <1>5, <1>7, <1>8
  <2> QED  BY <2>1, <1>9
<1>13. \A a \in Holders' : First(a)'
  <2> SUFFICES ASSUME NEW a \in Holders' PROVE First(a)'
    OBVIOUS
  <2>1. First(a)
    BY DEF QueueInv
  <2>2. queue[1] = a
    BY <2>1, QueueFacts DEF First
  <2>3. 1 \in 1 .. n - 1 /\ w(1) = 1
    BY <1>1 DEF w
  <2>4. queue'[1] = a /\ Len(queue') # 0
    BY SMTT(30), <1>1, <1>5, <2>2, <2>3
  <2> QED  BY <2>4, <1>5, EmptySeq, HeadTailProperties DEF First
<1> QED  BY <1>5, <1>11, <1>12, <1>13 DEF QueueInv

-----------------------------------------------------------------------------
(* Steps of the timers and of the bounds.                                  *)

Kept == MotionInv' /\ RevokedIsSilent

\* The bounds stay within themselves.
LEMMA BoundsKept ==
  ASSUME TypeOK, NEW b \in DOMAIN Bounds, Spend(b)
  PROVE  /\ used' \in [DOMAIN Bounds -> Nat]
         /\ \A c \in DOMAIN Bounds : used'[c] <= Bounds[c]
<1>1. \A c \in DOMAIN Bounds : Bounds[c] \in Nat
  BY DEF Bounds
<1>2. Bounds' = Bounds
  BY DEF Bounds
<1> HIDE DEF Bounds
<1>3. used \in [DOMAIN Bounds -> Nat] /\ \A c \in DOMAIN Bounds : used[c] <= Bounds[c]
  BY DEF TypeOK
<1> QED  BY <1>1, <1>3 DEF Spend

\* The bounds there are.
LEMMA BoundNames ==
  {"reports", "commands", "edits", "failures", "losses", "timeouts", "surprises"}
    = DOMAIN Bounds
BY DEF Bounds

\* Threads at rest.
LEMMA AtRest ==
  /\ NoReport \in ReporterState /\ NoReport.at = "idle"
  /\ Finished \in TimerState /\ Finished.at = "done"
  /\ NoCommand \in UserState /\ NoCommand.at = "idle"
BY DEF NoReport, ReporterState, Finished, TimerState, NoCommand, UserState

\* A timer object that is chosen is free.
LEMMA SpareTimer ==
  ASSUME HasSpare
  PROVE  LET t == CHOOSE s \in Spare : TRUE
         IN t \in Timer /\ timer[t].at = "done" /\ t # current
<1>1. (CHOOSE s \in Spare : TRUE) \in Spare
  BY DEF HasSpare
<1> QED  BY <1>1 DEF Spare

\* What entering and cancelling timers does: the entry is sound, and a thread
\* that is past its time goes on.
TimersMove ==
  /\ current' \in Timer \cup {None} /\ revoked' \subseteq Timer
  /\ timer' \in [Timer -> TimerState] /\ EntryInv'
  /\ \A t \in Timer : \/ timer'[t] = timer[t]
                      \/ {timer[t].at, timer'[t].at} \subseteq {"pending", "done"}

\* Cancelling.
LEMMA CancelMoves ==
  ASSUME TypeOK, EntryInv, CancelOff
  PROVE  TimersMove /\ current' = None
<1>1. /\ timer \in [Timer -> TimerState] /\ current \in Timer \cup {None}
      /\ revoked \subseteq Timer
  BY DEF TypeOK, TimerState
<1>2. current' = None
  BY DEF CancelOff
<1>3. CASE current = None
  BY <1>1, <1>2, <1>3 DEF CancelOff, TimersMove, EntryInv, NoDeadTimer
<1>4. CASE current # None
  <2>1. /\ timer' = [timer EXCEPT ![current] = Stopped(current)]
        /\ revoked' = revoked \cup {current} /\ current \in Timer
    BY <1>1, <1>4 DEF CancelOff
  <2>2. /\ Stopped(current) \in TimerState
        /\ \/ Stopped(current) = timer[current]
           \/ {timer[current].at, Stopped(current).at} \subseteq {"pending", "done"}
    BY <1>1, <2>1 DEF Stopped, Finished, TimerState
  <2> QED  BY <1>1, <1>2, <2>1, <2>2 DEF TimersMove, EntryInv, NoDeadTimer
<1> QED  BY <1>2, <1>3, <1>4

\* Entering.
LEMMA ScheduleMoves ==
  ASSUME TypeOK, EntryInv, NEW r \in Nat, NEW restart \in BOOLEAN, ScheduleOff(r, restart)
  PROVE  TimersMove
<1>1. /\ timer \in [Timer -> TimerState] /\ current \in Timer \cup {None}
      /\ revoked \subseteq Timer
  BY DEF TypeOK, TimerState
<1>2. CASE Alive /\ ~restart
  BY <1>1, <1>2 DEF ScheduleOff, TimersMove, EntryInv, NoDeadTimer
<1>3. CASE ~(Alive /\ ~restart)
  <2> DEFINE t == CHOOSE s \in Spare : TRUE
             old == IF current = None THEN {} ELSE {current}
  <2>1. /\ HasSpare /\ current' = t
        /\ timer' = [s \in Timer |-> IF s = t THEN [at |-> "pending", route |-> r]
                                     ELSE IF s \in old THEN Stopped(s) ELSE timer[s]]
        /\ revoked' = (revoked \cup old) \ {t}
    BY <1>3 DEF ScheduleOff
  <2>2. t \in Timer /\ timer[t].at = "done" /\ t # current
    BY <2>1, SpareTimer
  <2>3. old \subseteq Timer
    BY <1>1
  <2> HIDE DEF t, old
  <2>4. \A s \in Timer : /\ Stopped(s) \in TimerState
                         /\ \/ Stopped(s) = timer[s]
                            \/ {timer[s].at, Stopped(s).at} \subseteq {"pending", "done"}
    BY <1>1 DEF Stopped, Finished, TimerState
  <2>5. [at |-> "pending", route |-> r] \in TimerState
    BY DEF TimerState
  <2>6. timer' \in [Timer -> TimerState]
    BY <1>1, <2>1, <2>4, <2>5
  <2>7. \A s \in Timer : \/ timer'[s] = timer[s]
                         \/ {timer[s].at, timer'[s].at} \subseteq {"pending", "done"}
    BY <2>1, <2>2, <2>4
  <2>8. EntryInv'
    BY <2>1, <2>2 DEF EntryInv, NoDeadTimer
  <2>9. current' \in Timer \cup {None} /\ revoked' \subseteq Timer
    BY <1>1, <2>1, <2>2, <2>3
  <2> QED  BY <2>6, <2>7, <2>8, <2>9 DEF TimersMove
<1> QED  BY <1>2, <1>3

\* Following a power change.
LEMMA SyncMoves ==
  ASSUME TypeOK, EntryInv, NEW on \in BOOLEAN, SyncPower(on)
  PROVE  TimersMove /\ (motion => current' \in {None, current})
<1>1. CASE ~IsCurrent(route)
  <2>1. UNCHANGED <<current, timer, revoked>>
    BY <1>1 DEF SyncPower
  <2>2. /\ timer \in [Timer -> TimerState] /\ current \in Timer \cup {None}
        /\ revoked \subseteq Timer
    BY DEF TypeOK, TimerState
  <2> QED  BY <2>1, <2>2 DEF TimersMove, EntryInv, NoDeadTimer
<1>2. CASE IsCurrent(route) /\ (~on \/ motion)
  BY <1>2, CancelMoves DEF SyncPower
<1>3. CASE IsCurrent(route) /\ ~(~on \/ motion)
  <2>1. ScheduleOff(route, TRUE) /\ route \in Nat /\ ~motion
    BY <1>3 DEF SyncPower, TypeOK
  <2> QED  BY <2>1, ScheduleMoves
<1> QED  BY <1>1, <1>2, <1>3

\* The rest of a step that only enters or cancels timers and leaves reporters,
\* users, the device and what is excused of it alone.
LEMMA TimersMoveInv ==
  ASSUME MotionInv, TimersMove, UNCHANGED <<device, reporter, user, drift>>,
         TypeOK'
  PROVE  Kept
<1>1. \A t \in Timer : \A x \in {"waiting", "sending", "sent", "failed"} :
        timer'[t].at = x <=> timer[t].at = x
  BY DEF TimersMove
<1>2. Queued' = Queued /\ Holders' = Holders
  BY <1>1 DEF Queued, Holders
<1>3. QueueInv'
  BY <1>2, QueueStays DEF MotionInv, device
<1>4. ShadowInv'
  BY <1>1 DEF MotionInv, ShadowInv, Sent, device
<1>5. RevokedIsSilent
  BY <1>1 DEF RevokedIsSilent
<1> QED  BY <1>3, <1>4, <1>5 DEF Kept, MotionInv, TimersMove

-----------------------------------------------------------------------------
(* Steps of the reporters.                                                 *)

\* A step of one reporter that leaves the timers alone.
LEMMA ReporterMoveInv ==
  ASSUME MotionInv, NEW r \in Reporter, UNCHANGED <<current, timer, user, revoked>>,
         \A q \in Reporter \ {r} : reporter'[q] = reporter[q],
         TypeOK', QueueInv', ShadowInv'
  PROVE  Kept
<1>1. EntryInv'
  BY DEF MotionInv, EntryInv, NoDeadTimer
<1>2. RevokedIsSilent
  BY DEF RevokedIsSilent
<1> QED  BY <1>1, <1>2 DEF Kept, MotionInv

LEMMA ReportInvariant ==
  ASSUME MotionInv, NEW r \in Reporter, Report(r) \/ Match(r)
  PROVE  Kept
<1>1. /\ reporter[r].at \in {"idle", "reported"} /\ motion' \in BOOLEAN
      /\ reporter' \in [Reporter -> ReporterState]
      /\ reporter'[r].at \in {"idle", "reported", "matched"}
      /\ \A q \in Reporter \ {r} : reporter'[q] = reporter[q]
      /\ UNCHANGED <<automation, device, current, timer, user, watcher, revoked, drift, excused>>
  <2>1. /\ reporter \in [Reporter -> ReporterState] /\ route \in Nat /\ motion \in BOOLEAN
    BY DEF MotionInv, TypeOK, ReporterState
  <2>2. CASE Report(r)
    <3>1. [at |-> "reported", active |-> ~motion, route |-> 0] \in ReporterState
      BY <2>1 DEF ReporterState
    <3> QED  BY <2>1, <2>2, <3>1 DEF Report
  <2>3. CASE Match(r) /\ IsCurrent(route)
    BY <2>1, <2>3 DEF Match, ReporterState
  <2>4. CASE Match(r) /\ ~IsCurrent(route)
    BY <2>1, <2>4, AtRest DEF Match, ReportDone
  <2> QED  BY <2>2, <2>3, <2>4
<1>2. used' \in [DOMAIN Bounds -> Nat] /\ \A c \in DOMAIN Bounds : used'[c] <= Bounds[c]
  BY BoundsKept, BoundNames DEF MotionInv, TypeOK, Report, Match
<1>3. Queued' = Queued /\ Holders' = Holders
  BY <1>1 DEF Queued, Holders
<1>4. QueueInv'
  BY <1>1, <1>3, QueueStays DEF MotionInv, device
<1>5. ShadowInv'
  BY <1>1 DEF MotionInv, ShadowInv, Sent, device
<1>6. TypeOK'
  BY <1>1, <1>2, <1>4 DEF MotionInv, TypeOK, QueueInv, automation, device, ReporterState
<1> QED  BY <1>1, <1>4, <1>5, <1>6, ReporterMoveInv

\* What a reporter does with the timers it does in one step of its own.
LEMMA ClearInvariant ==
  ASSUME MotionInv, NEW r \in Reporter, Clear(r) \/ Detected(r)
  PROVE  Kept
<1>1. /\ reporter[r].at = "matched"
      /\ reporter' \in [Reporter -> ReporterState] /\ reporter'[r].at \in {"idle", "cancelled"}
      /\ \A q \in Reporter \ {r} : reporter'[q] = reporter[q]
      /\ UNCHANGED <<automation, motion, device, user, watcher, used, drift, excused>>
  <2>1. reporter \in [Reporter -> ReporterState]
    BY DEF MotionInv, TypeOK, ReporterState
  <2>2. CASE Clear(r)
    BY <2>1, <2>2, AtRest DEF Clear, ReportDone
  <2>3. CASE Detected(r)
    BY <2>1, <2>3 DEF Detected, ReporterAt, ReporterState
  <2> QED  BY <2>2, <2>3
<1>2. TimersMove
  <2>1. reporter[r].route \in Nat
    BY DEF MotionInv, TypeOK
  <2> QED  BY <2>1, ScheduleMoves, CancelMoves DEF MotionInv, Clear, Detected
<1>3. \A t \in Timer : \A x \in {"waiting", "sending", "sent", "failed"} :
        timer'[t].at = x <=> timer[t].at = x
  BY <1>2 DEF TimersMove
<1>4. Queued' = Queued /\ Holders' = Holders
  BY <1>1, <1>3 DEF Queued, Holders
<1>5. QueueInv'
  BY <1>1, <1>4, QueueStays DEF MotionInv, device
<1>6. ShadowInv'
  BY <1>1, <1>3 DEF MotionInv, ShadowInv, Sent, device
<1>7. TypeOK'
  BY <1>1, <1>2, <1>5 DEF MotionInv, TypeOK, QueueInv, TimersMove, TimerState, ReporterState, automation, device
<1>8. RevokedIsSilent
  BY <1>3 DEF RevokedIsSilent
<1> QED  BY <1>2, <1>5, <1>6, <1>7, <1>8 DEF Kept, MotionInv, TimersMove

LEMMA AskOnInvariant ==
  ASSUME MotionInv, NEW r \in Reporter, AskOn(r)
  PROVE  Kept
<1>1. /\ reporter[r].at = "cancelled" /\ reporter \in [Reporter -> ReporterState]
      /\ reporter' = [reporter EXCEPT ![r].at = "waiting"] /\ Ask(r)
      /\ UNCHANGED <<automation, motion, power, shadow, current, timer, user, watcher,
                     used, revoked, drift, excused>>
  BY DEF MotionInv, TypeOK, AskOn, ReporterAt, ReporterState
<1>2. /\ reporter' \in [Reporter -> ReporterState] /\ reporter'[r].at = "waiting"
      /\ \A q \in Reporter \ {r} : reporter'[q] = reporter[q]
  BY <1>1 DEF ReporterState
<1>3. /\ r \in Actor /\ r \notin Queued /\ r \in Queued'
      /\ Queued \ {r} \subseteq Queued' /\ Holders' \subseteq Holders
  BY <1>1, <1>2 DEF Queued, Holders, Actor
<1>4. QueueInv'
  BY <1>1, <1>3, QueueGrows DEF MotionInv
<1>5. ShadowInv'
  BY <1>1, <1>2 DEF MotionInv, ShadowInv, Sent
<1>6. TypeOK'
  BY <1>1, <1>2, <1>4 DEF MotionInv, TypeOK, QueueInv, ReporterState, automation
<1> QED  BY <1>1, <1>2, <1>4, <1>5, <1>6, ReporterMoveInv

LEMMA CheckOnInvariant ==
  ASSUME MotionInv, NEW r \in Reporter, CheckOn(r)
  PROVE  Kept
<1>1. /\ reporter[r].at = "waiting" /\ reporter \in [Reporter -> ReporterState] /\ First(r)
      /\ excused' \in BOOLEAN
      /\ UNCHANGED <<automation, motion, power, shadow, current, timer, user, watcher,
                     used, revoked, drift>>
  BY DEF MotionInv, TypeOK, CheckOn, ReporterState
<1>2. CASE IsCurrent(reporter[r].route) /\ ~shadow
  <2>1. /\ reporter' \in [Reporter -> ReporterState] /\ reporter'[r].at = "sending"
        /\ \A q \in Reporter \ {r} : reporter'[q] = reporter[q]
        /\ queue' = queue
    BY <1>1, <1>2 DEF CheckOn, ReporterAt, ReporterState
  <2>2. Queued' = Queued /\ Holders' \subseteq Holders \cup {r}
    BY <1>1, <2>1 DEF Queued, Holders
  <2>3. QueueInv'
    BY <1>1, <2>1, <2>2, QueueStays DEF MotionInv
  <2>4. ShadowInv'
    BY <1>1, <2>1 DEF MotionInv, ShadowInv, Sent
  <2>5. TypeOK'
    BY <1>1, <2>1, <2>3 DEF MotionInv, TypeOK, QueueInv, ReporterState, automation
  <2> QED  BY <1>1, <2>1, <2>3, <2>4, <2>5, ReporterMoveInv
<1>3. CASE ~(IsCurrent(reporter[r].route) /\ ~shadow)
  <2>1. /\ reporter' \in [Reporter -> ReporterState] /\ reporter'[r].at = "idle"
        /\ \A q \in Reporter \ {r} : reporter'[q] = reporter[q]
        /\ Leave
    BY <1>1, <1>3, AtRest DEF CheckOn, ReportDone
  <2>2. /\ r \in Actor /\ Queued \ {r} \subseteq Queued'
        /\ Holders' \subseteq Holders /\ r \notin Holders'
    BY <1>1, <2>1 DEF Queued, Holders, Actor
  <2>3. QueueInv'
    BY <1>1, <2>1, <2>2, QueueShrinks DEF MotionInv
  <2>4. ShadowInv'
    BY <1>1, <2>1 DEF MotionInv, ShadowInv, Sent
  <2>5. TypeOK'
    BY <1>1, <2>1, <2>3 DEF MotionInv, TypeOK, QueueInv, ReporterState, automation
  <2> QED  BY <1>1, <2>1, <2>3, <2>4, <2>5, ReporterMoveInv
<1> QED  BY <1>2, <1>3

\* Who has begun is alone with the device.
LEMMA Alone ==
  ASSUME QueueInv, NEW a \in Holders
  PROVE  First(a) /\ \A b \in Holders : b = a
BY DEF QueueInv, First

LEMMA SendOnInvariant ==
  ASSUME MotionInv, NEW r \in Reporter, SendOn(r)
  PROVE  Kept
<1>1. /\ reporter[r].at = "sending" /\ reporter \in [Reporter -> ReporterState] /\ power' = TRUE
      /\ UNCHANGED <<automation, motion, shadow, queue, current, timer, user, watcher,
                     used, revoked, drift, excused>>
  BY DEF MotionInv, TypeOK, SendOn, ReporterState
<1>2. /\ reporter' \in [Reporter -> ReporterState] /\ reporter'[r].at = "sent"
      /\ \A q \in Reporter \ {r} : reporter'[q] = reporter[q]
  BY <1>1 DEF SendOn, ReporterAt, ReporterState
<1>3. r \in Holders /\ Queued' = Queued /\ Holders' = Holders
  BY <1>1, <1>2 DEF Queued, Holders
<1>4. QueueInv'
  BY <1>1, <1>3, QueueStays DEF MotionInv
<1>5. \A t \in Timer : timer[t].at # "sent"
  <2>1. \A t \in Timer : t # r
    BY AutoOffAssumption
  <2> QED  BY <1>3, <2>1, Alone DEF MotionInv, Holders
<1>6. ShadowInv'
  BY <1>1, <1>2, <1>5 DEF ShadowInv, Sent
<1>7. TypeOK'
  BY <1>1, <1>2, <1>4 DEF MotionInv, TypeOK, QueueInv, ReporterState, automation
<1> QED  BY <1>1, <1>2, <1>4, <1>6, <1>7, ReporterMoveInv

\* The command of a reporter ends: with its result, or without.
LEMMA EndOnInvariant ==
  ASSUME MotionInv, NEW r \in Reporter, StoreOn(r) \/ FailOn(r)
  PROVE  Kept
<1>1. /\ reporter[r].at \in {"sending", "sent"} /\ reporter \in [Reporter -> ReporterState]
      /\ shadow' \in BOOLEAN /\ drift' \in BOOLEAN /\ excused' \in BOOLEAN /\ Leave
      /\ UNCHANGED <<automation, motion, power, current, timer, user, watcher, revoked>>
  BY DEF MotionInv, TypeOK, StoreOn, FailOn, Fails, ReporterState
<1>2. /\ reporter' \in [Reporter -> ReporterState] /\ reporter'[r].at = "idle"
      /\ \A q \in Reporter \ {r} : reporter'[q] = reporter[q]
  BY <1>1, AtRest DEF StoreOn, FailOn, ReportDone
<1>3. /\ r \in Actor /\ r \in Holders /\ Queued \ {r} \subseteq Queued'
      /\ Holders' \subseteq Holders /\ r \notin Holders'
  BY <1>1, <1>2 DEF Queued, Holders, Actor
<1>4. First(r) /\ \A b \in Holders : b = r
  BY <1>3, Alone DEF MotionInv
<1>5. QueueInv'
  BY <1>1, <1>3, <1>4, QueueShrinks DEF MotionInv
<1>6. ~drift' => shadow' = power'
  <2>1. CASE StoreOn(r)
    BY <2>1, <1>1 DEF StoreOn, MotionInv, ShadowInv, TypeOK
  <2>2. CASE FailOn(r)
    BY <2>2, <1>1 DEF FailOn
  <2> QED  BY <2>1, <2>2
<1>7. /\ \A q \in Reporter : reporter'[q].at # "sent"
      /\ \A t \in Timer : timer'[t].at # "sent"
  BY <1>1, <1>3, <1>4 DEF Holders
<1>8. ShadowInv'
  BY <1>6, <1>7 DEF ShadowInv, Sent
<1>9. used' \in [DOMAIN Bounds -> Nat] /\ \A c \in DOMAIN Bounds : used'[c] <= Bounds[c]
  BY BoundsKept, BoundNames DEF MotionInv, TypeOK, StoreOn, FailOn, Fails
<1>10. TypeOK'
  BY <1>1, <1>2, <1>5, <1>9 DEF MotionInv, TypeOK, QueueInv, ReporterState, automation
<1> QED  BY <1>1, <1>2, <1>5, <1>8, <1>10, ReporterMoveInv

-----------------------------------------------------------------------------
(* Steps of the timer threads.                                             *)

\* A step of one timer that leaves the reporters and users alone.
LEMMA TimerFacts ==
  ASSUME TypeOK, NEW t \in Timer
  PROVE  /\ timer \in [Timer -> TimerState] /\ timer[t].route \in Nat /\ t \in Actor
         /\ t \notin Reporter /\ t \notin User /\ t # None
         /\ current \in Timer \cup {None} /\ revoked \subseteq Timer
BY DEF TypeOK, TimerState, Actor

LEMMA FireInvariant ==
  ASSUME MotionInv, NEW t \in Timer, Fire(t)
  PROVE  Kept
<1>1. /\ timer[t].at = "pending" /\ Ask(t)
      /\ UNCHANGED <<automation, motion, power, shadow, current, reporter, user, watcher,
                     used, revoked, drift, excused>>
  BY DEF Fire
<1>2. /\ timer' \in [Timer -> TimerState] /\ timer'[t].at = "waiting"
      /\ \A s \in Timer \ {t} : timer'[s] = timer[s]
  BY TimerFacts DEF MotionInv, Fire, TimerAt, TimerState
<1>3. /\ t \in Actor /\ t \notin Queued /\ t \in Queued'
      /\ Queued \ {t} \subseteq Queued' /\ Holders' \subseteq Holders
  BY <1>1, <1>2, TimerFacts DEF MotionInv, Queued, Holders
<1>4. QueueInv'
  BY <1>1, <1>3, QueueGrows DEF MotionInv
<1>5. ShadowInv'
  BY <1>1, <1>2 DEF MotionInv, ShadowInv, Sent
<1>6. EntryInv'
  BY <1>1, <1>2, TimerFacts DEF MotionInv, EntryInv, NoDeadTimer, TypeOK
<1>7. TypeOK'
  BY <1>1, <1>2, <1>4 DEF MotionInv, TypeOK, QueueInv, TimerState, automation
<1>8. RevokedIsSilent
  BY <1>2 DEF RevokedIsSilent
<1> QED  BY <1>4, <1>5, <1>6, <1>7, <1>8 DEF Kept, MotionInv

LEMMA CheckOffInvariant ==
  ASSUME MotionInv, NEW t \in Timer, CheckOff(t)
  PROVE  Kept
<1>1. /\ timer[t].at = "waiting" /\ First(t)
      /\ UNCHANGED <<automation, motion, power, shadow, reporter, user, watcher, used,
                     revoked, drift, excused>>
  BY DEF CheckOff
<1>2. CASE MayTurnOff(t)
  <2>1. /\ timer' \in [Timer -> TimerState] /\ timer'[t].at = "sending"
        /\ \A s \in Timer \ {t} : timer'[s] = timer[s]
        /\ queue' = queue /\ current' = current
    BY <1>1, <1>2, TimerFacts DEF MotionInv, CheckOff, TimerAt, TimerState
  <2>2. Queued' = Queued /\ Holders' \subseteq Holders \cup {t}
    BY <1>1, <2>1, TimerFacts DEF MotionInv, Queued, Holders
  <2>3. QueueInv'
    BY <1>1, <2>1, <2>2, QueueStays DEF MotionInv
  <2>4. ShadowInv'
    BY <1>1, <2>1 DEF MotionInv, ShadowInv, Sent
  <2>5. EntryInv'
    BY <1>1, <2>1, TimerFacts DEF MotionInv, EntryInv, NoDeadTimer, TypeOK
  <2>6. TypeOK'
    BY <1>1, <2>1, <2>3 DEF MotionInv, TypeOK, QueueInv, TimerState, automation
  <2>7. RevokedIsSilent
    BY <1>2, <2>1 DEF RevokedIsSilent, MayTurnOff, MotionInv, EntryInv
  <2> QED  BY <2>3, <2>4, <2>5, <2>6, <2>7 DEF Kept, MotionInv
<1>3. CASE ~MayTurnOff(t)
  <2>1. /\ timer' \in [Timer -> TimerState] /\ timer'[t].at = "done"
        /\ \A s \in Timer \ {t} : timer'[s] = timer[s]
        /\ Leave /\ Forget(t)
    BY <1>1, <1>3, TimerFacts, AtRest DEF MotionInv, CheckOff, TimerDone
  <2>2. /\ t \in Actor /\ Queued \ {t} \subseteq Queued'
        /\ Holders' \subseteq Holders /\ t \notin Holders'
    BY <1>1, <2>1, TimerFacts DEF MotionInv, Queued, Holders
  <2>3. QueueInv'
    BY <1>1, <2>1, <2>2, QueueShrinks DEF MotionInv
  <2>4. ShadowInv'
    BY <1>1, <2>1 DEF MotionInv, ShadowInv, Sent
  <2>5. EntryInv' /\ current' \in Timer \cup {None}
    BY <1>1, <2>1, TimerFacts DEF MotionInv, EntryInv, NoDeadTimer, TypeOK, Forget
  <2>6. TypeOK'
    BY <1>1, <2>1, <2>3, <2>5 DEF MotionInv, TypeOK, QueueInv, TimerState, automation
  <2>7. RevokedIsSilent
    BY <2>1 DEF RevokedIsSilent
  <2> QED  BY <2>3, <2>4, <2>5, <2>6, <2>7 DEF Kept, MotionInv
<1> QED  BY <1>2, <1>3

LEMMA SendOffInvariant ==
  ASSUME MotionInv, NEW t \in Timer, SendOff(t) \/ FailOff(t)
  PROVE  Kept
<1>1. /\ timer[t].at \in {"sending", "sent"} /\ power' \in BOOLEAN /\ drift' \in BOOLEAN
      /\ UNCHANGED <<automation, motion, shadow, queue, current, reporter, user, watcher,
                     revoked, excused>>
  BY DEF MotionInv, TypeOK, SendOff, FailOff, Fails, device
<1>2. /\ timer' \in [Timer -> TimerState] /\ timer'[t].at \in {"sent", "failed"}
      /\ \A s \in Timer \ {t} : timer'[s] = timer[s]
  BY TimerFacts DEF MotionInv, SendOff, FailOff, TimerAt, TimerState
<1>3. t \in Holders /\ Queued' = Queued /\ Holders' = Holders
  BY <1>1, <1>2, TimerFacts DEF MotionInv, Queued, Holders
<1>4. QueueInv'
  BY <1>1, <1>3, QueueStays DEF MotionInv
<1>5. /\ \A r \in Reporter : reporter[r].at # "sent"
      /\ \A s \in Timer \ {t} : timer[s].at # "sent"
  BY <1>3, Alone, TimerFacts DEF MotionInv, Holders
<1>6. ShadowInv'
  <2>1. CASE SendOff(t)
    <3>1. timer'[t].at = "sent" /\ ~power'
      BY <2>1, TimerFacts DEF SendOff, TimerAt, MotionInv, TimerState
    <3> QED  BY <3>1, <1>1, <1>2, <1>5 DEF ShadowInv, Sent
  <2>2. CASE FailOff(t)
    <3>1. timer'[t].at = "failed" /\ (drift' <=> drift \/ power # shadow) /\ power' = power
      BY ZenonT(30), <2>2, TimerFacts DEF FailOff, TimerAt, MotionInv, TimerState, device, TypeOK
    <3> QED  BY <3>1, <1>1, <1>2, <1>5 DEF ShadowInv, Sent
  <2> QED  BY <2>1, <2>2
<1>7. EntryInv'
  BY <1>1, <1>2, TimerFacts DEF MotionInv, EntryInv, NoDeadTimer, TypeOK
<1>8. used' \in [DOMAIN Bounds -> Nat] /\ \A c \in DOMAIN Bounds : used'[c] <= Bounds[c]
  BY BoundsKept, BoundNames DEF MotionInv, TypeOK, SendOff, FailOff, Fails
<1>9. TypeOK'
  BY <1>1, <1>2, <1>4, <1>8 DEF MotionInv, TypeOK, QueueInv, TimerState, automation
<1>10. RevokedIsSilent
  BY <1>2 DEF RevokedIsSilent
<1> QED  BY <1>4, <1>6, <1>7, <1>9, <1>10 DEF Kept, MotionInv

LEMMA RetryOffInvariant ==
  ASSUME MotionInv, NEW t \in Timer, RetryOff(t)
  PROVE  Kept
<1>1. /\ timer[t].at = "failed" /\ Leave
      /\ UNCHANGED <<automation, motion, power, shadow, reporter, user, watcher, used,
                     drift, excused>>
  BY DEF RetryOff
<1>2. t \in Holders /\ First(t) /\ \A b \in Holders : b = t
  BY <1>1, TimerFacts, Alone DEF MotionInv, Holders
<1>3. /\ timer' \in [Timer -> TimerState] /\ EntryInv' /\ current' \in Timer \cup {None}
      /\ revoked' \subseteq Timer /\ timer'[t].at = "done"
      /\ \A s \in Timer \ {t} : \/ timer'[s] = timer[s]
                                \/ timer[s].at = "done" /\ timer'[s].at = "pending"
  <2>1. CASE MayTurnOff(t)
    <3> DEFINE n == CHOOSE s \in Spare : TRUE
               new == [at |-> "pending", route |-> timer[t].route]
    <3>1. /\ HasSpare /\ current' = n /\ revoked' = revoked \ {n}
          /\ timer' = [timer EXCEPT ![t] = Finished, ![n] = new]
      BY <2>1 DEF RetryOff
    <3>2. n \in Timer /\ timer[n].at = "done"
      BY <3>1, SpareTimer
    <3>3. new \in TimerState /\ new.at = "pending"
      BY TimerFacts DEF TimerState, MotionInv
    <3> HIDE DEF n, new
    <3>4. n # t
      BY <1>1, <3>2
    <3>5. /\ timer' \in [Timer -> TimerState] /\ timer'[t] = Finished /\ timer'[n] = new
          /\ \A s \in Timer \ {t, n} : timer'[s] = timer[s]
      BY <3>1, <3>2, <3>3, <3>4, AtRest, TimerFacts DEF MotionInv
    <3>6. EntryInv'
      BY <3>1, <3>3, <3>5 DEF EntryInv, NoDeadTimer
    <3> QED  BY <3>1, <3>2, <3>3, <3>5, <3>6, AtRest, TimerFacts DEF MotionInv
  <2>2. CASE ~MayTurnOff(t)
    <3>1. Forget(t) /\ TimerDone(t) /\ revoked' = revoked
      BY <2>2 DEF RetryOff
    <3>2. /\ timer' \in [Timer -> TimerState] /\ timer'[t].at = "done"
          /\ \A s \in Timer \ {t} : timer'[s] = timer[s]
      BY <3>1, AtRest, TimerFacts DEF MotionInv, TimerDone
    <3>3. EntryInv' /\ current' \in Timer \cup {None}
      BY <3>1, <3>2, TimerFacts DEF MotionInv, EntryInv, NoDeadTimer, TypeOK, Forget
    <3> QED  BY <3>1, <3>2, <3>3, TimerFacts DEF MotionInv
  <2> QED  BY <2>1, <2>2
<1>4. /\ t \in Actor /\ Queued \ {t} \subseteq Queued'
      /\ Holders' \subseteq Holders /\ t \notin Holders'
  BY <1>1, <1>3, TimerFacts DEF MotionInv, Queued, Holders
<1>5. QueueInv'
  BY <1>1, <1>2, <1>4, QueueShrinks DEF MotionInv
<1>6. ShadowInv'
  BY <1>1, <1>3 DEF MotionInv, ShadowInv, Sent
<1>7. TypeOK'
  BY <1>1, <1>3, <1>5 DEF MotionInv, TypeOK, QueueInv, TimerState, automation
<1>8. RevokedIsSilent
  BY <1>3 DEF RevokedIsSilent
<1> QED  BY <1>3, <1>5, <1>6, <1>7, <1>8 DEF Kept, MotionInv

LEMMA StoreOffInvariant ==
  ASSUME MotionInv, NEW t \in Timer, StoreOff(t)
  PROVE  Kept
<1>1. /\ timer[t].at = "sent" /\ shadow' = FALSE /\ Leave /\ Forget(t)
      /\ UNCHANGED <<automation, motion, power, reporter, user, watcher, used, revoked,
                     drift, excused>>
  BY DEF StoreOff, Published
<1>2. /\ timer' \in [Timer -> TimerState] /\ timer'[t].at = "done"
      /\ \A s \in Timer \ {t} : timer'[s] = timer[s]
  BY AtRest, TimerFacts DEF MotionInv, StoreOff, TimerDone
<1>3. t \in Holders /\ First(t) /\ \A b \in Holders : b = t
  BY <1>1, TimerFacts, Alone DEF MotionInv, Holders
<1>4. /\ t \in Actor /\ Queued \ {t} \subseteq Queued'
      /\ Holders' \subseteq Holders /\ t \notin Holders'
  BY <1>1, <1>2, TimerFacts DEF MotionInv, Queued, Holders
<1>5. QueueInv'
  BY <1>1, <1>3, <1>4, QueueShrinks DEF MotionInv
<1>6. /\ \A r \in Reporter : reporter[r].at # "sent"
      /\ \A s \in Timer : timer'[s].at # "sent"
  BY <1>2, <1>3, TimerFacts DEF MotionInv, Holders
<1>7. ShadowInv'
  BY <1>1, <1>6 DEF MotionInv, ShadowInv, Sent, TypeOK
<1>8. EntryInv' /\ current' \in Timer \cup {None}
  BY <1>1, <1>2, TimerFacts DEF MotionInv, EntryInv, NoDeadTimer, TypeOK, Forget
<1>9. TypeOK'
  BY <1>1, <1>2, <1>5, <1>8 DEF MotionInv, TypeOK, QueueInv, TimerState, automation
<1>10. RevokedIsSilent
  BY <1>2 DEF RevokedIsSilent
<1> QED  BY <1>5, <1>7, <1>8, <1>9, <1>10 DEF Kept, MotionInv

-----------------------------------------------------------------------------
(* Steps of those who wait too long, of users, the watcher and edits.      *)

LEMMA SlotTimeoutInvariant ==
  ASSUME MotionInv, NEW a \in Actor, SlotTimeout(a)
  PROVE  Kept
<1>1. /\ excused' = TRUE
      /\ UNCHANGED <<automation, motion, power, shadow, watcher, revoked, drift>>
  BY DEF SlotTimeout
<1>2. used' \in [DOMAIN Bounds -> Nat] /\ \A c \in DOMAIN Bounds : used'[c] <= Bounds[c]
  BY BoundsKept, BoundNames DEF MotionInv, SlotTimeout
<1>3. PICK k \in 2 .. Len(queue) : queue[k] = a /\ queue' = RemoveAt(queue, k)
  BY DEF SlotTimeout
<1>4. a \notin Holders
  <2>1. k # 1 /\ k \in DOMAIN queue
    BY <1>3, QueueFacts DEF MotionInv
  <2>2. ASSUME First(a) PROVE FALSE
    <3>1. queue[1] = a /\ 1 \in DOMAIN queue
      BY <2>2, QueueFacts DEF MotionInv, First
    <3> QED  BY <1>3, <2>1, <3>1 DEF MotionInv, QueueInv, IsInjective
  <2> QED  BY <2>2 DEF MotionInv, QueueInv
<1>5. /\ timer \in [Timer -> TimerState] /\ reporter \in [Reporter -> ReporterState]
      /\ user \in [User -> UserState] /\ current \in Timer \cup {None} /\ revoked \subseteq Timer
  BY DEF MotionInv, TypeOK, TimerState, ReporterState, UserState
<1>6. /\ timer' \in [Timer -> TimerState] /\ reporter' \in [Reporter -> ReporterState]
      /\ user' \in [User -> UserState] /\ current' \in Timer \cup {None} /\ EntryInv'
      /\ \A t \in Timer \ {a} : timer'[t] = timer[t]
      /\ \A r \in Reporter \ {a} : reporter'[r] = reporter[r]
      /\ \A u \in User \ {a} : user'[u] = user[u]
      /\ a \in Timer => timer'[a].at = "done"
      /\ a \in Reporter => reporter'[a].at = "idle"
      /\ a \in User => user'[a].at = "idle"
  <2>1. CASE a \in Timer /\ TimedOutTimer(a) /\ TimerDone(a) /\ UNCHANGED <<reporter, user>>
    <3>1. /\ timer' \in [Timer -> TimerState] /\ timer'[a].at = "done"
          /\ \A t \in Timer \ {a} : timer'[t] = timer[t]
      BY <1>5, <2>1, AtRest DEF TimerDone
    <3>2. EntryInv' /\ current' \in Timer \cup {None}
      BY <1>1, <1>5, <2>1, <3>1 DEF MotionInv, EntryInv, NoDeadTimer, TimedOutTimer, Forget
    <3> QED  BY <1>5, <2>1, <3>1, <3>2
  <2>2. CASE a \in Reporter /\ ReportDone(a) /\ UNCHANGED <<current, timer, user>>
    <3>1. EntryInv'
      BY <1>1, <2>2 DEF MotionInv, EntryInv, NoDeadTimer
    <3> QED  BY <1>5, <2>2, <3>1, AtRest DEF ReportDone
  <2>3. CASE /\ a \in User /\ user' = [user EXCEPT ![a] = NoCommand]
             /\ UNCHANGED <<current, timer, reporter>>
    <3>1. EntryInv'
      BY <1>1, <2>3 DEF MotionInv, EntryInv, NoDeadTimer
    <3> QED  BY <1>5, <2>3, <3>1, AtRest
  <2> QED  BY <2>1, <2>2, <2>3 DEF SlotTimeout
<1>7. a \notin Holders' /\ Queued \ {a} \subseteq Queued' /\ Holders' \subseteq Holders
  BY <1>6 DEF Queued, Holders
<1>8. QueueInv'
  BY <1>3, <1>7, QueueLoses DEF MotionInv
<1>9. ShadowInv'
  <2>1. /\ \A r \in Reporter : reporter'[r].at = "sent" <=> reporter[r].at = "sent"
        /\ \A t \in Timer : timer'[t].at = "sent" <=> timer[t].at = "sent"
    BY <1>4, <1>6 DEF Holders
  <2> QED  BY <1>1, <2>1 DEF MotionInv, ShadowInv, Sent
<1>10. TypeOK'
  BY <1>1, <1>2, <1>5, <1>6, <1>8 DEF MotionInv, TypeOK, QueueInv, TimerState, ReporterState, UserState, automation
<1>11. RevokedIsSilent
  BY <1>6 DEF RevokedIsSilent
<1> QED  BY <1>6, <1>8, <1>9, <1>10, <1>11 DEF Kept, MotionInv

LEMMA OrderInvariant ==
  ASSUME MotionInv, NEW u \in User, NEW on \in BOOLEAN, Order(u, on)
  PROVE  Kept
<1>1. /\ user[u].at = "idle" /\ Ask(u) /\ user \in [User -> UserState]
      /\ user' = [user EXCEPT ![u] = [at |-> "waiting", on |-> on]]
      /\ UNCHANGED <<automation, motion, power, shadow, current, timer, reporter, watcher,
                     revoked, drift, excused>>
  BY DEF Order, MotionInv, TypeOK, UserState
<1>2. [at |-> "waiting", on |-> on] \in UserState
  BY DEF UserState
<1>3. /\ user' \in [User -> UserState] /\ user'[u].at = "waiting"
      /\ \A v \in User \ {u} : user'[v] = user[v]
  BY <1>1, <1>2
<1>4. used' \in [DOMAIN Bounds -> Nat] /\ \A c \in DOMAIN Bounds : used'[c] <= Bounds[c]
  BY BoundsKept, BoundNames DEF MotionInv, Order
<1>5. /\ u \in Actor /\ u \notin Queued /\ u \in Queued'
      /\ Queued \ {u} \subseteq Queued' /\ Holders' \subseteq Holders
  BY <1>1, <1>3 DEF Queued, Holders, Actor
<1>6. QueueInv'
  BY <1>1, <1>5, QueueGrows DEF MotionInv
<1>7. ShadowInv' /\ EntryInv' /\ RevokedIsSilent
  BY <1>1 DEF MotionInv, ShadowInv, Sent, EntryInv, NoDeadTimer, RevokedIsSilent
<1>8. TypeOK'
  BY <1>1, <1>3, <1>4, <1>6 DEF MotionInv, TypeOK, QueueInv, UserState, automation
<1> QED  BY <1>6, <1>7, <1>8 DEF Kept, MotionInv

LEMMA ObeyInvariant ==
  ASSUME MotionInv, NEW u \in User, Obey(u)
  PROVE  Kept
<1>1. /\ user[u].at = "waiting" /\ First(u) /\ user \in [User -> UserState]
      /\ power' = user[u].on /\ shadow' = user[u].on /\ drift' = FALSE
      /\ (excused' <=> excused \/ ~user[u].on)
      /\ UNCHANGED <<automation, motion, queue, current, timer, reporter, watcher, used, revoked>>
  BY DEF Obey, MotionInv, TypeOK, UserState
<1>2. /\ user' \in [User -> UserState] /\ user'[u].at = "stored"
      /\ \A v \in User \ {u} : user'[v] = user[v]
  BY <1>1 DEF Obey, UserState
<1>3. Queued' = Queued /\ Holders' \subseteq Holders \cup {u}
  BY <1>1, <1>2 DEF Queued, Holders
<1>4. QueueInv'
  BY <1>1, <1>3, QueueStays DEF MotionInv
<1>5. /\ \A r \in Reporter : reporter[r].at # "sent"
      /\ \A t \in Timer : timer[t].at # "sent"
  <2>1. \A b \in Holders : b = u
    BY <1>1 DEF MotionInv, QueueInv, First
  <2> QED  BY <2>1 DEF Holders
<1>6. ShadowInv' /\ EntryInv' /\ RevokedIsSilent
  BY <1>1, <1>5 DEF MotionInv, ShadowInv, Sent, EntryInv, NoDeadTimer, RevokedIsSilent
<1>7. power' \in BOOLEAN /\ shadow' \in BOOLEAN /\ drift' \in BOOLEAN /\ excused' \in BOOLEAN
  BY <1>1 DEF UserState, Obey, MotionInv, TypeOK
<1>8. TypeOK'
  BY <1>1, <1>2, <1>4, <1>7 DEF MotionInv, TypeOK, QueueInv, UserState, automation
<1> QED  BY <1>4, <1>6, <1>8 DEF Kept, MotionInv

LEMMA PublishInvariant ==
  ASSUME MotionInv, NEW u \in User, Publish(u)
  PROVE  Kept
<1>1. /\ user[u].at = "stored" /\ user \in [User -> UserState] /\ Leave
      /\ UNCHANGED <<automation, motion, power, shadow, reporter, watcher, used, drift, excused>>
  BY DEF Publish, MotionInv, TypeOK, UserState
<1>2. TimersMove
  <2>1. user[u].on \in BOOLEAN /\ SyncPower(user[u].on)
    BY <1>1 DEF Publish, UserState
  <2> QED  BY <2>1, SyncMoves DEF MotionInv
<1>3. /\ user' \in [User -> UserState] /\ user'[u].at = "idle"
      /\ \A v \in User \ {u} : user'[v] = user[v]
  BY <1>1, AtRest DEF Publish
<1>4. \A t \in Timer : \A x \in {"waiting", "sending", "sent", "failed"} :
        timer'[t].at = x <=> timer[t].at = x
  BY <1>2 DEF TimersMove
<1>5. /\ u \in Actor /\ u \in Holders /\ Queued \ {u} \subseteq Queued'
      /\ Holders' \subseteq Holders /\ u \notin Holders'
  BY <1>1, <1>3, <1>4 DEF Queued, Holders, Actor
<1>6. QueueInv'
  BY <1>1, <1>5, Alone, QueueShrinks DEF MotionInv
<1>7. ShadowInv' /\ RevokedIsSilent
  BY <1>1, <1>4 DEF MotionInv, ShadowInv, Sent, RevokedIsSilent
<1>8. TypeOK'
  BY <1>1, <1>2, <1>3, <1>6 DEF MotionInv, TypeOK, QueueInv, TimersMove, TimerState, UserState, automation
<1> QED  BY <1>2, <1>6, <1>7, <1>8 DEF Kept, MotionInv, TimersMove

LEMMA WatcherInvariant ==
  ASSUME MotionInv, Refresh \/ Surprise
  PROVE  Kept
<1>1. /\ UNCHANGED <<automation, motion, queue, current, timer, reporter, user, revoked>>
      /\ power' \in BOOLEAN /\ shadow' \in BOOLEAN /\ drift' \in BOOLEAN /\ excused' \in BOOLEAN
      /\ watcher' \in {"idle", "on", "off"}
  BY DEF MotionInv, TypeOK, Refresh, Surprise
<1>2. used' \in [DOMAIN Bounds -> Nat] /\ \A c \in DOMAIN Bounds : used'[c] <= Bounds[c]
  BY BoundsKept, BoundNames DEF MotionInv, TypeOK, Refresh, Surprise
<1>3. Queued' = Queued /\ Holders' = Holders
  BY <1>1 DEF Queued, Holders
<1>4. QueueInv'
  BY <1>1, <1>3, QueueStays DEF MotionInv
<1>5. ShadowInv'
  <2>1. CASE Surprise
    BY <2>1 DEF Surprise, ShadowInv
  <2>2. CASE Refresh
    <3>1. Holders = {}
      BY <2>2 DEF Refresh, MotionInv, QueueInv, First
    <3> QED  BY <1>1, <2>2, <3>1 DEF Refresh, ShadowInv, Holders
  <2> QED  BY <2>1, <2>2
<1>6. EntryInv' /\ RevokedIsSilent
  BY <1>1 DEF MotionInv, EntryInv, NoDeadTimer, RevokedIsSilent
<1>7. TypeOK'
  BY <1>1, <1>2, <1>4 DEF MotionInv, TypeOK, QueueInv, automation
<1> QED  BY <1>4, <1>5, <1>6, <1>7 DEF Kept, MotionInv

LEMMA PublishRefreshInvariant ==
  ASSUME MotionInv, PublishRefresh
  PROVE  Kept
<1>1. watcher' = "idle" /\ UNCHANGED <<automation, motion, device, reporter, user, used, drift, excused>>
  BY DEF PublishRefresh
<1>2. TimersMove
  <2>1. (watcher = "on") \in BOOLEAN /\ SyncPower(watcher = "on")
    BY DEF PublishRefresh
  <2> QED  BY <2>1, SyncMoves DEF MotionInv
<1>3. TypeOK'
  BY <1>1, <1>2 DEF MotionInv, TypeOK, TimersMove, TimerState, automation, device
<1> QED  BY <1>1, <1>2, <1>3, TimersMoveInv

LEMMA SaveInvariant ==
  ASSUME MotionInv, Save \/ Arm
  PROVE  Kept
<1>1. /\ UNCHANGED <<motion, device, reporter, user, watcher, drift>>
      /\ excused' = TRUE /\ enabled' \in BOOLEAN
  BY DEF Save, Arm, MotionInv, TypeOK
<1>2. used' \in [DOMAIN Bounds -> Nat] /\ \A c \in DOMAIN Bounds : used'[c] <= Bounds[c]
  BY BoundsKept, BoundNames DEF MotionInv, Save, Arm
<1>3. route' \in Nat
  <2>1. used["edits"] \in Nat /\ route \in Nat
    BY BoundNames DEF MotionInv, TypeOK
  <2> QED  BY <2>1 DEF Save, Arm
<1>4. TimersMove
  <2>1. CASE CancelOff
    BY <2>1, CancelMoves DEF MotionInv
  <2>2. CASE UNCHANGED <<current, timer, revoked>>
    BY <2>2 DEF MotionInv, TypeOK, TimersMove, TimerState, EntryInv, NoDeadTimer
  <2> QED  BY <2>1, <2>2 DEF Save, Arm
<1>5. TypeOK'
  BY <1>1, <1>2, <1>3, <1>4 DEF MotionInv, TypeOK, TimersMove, TimerState, device
<1> QED  BY <1>1, <1>4, <1>5, TimersMoveInv

-----------------------------------------------------------------------------
(* The specification.                                                      *)

LEMMA InitInv == Init => MotionInv
<1> SUFFICES ASSUME Init PROVE MotionInv
  OBVIOUS
<1>1. /\ queue \in Seq(Actor) /\ IsInjective(queue) /\ DOMAIN queue = {}
  BY DEF Init, IsInjective
<1>2. QueueInv
  BY <1>1, AtRest DEF Init, QueueInv, Holders
<1>3. /\ timer \in [Timer -> TimerState] /\ reporter \in [Reporter -> ReporterState]
      /\ user \in [User -> UserState]
  BY AtRest DEF Init
<1>4. /\ used \in [DOMAIN Bounds -> Nat]
      /\ \A b \in DOMAIN Bounds : used[b] <= Bounds[b]
  BY DEF Init, Bounds
<1>5. TypeOK
  BY <1>1, <1>3, <1>4 DEF Init, TypeOK, TimerState, ReporterState, UserState
<1>6. ShadowInv /\ EntryInv
  BY AtRest DEF Init, ShadowInv, Sent, EntryInv, NoDeadTimer
<1> QED  BY <1>2, <1>5, <1>6 DEF MotionInv

LEMMA StutterInv == MotionInv /\ UNCHANGED vars => Kept
<1> SUFFICES ASSUME MotionInv, UNCHANGED vars PROVE Kept
  OBVIOUS
<1>1. UNCHANGED <<route, enabled, motion, power, shadow, queue, current, timer, reporter,
                  user, watcher, used, revoked, drift, excused>>
  BY DEF vars, automation, device
<1>2. Queued' = Queued /\ Holders' = Holders
  BY <1>1 DEF Queued, Holders
<1>3. QueueInv'
  BY <1>1, <1>2, QueueStays DEF MotionInv
<1>4. TypeOK' /\ ShadowInv' /\ EntryInv' /\ RevokedIsSilent
  BY <1>1 DEF MotionInv, TypeOK, ShadowInv, Sent, EntryInv, NoDeadTimer, RevokedIsSilent
<1> QED  BY <1>3, <1>4 DEF Kept, MotionInv

LEMMA NextInv == MotionInv /\ [Next]_vars => Kept
<1> SUFFICES ASSUME MotionInv, [Next]_vars PROVE Kept
  OBVIOUS
<1>1. ASSUME NEW r \in Reporter, Report(r) \/ ReporterStep(r) \/ FailOn(r)
      PROVE  Kept
  BY <1>1, ReportInvariant, ClearInvariant, AskOnInvariant, CheckOnInvariant,
     SendOnInvariant, EndOnInvariant DEF ReporterStep
<1>2. ASSUME NEW t \in Timer, TimerStep(t) \/ FailOff(t)
      PROVE  Kept
  BY <1>2, FireInvariant, CheckOffInvariant, SendOffInvariant, RetryOffInvariant,
     StoreOffInvariant DEF TimerStep
<1>3. ASSUME NEW u \in User, UserStep(u) \/ \E on \in BOOLEAN : Order(u, on)
      PROVE  Kept
  BY <1>3, ObeyInvariant, PublishInvariant, OrderInvariant DEF UserStep
<1>4. ASSUME NEW a \in Actor, SlotTimeout(a)
      PROVE  Kept
  BY <1>4, SlotTimeoutInvariant
<1>5. CASE WatcherStep \/ Surprise \/ Save \/ Arm
  BY <1>5, WatcherInvariant, PublishRefreshInvariant, SaveInvariant DEF WatcherStep
<1>6. CASE UNCHANGED vars
  BY <1>6, StutterInv
<1> QED  BY <1>1, <1>2, <1>3, <1>4, <1>5, <1>6 DEF Next

\* MotionInv holds in every reachable state.
THEOREM MotionInvariant == Spec => []MotionInv
<1>1. MotionInv /\ [Next]_vars => MotionInv'
  BY NextInv DEF Kept
<1> QED  BY <1>1, InitInv, PTL DEF Spec

\* Type correctness.
THEOREM MotionTypes == Spec => []TypeOK
<1>1. MotionInv => TypeOK
  BY DEF MotionInv
<1> QED  BY <1>1, MotionInvariant, PTL

\* However many reports, timers, commands, edits and failures overlap: what is
\* shown between commands is what the device does, the entry of route_timers is
\* a timer that works, and a timer that was cancelled or replaced turns nothing
\* off.
THEOREM TimersStayTrue == Spec => TimersAreTrue
<1>1. MotionInv => NoDeadTimer /\ InSync
  <2> SUFFICES ASSUME MotionInv PROVE NoDeadTimer /\ InSync
    OBVIOUS
  <2>1. NoDeadTimer
    BY DEF MotionInv, EntryInv
  <2>2. ASSUME queue = <<>> PROVE Holders = {}
    BY <2>2 DEF MotionInv, QueueInv, First
  <2>3. InSync
    BY <2>2 DEF MotionInv, ShadowInv, Sent, Holders, InSync
  <2> QED  BY <2>1, <2>3
<1>2. MotionInv /\ [Next]_vars => [RevokedIsSilent]_vars
  BY NextInv DEF Kept
<1> QED  BY <1>1, <1>2, MotionInvariant, PTL DEF Spec, TimersAreTrue

-----------------------------------------------------------------------------
(* One thread of reports.                                                  *)

\* No timer is entered, and none has begun to turn the light off.
Calm == current = None /\ \A t \in Timer : timer[t].at \notin {"sending", "sent", "failed"}

\* A step beside the reporter.
LEMMA LightStays ==
  ASSUME ReportInv, LightInv, UNCHANGED <<automation, motion, reporter>>,
         ~excused' => ~excused,
         motion /\ current = None => current' = None,
         motion /\ Calm /\ ~excused' => Calm' /\ (power => power') /\ (drift' => drift)
  PROVE  ReportInv' /\ LightInv'
<1>1. ReportInv'
  BY DEF ReportInv, IsCurrent, automation
<1>2. LightInv'
  BY DEF LightInv, Before, Calm
<1> QED  BY <1>1, <1>2

\* The step of the one reporter.
LEMMA LightReporterStep ==
  ASSUME MotionInv, MotionInv', ReportInv, LightInv, OneReporter, OneReporter',
         NEW r \in Reporter, Report(r) \/ ReporterStep(r) \/ FailOn(r)
  PROVE  ReportInv' /\ LightInv'
<1> USE DEF automation, device
<1>1. /\ reporter \in [Reporter -> ReporterState] /\ timer \in [Timer -> TimerState]
      /\ current \in Timer \cup {None}
      /\ {motion, power, shadow, drift, excused} \subseteq BOOLEAN
  BY DEF MotionInv, TypeOK, ReporterState, TimerState
<1>0. ASSUME NEW q \in Reporter, q # r
       PROVE  reporter[q].at = "idle" /\ reporter'[q].at = "idle"
  <2>1. reporter[r].at # "idle" \/ reporter'[r].at # "idle"
    <3>1. CASE Report(r)
      BY <1>1, <3>1 DEF Report
    <3>2. CASE ReporterStep(r)
      BY <3>2 DEF ReporterStep, Match, Clear, Detected, AskOn, CheckOn, SendOn, StoreOn
    <3>3. CASE FailOn(r)
      BY <3>3 DEF FailOn, Fails
    <3> QED  BY <3>1, <3>2, <3>3
  <2> QED  BY <1>0, <2>1 DEF OneReporter
<1>2. CASE Report(r)
  <2>1. /\ reporter'[r].at = "reported" /\ reporter'[r].active = ~motion /\ motion' = ~motion
        /\ UNCHANGED <<route, enabled, excused>>
    BY <1>1, <1>0, <1>2 DEF Report
  <2>2. ReportInv'
    BY <1>1, <1>0, <2>1 DEF ReportInv, IsCurrent
  <2>3. LightInv'
    BY <1>1, <1>0, <2>1 DEF LightInv, Before
  <2> QED  BY <2>2, <2>3
<1>3. CASE Match(r)
  <2>1. /\ reporter[r].at = "reported"
        /\ UNCHANGED <<route, enabled, motion, power, current, timer, drift, excused>>
    BY <1>3 DEF Match
  <2>2. CASE IsCurrent(route)
    <3>1. /\ reporter'[r].at = "matched" /\ reporter'[r].route = route
          /\ reporter'[r].active = reporter[r].active
      BY <1>1, <1>0, <1>3, <2>2 DEF Match, ReporterState
    <3>2. ReportInv'
      BY <1>1, <1>0, <2>1, <3>1 DEF ReportInv, IsCurrent
    <3>3. LightInv'
      BY <1>1, <1>0, <2>1, <3>1 DEF LightInv, Before
    <3> QED  BY <3>2, <3>3
  <2>3. CASE ~IsCurrent(route)
    <3>1. reporter'[r].at = "idle" /\ excused'
      BY <1>1, <1>0, <1>3, <2>1, <2>3, AtRest DEF Match, ReportDone, ReportInv
    <3>2. ReportInv' /\ LightInv'
      BY <1>1, <1>0, <2>1, <3>1 DEF ReportInv, LightInv
    <3> QED  BY <3>2
  <2> QED  BY <2>2, <2>3
<1>4. CASE Clear(r)
  <2>1. /\ reporter'[r].at = "idle" /\ ~motion /\ UNCHANGED <<route, enabled, motion, excused>>
    BY <1>1, <1>0, <1>4, AtRest DEF Clear, ReportDone, ReportInv
  <2> QED  BY <1>1, <1>0, <2>1 DEF ReportInv, LightInv, IsCurrent
<1>5. CASE Detected(r)
  <2>1. /\ reporter[r].at = "matched" /\ reporter'[r].at = "cancelled"
        /\ reporter'[r].route = reporter[r].route /\ reporter'[r].active = reporter[r].active
        /\ current' = None /\ UNCHANGED <<route, enabled, motion, excused>>
    BY <1>1, <1>0, <1>5 DEF Detected, ReporterAt, CancelOff, ReporterState
  <2>2. ReportInv'
    BY <1>1, <1>0, <2>1 DEF ReportInv, IsCurrent
  <2>3. LightInv'
    BY <1>1, <1>0, <2>1 DEF LightInv, Before
  <2> QED  BY <2>2, <2>3
<1>6. CASE AskOn(r)
  <2>1. /\ reporter[r].at = "cancelled" /\ reporter'[r].at = "waiting"
        /\ reporter'[r].route = reporter[r].route /\ reporter'[r].active = reporter[r].active
        /\ UNCHANGED <<route, enabled, motion, current, excused>>
    BY <1>1, <1>0, <1>6 DEF AskOn, ReporterAt, ReporterState
  <2>2. ReportInv'
    BY <1>1, <1>0, <2>1 DEF ReportInv, IsCurrent
  <2>3. LightInv'
    BY <1>1, <1>0, <2>1 DEF LightInv, Before
  <2> QED  BY <2>2, <2>3
<1>7. CASE CheckOn(r)
  <2>1. /\ reporter[r].at = "waiting" /\ First(r)
        /\ UNCHANGED <<route, enabled, motion, power, shadow, current, timer, drift>>
    BY <1>7 DEF CheckOn
  <2>2. Holders = {}
    <3>1. \A b \in Holders : b = r
      BY <2>1 DEF MotionInv, QueueInv, First
    <3>2. r \notin Holders
      BY <1>1, <1>0, <2>1 DEF Holders
    <3> QED  BY <3>1, <3>2
  <2>3. /\ \A t \in Timer : timer[t].at \notin {"sending", "sent", "failed"}
        /\ ~drift => shadow = power
    BY <2>2 DEF Holders, MotionInv, ShadowInv, Sent
  <2>4. CASE IsCurrent(reporter[r].route) /\ ~shadow
    <3>1. /\ reporter'[r].at = "sending" /\ reporter'[r].route = reporter[r].route
          /\ reporter'[r].active = reporter[r].active /\ excused' = drift
      BY <1>1, <1>0, <1>7, <2>4 DEF CheckOn, ReporterAt, ReporterState
    <3>2. ReportInv'
      BY <1>1, <1>0, <2>1, <2>4, <3>1 DEF ReportInv, IsCurrent
    <3>3. LightInv'
      BY <1>1, <1>0, <2>1, <2>3, <3>1 DEF LightInv, Before
    <3> QED  BY <3>2, <3>3
  <2>5. CASE IsCurrent(reporter[r].route) /\ shadow
    <3>1. reporter'[r].at = "idle" /\ excused' = drift
      BY <1>1, <1>0, <1>7, <2>5, AtRest DEF CheckOn, ReportDone
    <3>2. ReportInv'
      BY <1>1, <1>0, <2>1, <2>5, <3>1 DEF ReportInv, IsCurrent
    <3>3. LightInv'
      BY <1>1, <1>0, <2>1, <2>3, <2>5, <3>1 DEF LightInv, Before
    <3> QED  BY <3>2, <3>3
  <2>6. CASE ~IsCurrent(reporter[r].route)
    <3>1. reporter'[r].at = "idle" /\ excused' = excused
      BY <1>1, <1>0, <1>7, <2>6, AtRest DEF CheckOn, ReportDone
    <3>2. excused
      BY <2>1, <2>6 DEF ReportInv
    <3> QED  BY <1>1, <1>0, <2>1, <3>1, <3>2 DEF ReportInv, LightInv
  <2> QED  BY <1>1, <1>0, <2>4, <2>5, <2>6
<1>8. CASE SendOn(r)
  <2>1. /\ reporter[r].at = "sending" /\ reporter'[r].at = "sent"
        /\ reporter'[r].route = reporter[r].route /\ reporter'[r].active = reporter[r].active
        /\ power' = TRUE /\ UNCHANGED <<route, enabled, motion, current, timer, drift, excused>>
    BY <1>1, <1>0, <1>8 DEF SendOn, ReporterAt, ReporterState
  <2>2. ReportInv'
    BY <1>1, <1>0, <2>1 DEF ReportInv, IsCurrent
  <2>3. LightInv'
    BY <1>1, <1>0, <2>1 DEF LightInv, Before
  <2> QED  BY <2>2, <2>3
<1>9. CASE StoreOn(r)
  <2>1. /\ reporter[r].at = "sent" /\ reporter'[r].at = "idle"
        /\ UNCHANGED <<route, enabled, motion, power, current, timer, excused>>
    BY <1>1, <1>0, <1>9, AtRest DEF StoreOn, ReportDone
  <2>2. ReportInv'
    BY <1>1, <1>0, <2>1 DEF ReportInv, IsCurrent
  <2>3. ~excused => drift' = drift
    BY <1>9, <2>1 DEF StoreOn, ReportInv
  <2>4. LightInv'
    BY <1>1, <1>0, <2>1, <2>3 DEF LightInv, Before
  <2> QED  BY <2>2, <2>4
<1>10. CASE FailOn(r)
  <2>1. reporter'[r].at = "idle" /\ excused' = TRUE /\ UNCHANGED motion
    BY <1>1, <1>0, <1>10, AtRest DEF FailOn, ReportDone
  <2> QED  BY <1>1, <1>0, <2>1 DEF ReportInv, LightInv
<1> QED
  BY <1>2, <1>3, <1>4, <1>5, <1>6, <1>7, <1>8, <1>9, <1>10 DEF ReporterStep

\* The steps beside it.
LEMMA LightOtherStep ==
  ASSUME MotionInv, ReportInv, LightInv,
         \/ \E t \in Timer : TimerStep(t) \/ FailOff(t)
         \/ \E u \in User : UserStep(u) \/ \E on \in BOOLEAN : Order(u, on)
         \/ \E a \in Actor : SlotTimeout(a)
         \/ WatcherStep \/ Surprise \/ Save \/ Arm
  PROVE  ReportInv' /\ LightInv'
<1>1. /\ reporter \in [Reporter -> ReporterState] /\ timer \in [Timer -> TimerState]
      /\ current \in Timer \cup {None} /\ user \in [User -> UserState]
      /\ {motion, power, shadow, drift, excused} \subseteq BOOLEAN
      /\ None \notin Timer
  BY DEF MotionInv, TypeOK, ReporterState, TimerState, UserState
<1>2. ASSUME NEW t \in Timer, TimerStep(t) \/ FailOff(t)
      PROVE  ReportInv' /\ LightInv'
  <2>1. UNCHANGED <<automation, motion, reporter, excused>>
    BY <1>2 DEF TimerStep, Fire, CheckOff, SendOff, RetryOff, StoreOff, FailOff
  <2>2. current = None => current' = None
    BY <1>1, <1>2 DEF TimerStep, Fire, CheckOff, SendOff, RetryOff, StoreOff, FailOff,
       MayTurnOff, Forget
  <2>3. ASSUME Calm PROVE Calm' /\ power' = power /\ drift' = drift
    <3>1. /\ timer[t].at \notin {"sending", "sent", "failed"} /\ current = None
          /\ ~MayTurnOff(t)
      BY <1>1, <2>3 DEF Calm, MayTurnOff
    <3>2. CASE Fire(t)
      <4>1. timer'[t].at = "waiting" /\ \A s \in Timer \ {t} : timer'[s] = timer[s]
        BY <1>1, <3>2 DEF Fire, TimerAt, TimerState
      <4> QED  BY <2>2, <2>3, <3>2, <4>1 DEF Calm, Fire
    <3>3. CASE CheckOff(t)
      <4>1. timer'[t].at = "done" /\ \A s \in Timer \ {t} : timer'[s] = timer[s]
        BY <1>1, <3>1, <3>3, AtRest DEF CheckOff, TimerDone
      <4> QED  BY <2>2, <2>3, <3>3, <4>1 DEF Calm, CheckOff
    <3>4. ~(SendOff(t) \/ RetryOff(t) \/ StoreOff(t) \/ FailOff(t))
      BY <3>1 DEF SendOff, RetryOff, StoreOff, FailOff, Fails
    <3> QED  BY <1>2, <3>2, <3>3, <3>4 DEF TimerStep
  <2> QED  BY <2>1, <2>2, <2>3, LightStays
<1>3. ASSUME NEW u \in User, NEW on \in BOOLEAN, Order(u, on)
      PROVE  ReportInv' /\ LightInv'
  BY <1>3, LightStays DEF Order, Calm
<1>4. ASSUME NEW u \in User, Obey(u)
      PROVE  ReportInv' /\ LightInv'
  <2>1. /\ UNCHANGED <<automation, motion, reporter, current, timer>> /\ drift' = FALSE
        /\ power' = user[u].on /\ (excused' <=> excused \/ ~user[u].on)
        /\ user[u].on \in BOOLEAN
    BY <1>1, <1>4 DEF Obey, UserState
  <2> QED  BY <1>1, <2>1, LightStays DEF Calm
<1>5. ASSUME TimersMove, motion => current' \in {None, current},
             UNCHANGED <<automation, motion, power, reporter, drift, excused>>
      PROVE  ReportInv' /\ LightInv'
  <2>1. motion /\ Calm => Calm'
    BY <1>5 DEF TimersMove, Calm
  <2> QED  BY <1>5, <2>1, LightStays
<1>6. ASSUME NEW u \in User, Publish(u)
      PROVE  ReportInv' /\ LightInv'
  <2>1. user[u].on \in BOOLEAN /\ SyncPower(user[u].on)
    BY <1>1, <1>6 DEF Publish, UserState
  <2>2. TimersMove /\ (motion => current' \in {None, current})
    BY <2>1, SyncMoves DEF MotionInv
  <2> QED  BY <1>5, <1>6, <2>2 DEF Publish
<1>7. CASE PublishRefresh
  <2>1. (watcher = "on") \in BOOLEAN /\ SyncPower(watcher = "on")
    BY <1>7 DEF PublishRefresh
  <2>2. TimersMove /\ (motion => current' \in {None, current})
    BY <2>1, SyncMoves DEF MotionInv
  <2> QED  BY <1>5, <1>7, <2>2 DEF PublishRefresh, device
<1>8. CASE Refresh
  BY <1>1, <1>8, LightStays DEF Refresh, Calm
<1>9. ASSUME excused', UNCHANGED motion,
             current = None => current' = None,
             \A r \in Reporter : reporter'[r] = reporter[r] \/ reporter'[r].at = "idle"
      PROVE  ReportInv' /\ LightInv'
  BY <1>9 DEF ReportInv, LightInv
<1>10. CASE Surprise
  BY <1>9, <1>10 DEF Surprise
<1>11. ASSUME NEW a \in Actor, SlotTimeout(a)
       PROVE  ReportInv' /\ LightInv'
  <2>1. excused' /\ UNCHANGED motion /\ (current = None => current' = None)
    BY <1>1, <1>11 DEF SlotTimeout, TimedOutTimer, Forget
  <2>2. \A r \in Reporter : reporter'[r] = reporter[r] \/ reporter'[r].at = "idle"
    BY <1>1, <1>11, AtRest DEF SlotTimeout, ReportDone
  <2> QED  BY <1>9, <2>1, <2>2
<1>12. CASE Save \/ Arm
  <2>1. /\ excused' /\ UNCHANGED <<motion, reporter>>
        /\ (current = None => current' = None)
    BY <1>12 DEF Save, Arm, CancelOff
  <2> QED  BY <1>9, <2>1
<1> QED
  BY <1>2, <1>3, <1>4, <1>6, <1>7, <1>8, <1>10, <1>11, <1>12
     DEF UserStep, WatcherStep

LEMMA LightStart == Init => ReportInv /\ LightInv
  BY AtRest DEF Init, ReportInv, LightInv

LEMMA LightNext ==
  ASSUME MotionInv, MotionInv', ReportInv, LightInv, OneReporter, OneReporter', [Next]_vars
  PROVE  ReportInv' /\ LightInv'
<1>1. CASE UNCHANGED vars
  BY <1>1 DEF vars, automation, device, ReportInv, LightInv, Before, IsCurrent
<1>2. CASE Next
  BY <1>2, LightReporterStep, LightOtherStep DEF Next
<1> QED  BY <1>1, <1>2

LEMMA LightIsOn == MotionInv /\ LightInv => LightDuringMotion
  BY DEF LightInv, LightDuringMotion, Quiet, Before

\* With one thread of reports, whatever timers were firing, waiting for the
\* device or cancelled when motion began, and whatever commands fail: once
\* everything has come to rest the light is on during motion, unless a user, an
\* edit, a failure or a timeout excuses it.
THEOREM LightFollowsMotion == Spec /\ []OneReporter => []LightDuringMotion
BY LightStart, LightNext, LightIsOn, MotionInvariant, PTL DEF Spec

-----------------------------------------------------------------------------
(* Recordings, for any number of sensors, threads and users.               *)

RecordingTimer == [at : {"done", "pending", "waiting", "stopping", "stopped"},
                   source : Source \cup {None}, client : Nat]
RecordingRun == [at : {"idle", "waiting", "starting", "started", "undo"},
                 source : Source \cup {None}, client : Nat]
RecordingRequest == [at : {"idle", "waiting", "acting", "acted"},
                     action : {"start", "stop", "remove", None}, client : Nat]

RecordingTypes ==
  /\ client \in Nat /\ {shown, process, recExcused} \subseteq BOOLEAN
  /\ slot \in Timer \cup Runner \cup Viewer \cup {None}
  /\ recCurrent \in [Source -> Timer \cup {None}]
  /\ recTimer \in [Timer -> RecordingTimer]
  /\ runner \in [Runner -> RecordingRun]
  /\ recUser \in [Viewer -> RecordingRequest]
  /\ recUsed \in [DOMAIN Recording!Bounds -> Nat]

\* Who runs knows what for, and only who commands the camera has its slot.
RunsInv ==
  /\ \A t \in Timer : recTimer[t].at # "done" => recTimer[t].source \in Source
  /\ \A r \in Runner : runner[r].at # "idle" => runner[r].source \in Source /\ runner[r].client # 0
  /\ \A u \in Viewer : recUser[u].at # "idle" => recUser[u].action # None /\ recUser[u].client # 0
SlotInv ==
  /\ \A t \in Timer : slot = t <=> recTimer[t].at \in {"stopping", "stopped"}
  /\ \A r \in Runner : slot = r <=> runner[r].at \in {"starting", "started", "undo"}
  /\ \A u \in Viewer : slot = u <=> recUser[u].at \in {"acting", "acted"}

\* The timer in the entry of a sensor works for it, and who stops is entered.
RecordingEntryInv ==
  /\ \A s \in Source : recCurrent[s] # None =>
       recTimer[recCurrent[s]].at # "done" /\ recTimer[recCurrent[s]].source = s
  /\ \A t \in Timer : recTimer[t].at = "stopping" => Recording!IsCurrent(t)

\* Unless a client was removed under a recording: what is shown is what the
\* camera does but for the command under way, and the client that a command is
\* about stays or is gone.
Stays(c) == client \in {c, 0}
ShownInv ==
  /\ shown => client # 0
  /\ ~recExcused /\ slot = None => process = shown
StoppingInv == ~recExcused => \A t \in Timer :
  /\ recTimer[t].at = "stopping" => process = shown /\ Stays(recTimer[t].client)
  /\ recTimer[t].at = "stopped" => ~process /\ Stays(recTimer[t].client)
StartingInv == ~recExcused => \A r \in Runner :
  /\ runner[r].at = "starting" => Stays(runner[r].client) /\ (client # 0 => process = shown)
  /\ runner[r].at = "started" => process /\ Stays(runner[r].client)
  /\ runner[r].at = "undo" => client = 0
ActingInv == ~recExcused => \A u \in Viewer :
  /\ recUser[u].at \in {"acting", "acted"} => Stays(recUser[u].client)
  /\ recUser[u].at = "acting" /\ (client # 0 \/ recUser[u].action # "start") => process = shown
  /\ recUser[u].at = "acted" =>
       /\ recUser[u].action = "start" => process
       /\ recUser[u].action = "stop" => ~process
       /\ recUser[u].action = "remove" => client = 0
CameraInv == ShownInv /\ StoppingInv /\ StartingInv /\ ActingInv

RecordingInv == RecordingTypes /\ RunsInv /\ SlotInv /\ RecordingEntryInv /\ CameraInv

HIDE AutoOffAssumption
USE AutomationsAssumption DEF RecordingInv, RecordingTypes, RunsInv, SlotInv, RecordingEntryInv,
    CameraInv, ShownInv, StoppingInv, StartingInv, ActingInv, Stays, RecordingTimer,
    RecordingRun, RecordingRequest, Recording!camera, Recording!actors, Recording!Spend,
    Recording!Take, Recording!Leave, Recording!Finished, Recording!NoRun, Recording!NoRequest,
    Recording!IsCurrent, Recording!Bounds

LEMMA RecordingStart == Recording!Init => RecordingInv
<1> SUFFICES ASSUME Recording!Init PROVE RecordingInv
  OBVIOUS
<1> USE DEF Recording!Init
<1>1. RecordingTypes
  OBVIOUS
<1>2. RunsInv
  OBVIOUS
<1>3. SlotInv
  OBVIOUS
<1>4. RecordingEntryInv
  OBVIOUS
<1>5. CameraInv
  OBVIOUS
<1> QED  BY <1>1, <1>2, <1>3, <1>4, <1>5

LEMMA RecordingFireInv ==
  ASSUME RecordingInv, NEW t \in Timer, Recording!Fire(t)
  PROVE  RecordingInv'
<1> USE DEF Recording!Fire, Recording!TimerAt
<1>1. RecordingTypes'
  OBVIOUS
<1>2. RunsInv'
  OBVIOUS
<1>3. SlotInv'
  OBVIOUS
<1>4. RecordingEntryInv'
  OBVIOUS
<1>5. CameraInv'
  OBVIOUS
<1> QED  BY <1>1, <1>2, <1>3, <1>4, <1>5

LEMMA RecordingCheckStopInv ==
  ASSUME RecordingInv, NEW t \in Timer, Recording!CheckStop(t)
  PROVE  RecordingInv'
<1> USE DEF Recording!CheckStop, Recording!MayStop, Recording!Forget
<1>a. /\ slot = None /\ client' = client /\ shown' = shown /\ process' = process
      /\ recExcused' = recExcused /\ runner' = runner /\ recUser' = recUser
      /\ recTimer[t].at = "waiting" /\ recTimer[t] \in RecordingTimer
  OBVIOUS
<1>b. /\ \A x \in Timer : recTimer[x].at \notin {"stopping", "stopped"}
      /\ \A x \in Runner : runner[x].at \notin {"starting", "started", "undo"}
      /\ \A x \in Viewer : recUser[x].at \notin {"acting", "acted"}
  BY <1>a
<1>c. /\ DOMAIN recTimer' = Timer /\ recTimer' = [x \in Timer |-> recTimer'[x]]
      /\ \A x \in Timer : x # t => recTimer'[x] = recTimer[x]
  OBVIOUS
<1>d. recTimer[t].source \in Source
  BY <1>a
<1>e. ASSUME Recording!MayStop(t)
      PROVE  /\ slot' = t /\ recCurrent' = recCurrent /\ client # 0 /\ Recording!IsCurrent(t)
             /\ recTimer'[t] \in RecordingTimer
             /\ recTimer'[t].at = "stopping" /\ recTimer'[t].source = recTimer[t].source
             /\ recTimer'[t].client = client
  <2>1. /\ slot' = t /\ recCurrent' = recCurrent /\ client # 0 /\ Recording!IsCurrent(t)
        /\ recTimer' = [recTimer EXCEPT ![t].at = "stopping", ![t].client = client]
    BY <1>e
  <2>2. recTimer \in [Timer -> RecordingTimer] /\ client \in Nat
    OBVIOUS
  <2> HIDE DEF RecordingInv, Recording!CheckStop
  <2> QED  BY <2>1, <2>2
<1>f. ASSUME ~Recording!MayStop(t)
      PROVE  /\ slot' = slot /\ recTimer'[t] = Recording!Finished
             /\ \A s \in Source : \/ recCurrent'[s] = recCurrent[s] /\ recCurrent[s] # t
                                  \/ recCurrent'[s] = None
  BY <1>f
<1>1. RecordingTypes'
  <2>1. (client \in Nat /\ {shown, process, recExcused} \subseteq BOOLEAN)'
    OBVIOUS
  <2>2. (slot \in Timer \cup Runner \cup Viewer \cup {None})'
    OBVIOUS
  <2>3. (recCurrent \in [Source -> Timer \cup {None}])'
    OBVIOUS
  <2>4. (recTimer \in [Timer -> RecordingTimer])'
    <3>1. \A x \in Timer : recTimer[x] \in RecordingTimer
      OBVIOUS
    <3>2. recTimer'[t] \in RecordingTimer
      BY <1>e, <1>f
    <3> HIDE DEF RecordingInv, Recording!CheckStop, RecordingTimer
    <3> QED  BY <3>1, <3>2, <1>c
  <2>5. (runner \in [Runner -> RecordingRun])'
    OBVIOUS
  <2>6. (recUser \in [Viewer -> RecordingRequest])'
    OBVIOUS
  <2>7. (recUsed \in [DOMAIN Recording!Bounds -> Nat])'
    OBVIOUS
  <2> QED  BY <2>1, <2>2, <2>3, <2>4, <2>5, <2>6, <2>7
<1>2. RunsInv'
  <2>1. RunsInv /\ runner' = runner /\ recUser' = recUser
    OBVIOUS
  <2>2. recTimer'[t].at = "done" \/ recTimer'[t].source = recTimer[t].source
    BY <1>e, <1>f
  <2> HIDE DEF RecordingInv, Recording!CheckStop
  <2> QED  BY <1>c, <1>d, <2>1, <2>2
<1>3. SlotInv'
  OBVIOUS
<1>4. RecordingEntryInv'
  <2>0. RecordingEntryInv /\ None \notin Timer /\ recCurrent \in [Source -> Timer \cup {None}]
    OBVIOUS
  <2>1. CASE Recording!MayStop(t)
    <3>1. recTimer[t].at = "waiting"
      BY <1>a
    <3> HIDE DEF RecordingInv, Recording!CheckStop
    <3> QED  BY <1>b, <1>c, <1>d, <1>e, <2>0, <2>1, <3>1
  <2>2. CASE ~Recording!MayStop(t)
    <3>1. recTimer'[t].at = "done"
      BY <1>f, <2>2
    <3> HIDE DEF RecordingInv, Recording!CheckStop
    <3> QED  BY <1>b, <1>c, <1>d, <1>f, <2>0, <2>2, <3>1
  <2> QED  BY <2>1, <2>2
<1>5. CameraInv'
  <2>0. CameraInv /\ None \notin Timer
    OBVIOUS
  <2>1. recTimer'[t].at \in {"stopping", "done"} /\ (recTimer'[t].at = "stopping" => recTimer'[t].client = client)
    BY <1>e, <1>f
  <2>2. slot' = None \/ slot' = t
    BY <1>a, <1>e, <1>f
  <2> HIDE DEF RecordingInv, Recording!CheckStop
  <2>3. ShownInv'
    BY <1>a, <2>0, <2>2
  <2>4. StoppingInv'
    BY <1>a, <1>b, <1>c, <2>0, <2>1
  <2>5. StartingInv'
    BY <1>a, <1>b
  <2>6. ActingInv'
    BY <1>a, <1>b
  <2> QED  BY <2>3, <2>4, <2>5, <2>6
<1> QED  BY <1>1, <1>2, <1>3, <1>4, <1>5

LEMMA RecordingStopByTimerInv ==
  ASSUME RecordingInv, NEW t \in Timer, Recording!StopByTimer(t)
  PROVE  RecordingInv'
<1> USE DEF Recording!StopByTimer, Recording!TimerAt
<1>1. RecordingTypes'
  <2>1. (client \in Nat /\ {shown, process, recExcused} \subseteq BOOLEAN)'
    OBVIOUS
  <2>2. (slot \in Timer \cup Runner \cup Viewer \cup {None})'
    OBVIOUS
  <2>3. (recCurrent \in [Source -> Timer \cup {None}])'
    OBVIOUS
  <2>4. (recTimer \in [Timer -> RecordingTimer])'
    OBVIOUS
  <2>5. (runner \in [Runner -> RecordingRun])'
    OBVIOUS
  <2>6. (recUser \in [Viewer -> RecordingRequest])'
    OBVIOUS
  <2>7. (recUsed \in [DOMAIN Recording!Bounds -> Nat])'
    OBVIOUS
  <2> QED  BY <2>1, <2>2, <2>3, <2>4, <2>5, <2>6, <2>7
<1>2. RunsInv'
  OBVIOUS
<1>3. SlotInv'
  OBVIOUS
<1>4. RecordingEntryInv'
  OBVIOUS
<1>5. CameraInv'
  OBVIOUS
<1> QED  BY <1>1, <1>2, <1>3, <1>4, <1>5

LEMMA RecordingStopFailsInv ==
  ASSUME RecordingInv, NEW t \in Timer, Recording!StopFails(t)
  PROVE  RecordingInv'
<1> USE DEF Recording!StopFails, Recording!Forget
<1>1. RecordingTypes'
  <2>1. (client \in Nat /\ {shown, process, recExcused} \subseteq BOOLEAN)'
    OBVIOUS
  <2>2. (slot \in Timer \cup Runner \cup Viewer \cup {None})'
    OBVIOUS
  <2>3. (recCurrent \in [Source -> Timer \cup {None}])'
    OBVIOUS
  <2>4. (recTimer \in [Timer -> RecordingTimer])'
    OBVIOUS
  <2>5. (runner \in [Runner -> RecordingRun])'
    OBVIOUS
  <2>6. (recUser \in [Viewer -> RecordingRequest])'
    OBVIOUS
  <2>7. (recUsed \in [DOMAIN Recording!Bounds -> Nat])'
    OBVIOUS
  <2> QED  BY <2>1, <2>2, <2>3, <2>4, <2>5, <2>6, <2>7
<1>2. RunsInv'
  OBVIOUS
<1>3. SlotInv'
  OBVIOUS
<1>4. RecordingEntryInv'
  BY SMTT(30)
<1>5. CameraInv'
  OBVIOUS
<1> QED  BY <1>1, <1>2, <1>3, <1>4, <1>5

LEMMA RecordingStoreStopInv ==
  ASSUME RecordingInv, NEW t \in Timer, Recording!StoreStop(t)
  PROVE  RecordingInv'
<1> USE DEF Recording!StoreStop, Recording!Forget
<1>1. RecordingTypes'
  OBVIOUS
<1>2. RunsInv'
  OBVIOUS
<1>3. SlotInv'
  OBVIOUS
<1>4. RecordingEntryInv'
  OBVIOUS
<1>5. CameraInv'
  OBVIOUS
<1> QED  BY <1>1, <1>2, <1>3, <1>4, <1>5

LEMMA RecordingTimerGivesUpInv ==
  ASSUME RecordingInv, NEW t \in Timer, Recording!TimerGivesUp(t)
  PROVE  RecordingInv'
<1> USE DEF Recording!TimerGivesUp, Recording!Forget
<1>1. RecordingTypes'
  OBVIOUS
<1>2. RunsInv'
  OBVIOUS
<1>3. SlotInv'
  OBVIOUS
<1>4. RecordingEntryInv'
  OBVIOUS
<1>5. CameraInv'
  OBVIOUS
<1> QED  BY <1>1, <1>2, <1>3, <1>4, <1>5

LEMMA RecordingCheckStartInv ==
  ASSUME RecordingInv, NEW r \in Runner, Recording!CheckStart(r)
  PROVE  RecordingInv'
<1> USE DEF Recording!CheckStart, Recording!MayStart, Recording!RunnerAt, Recording!RunDone
<1>a. /\ \/ runner' = [runner EXCEPT ![r] = Recording!NoRun] /\ slot' = None
         \/ runner' = [runner EXCEPT ![r].at = "starting"] /\ slot' = r
      /\ runner[r].at = "waiting" /\ slot = None /\ recTimer' = recTimer /\ recUser' = recUser
  OBVIOUS
<1>b. \A x \in Runner : x # r => runner'[x] = runner[x]
  BY <1>a
<1>c. \/ runner'[r].at = "idle" /\ slot' = None
      \/ /\ runner'[r].at = "starting" /\ slot' = r
         /\ runner'[r].source = runner[r].source /\ runner'[r].client = runner[r].client
  BY <1>a
<1>1. RecordingTypes'
  OBVIOUS
<1>2. RunsInv'
  <2>1. RunsInv
    OBVIOUS
  <2> HIDE DEF RecordingInv, Recording!CheckStart
  <2> QED  BY <1>a, <1>b, <1>c, <2>1
<1>3. SlotInv'
  <2>1. SlotInv
    OBVIOUS
  <2>2. r \notin Timer \cup Viewer \cup {None} /\ None \notin Timer \cup Viewer \cup Runner
    OBVIOUS
  <2> HIDE DEF RecordingInv, Recording!CheckStart
  <2> QED  BY <1>a, <1>b, <1>c, <2>1, <2>2
<1>4. RecordingEntryInv'
  OBVIOUS
<1>5. CameraInv'
  <2>1. /\ CameraInv /\ None \notin Runner
        /\ UNCHANGED <<client, shown, process, recExcused, recTimer, recUser>>
    OBVIOUS
  <2>2. runner'[r].at = "starting" => client = runner[r].client /\ client = runner'[r].client
    <3>1. CASE Recording!MayStart(r)
      BY <3>1, <1>c
    <3>2. CASE ~Recording!MayStart(r)
      <4>1. slot' = None /\ slot' # r
        BY <3>2
      <4> QED  BY <4>1, <1>c
    <3> QED  BY <3>1, <3>2
  <2>3. \A x \in Runner : runner[x].at \notin {"starting", "started", "undo"}
    BY <1>a
  <2> HIDE DEF RecordingInv, Recording!CheckStart
  <2>4. ShownInv'
    BY <1>a, <2>1
  <2>5. StoppingInv' /\ ActingInv'
    BY <2>1
  <2>6. StartingInv'
    BY <1>a, <1>b, <1>c, <2>1, <2>2, <2>3
  <2> QED  BY <2>4, <2>5, <2>6
<1> QED  BY <1>1, <1>2, <1>3, <1>4, <1>5

LEMMA RecordingStartProcessInv ==
  ASSUME RecordingInv, NEW r \in Runner, Recording!StartProcess(r)
  PROVE  RecordingInv'
<1> USE DEF Recording!StartProcess, Recording!RunnerAt
<1>a. slot = r
  OBVIOUS
<1>b. \A x \in Timer : recTimer[x].at \notin {"stopping", "stopped"}
  BY <1>a
<1>c. \A x \in Runner : x # r => runner[x].at \notin {"starting", "started", "undo"}
  BY <1>a
<1>d. \A x \in Viewer : recUser[x].at \notin {"acting", "acted"}
  BY <1>a
<1>e. runner'[r].at = "started" /\ runner'[r].client = runner[r].client
  OBVIOUS
<1>f. \A x \in Runner : x # r => runner'[x] = runner[x]
  OBVIOUS
<1>1. RecordingTypes'
  OBVIOUS
<1>2. RunsInv'
  OBVIOUS
<1>3. SlotInv'
  OBVIOUS
<1>4. RecordingEntryInv'
  OBVIOUS
<1>5. CameraInv'
  <2>1. /\ client' = client /\ shown' = shown /\ recExcused' = recExcused /\ slot' = slot
        /\ recTimer' = recTimer /\ recUser' = recUser /\ process' = TRUE
    OBVIOUS
  <2>2. ShownInv /\ StartingInv /\ slot # None /\ runner[r].at = "starting"
    BY <1>a
  <2> HIDE DEF RecordingInv, Recording!StartProcess
  <2>3. ShownInv'
    BY <2>1, <2>2
  <2>4. StoppingInv'
    BY <2>1, <1>b
  <2>5. StartingInv'
    BY <2>1, <2>2, <1>c, <1>e, <1>f
  <2>6. ActingInv'
    BY <2>1, <1>d
  <2> QED  BY <2>3, <2>4, <2>5, <2>6
<1> QED  BY <1>1, <1>2, <1>3, <1>4, <1>5

LEMMA RecordingStartFailsInv ==
  ASSUME RecordingInv, NEW r \in Runner, Recording!StartFails(r)
  PROVE  RecordingInv'
<1> USE DEF Recording!StartFails, Recording!RunDone
<1>1. RecordingTypes'
  OBVIOUS
<1>2. RunsInv'
  OBVIOUS
<1>3. SlotInv'
  OBVIOUS
<1>4. RecordingEntryInv'
  OBVIOUS
<1>5. CameraInv'
  OBVIOUS
<1> QED  BY <1>1, <1>2, <1>3, <1>4, <1>5

LEMMA RecordingStoreStartInv ==
  ASSUME RecordingInv, NEW r \in Runner, Recording!StoreStart(r)
  PROVE  RecordingInv'
<1> USE DEF Recording!StoreStart, Recording!AfterRemoval, Recording!RunnerAt, Recording!RunDone,
       Recording!Schedule, Recording!Alive, Recording!Spare, Recording!Stopped
<1>a. slot = r
  OBVIOUS
<1>b. \A x \in Timer : recTimer[x].at \notin {"stopping", "stopped"}
  BY <1>a
<1>c. \A x \in Runner : x # r => runner[x].at \notin {"starting", "started", "undo"}
  BY <1>a
<1>d. \A x \in Viewer : recUser[x].at \notin {"acting", "acted"}
  BY <1>a
<1>f. \A x \in Runner : x # r => runner'[x] = runner[x]
  OBVIOUS
<1>1. RecordingTypes'
  <2>1. (client \in Nat /\ {shown, process, recExcused} \subseteq BOOLEAN)'
    OBVIOUS
  <2>2. (slot \in Timer \cup Runner \cup Viewer \cup {None})'
    OBVIOUS
  <2>3. (recCurrent \in [Source -> Timer \cup {None}])'
    OBVIOUS
  <2>4. (recTimer \in [Timer -> RecordingTimer])'
    OBVIOUS
  <2>5. (runner \in [Runner -> RecordingRun])'
    <3>1. runner \in [Runner -> RecordingRun]
      OBVIOUS
    <3>2. runner' = [runner EXCEPT ![r] = Recording!NoRun] \/ runner' = [runner EXCEPT ![r].at = "undo"]
      OBVIOUS
    <3> HIDE DEF RecordingInv, Recording!StoreStart
    <3> QED  BY <3>1, <3>2
  <2>6. (recUser \in [Viewer -> RecordingRequest])'
    OBVIOUS
  <2>7. (recUsed \in [DOMAIN Recording!Bounds -> Nat])'
    OBVIOUS
  <2> QED  BY <2>1, <2>2, <2>3, <2>4, <2>5, <2>6, <2>7
<1>2. RunsInv'
  BY SMTT(30)
<1>3. SlotInv'
  OBVIOUS
<1>4. RecordingEntryInv'
  <2>1. CASE UNCHANGED <<recCurrent, recTimer>>
    BY <2>1
  <2>2. ASSUME NEW t \in Recording!Spare, NEW s \in Source,
               recCurrent' = [recCurrent EXCEPT ![s] = t],
               recTimer' = [x \in Timer |->
                 IF x = t THEN [at |-> "pending", source |-> s, client |-> 0]
                 ELSE IF x = recCurrent[s] THEN Recording!Stopped(x) ELSE recTimer[x]]
        PROVE  RecordingEntryInv'
    <3>1. t \in Timer /\ recTimer[t].at = "done" /\ \A q \in Source : recCurrent[q] # t
      BY <2>2 DEF Recording!Spare
    <3>2. recTimer'[t].at = "pending" /\ recTimer'[t].source = s
      BY <2>2, <3>1
    <3>3. ASSUME NEW q \in Source, recCurrent'[q] # None, q # s
          PROVE  recTimer'[recCurrent'[q]] = recTimer[recCurrent[q]] /\ recCurrent'[q] = recCurrent[q]
      <4>1. recCurrent'[q] = recCurrent[q] /\ recCurrent[q] \in Timer /\ recCurrent[q] # t
        BY <2>2, <3>1, <3>3
      <4>2. recTimer[recCurrent[q]].source = q /\ (recCurrent[s] # None => recTimer[recCurrent[s]].source = s)
        BY <4>1
      <4>3. recCurrent[q] # recCurrent[s]
        BY <4>2, <3>3, <4>1
      <4> QED  BY <4>1, <4>3, <2>2
    <3>4. \A q \in Source : recCurrent'[q] # None =>
            recTimer'[recCurrent'[q]].at # "done" /\ recTimer'[recCurrent'[q]].source = q
      <4> SUFFICES ASSUME NEW q \in Source, recCurrent'[q] # None
                   PROVE  recTimer'[recCurrent'[q]].at # "done" /\ recTimer'[recCurrent'[q]].source = q
        OBVIOUS
      <4>1. CASE q = s
        BY <4>1, <3>2, <2>2
      <4>2. CASE q # s
        BY <4>2, <3>3
      <4> QED  BY <4>1, <4>2
    <3>5. \A x \in Timer : recTimer'[x].at # "stopping"
      BY <2>2, <1>b DEF Recording!Stopped
    <3> QED  BY <3>4, <3>5
  <2>3. CASE client = runner[r].client
    <3>1. Recording!Schedule(runner[r].source) /\ runner[r].source \in Source
      BY <2>3
    <3> HIDE DEF RecordingInv, Recording!StoreStart, RecordingEntryInv
    <3> QED  BY <3>1, <2>1, <2>2 DEF Recording!Schedule
  <2>4. CASE client # runner[r].client
    BY <2>1, <2>4
  <2> QED  BY <2>3, <2>4
<1>5. CameraInv'
  <2>1. ShownInv'
    <3>1. /\ client' = client /\ process' = process /\ recExcused' = recExcused
          /\ shown => client # 0
          /\ runner[r].client # 0 /\ (~recExcused => process /\ client \in {runner[r].client, 0})
      BY <1>a
    <3>2. CASE client = runner[r].client
      <4>1. shown' = TRUE
        BY <3>2
      <4> HIDE DEF RecordingInv, Recording!StoreStart
      <4> QED  BY <4>1, <3>1, <3>2
    <3>3. CASE client # runner[r].client
      <4>1. shown' = shown /\ (client = 0 => slot' = slot)
        BY <3>3
      <4>2. slot # None
        BY <1>a
      <4> QED  BY <4>1, <4>2, <3>1, <3>3
    <3> QED  BY <3>2, <3>3
  <2>2. StoppingInv'
    OBVIOUS
  <2>3. StartingInv'
    OBVIOUS
  <2>4. ActingInv'
    OBVIOUS
  <2> QED  BY <2>1, <2>2, <2>3, <2>4
<1> QED  BY <1>1, <1>2, <1>3, <1>4, <1>5

LEMMA RecordingUndoStartInv ==
  ASSUME RecordingInv, NEW r \in Runner, Recording!UndoStart(r)
  PROVE  RecordingInv'
<1> USE DEF Recording!UndoStart, Recording!RunDone
<1>1. RecordingTypes'
  OBVIOUS
<1>2. RunsInv'
  OBVIOUS
<1>3. SlotInv'
  OBVIOUS
<1>4. RecordingEntryInv'
  OBVIOUS
<1>5. CameraInv'
  <2>1. ShownInv'
    OBVIOUS
  <2>2. StoppingInv'
    OBVIOUS
  <2>3. StartingInv'
    OBVIOUS
  <2>4. ActingInv'
    OBVIOUS
  <2> QED  BY <2>1, <2>2, <2>3, <2>4
<1> QED  BY <1>1, <1>2, <1>3, <1>4, <1>5

LEMMA RecordingRunnerGivesUpInv ==
  ASSUME RecordingInv, NEW r \in Runner, Recording!RunnerGivesUp(r)
  PROVE  RecordingInv'
<1> USE DEF Recording!RunnerGivesUp, Recording!RunDone
<1>1. RecordingTypes'
  OBVIOUS
<1>2. RunsInv'
  OBVIOUS
<1>3. SlotInv'
  OBVIOUS
<1>4. RecordingEntryInv'
  OBVIOUS
<1>5. CameraInv'
  OBVIOUS
<1> QED  BY <1>1, <1>2, <1>3, <1>4, <1>5

LEMMA RecordingCheckRequestInv ==
  ASSUME RecordingInv, NEW u \in Viewer, Recording!CheckRequest(u)
  PROVE  RecordingInv'
<1> USE DEF Recording!CheckRequest, Recording!UserAt, Recording!Answer
<1>1. RecordingTypes'
  OBVIOUS
<1>2. RunsInv'
  BY SMTT(30)
<1>3. SlotInv'
  OBVIOUS
<1>4. RecordingEntryInv'
  OBVIOUS
<1>5. CameraInv'
  OBVIOUS
<1> QED  BY <1>1, <1>2, <1>3, <1>4, <1>5

LEMMA RecordingCommandInv ==
  ASSUME RecordingInv, NEW u \in Viewer, Recording!Command(u)
  PROVE  RecordingInv'
<1> USE DEF Recording!Command, Recording!UserAt
<1>a. slot = u
  OBVIOUS
<1>b. \A x \in Timer : recTimer[x].at \notin {"stopping", "stopped"}
  BY <1>a
<1>c. \A x \in Runner : runner[x].at \notin {"starting", "started", "undo"}
  BY <1>a
<1>d. \A x \in Viewer : x # u => recUser[x].at \notin {"acting", "acted"}
  BY <1>a
<1>e. recUser'[u] = [recUser[u] EXCEPT !.at = "acted"]
  OBVIOUS
<1>f. \A x \in Viewer : x # u => recUser'[x] = recUser[x]
  OBVIOUS
<1>1. RecordingTypes'
  OBVIOUS
<1>2. RunsInv'
  OBVIOUS
<1>3. SlotInv'
  OBVIOUS
<1>4. RecordingEntryInv'
  OBVIOUS
<1>5. CameraInv'
  <2>1. ShownInv'
    OBVIOUS
  <2>2. StoppingInv'
    OBVIOUS
  <2>3. StartingInv'
    OBVIOUS
  <2>4. ActingInv'
    <3>0. (recUser[u].action = "start" => process') /\ (recUser[u].action = "stop" => ~process')
      OBVIOUS
    <3>1. recExcused' = recExcused /\ client' = client
      OBVIOUS
    <3>2. /\ ~recExcused => Stays(recUser[u].client)
          /\ recUser[u].action \notin {"remove"} /\ recUser \in [Viewer -> RecordingRequest]
      OBVIOUS
    <3>3. /\ recUser'[u].at = "acted" /\ recUser'[u].action = recUser[u].action
          /\ recUser'[u].client = recUser[u].client
      BY <3>2, <1>e
    <3>4. \A x \in Viewer : x # u => recUser'[x].at \notin {"acting", "acted"}
      BY <1>d, <1>f
    <3> HIDE DEF RecordingInv, Recording!Command
    <3>5. ASSUME ~recExcused', NEW x \in Viewer, recUser'[x].at \in {"acting", "acted"}
          PROVE  /\ x = u /\ recUser'[x].at # "acting" /\ client' \in {recUser'[x].client, 0}
                 /\ recUser'[x].action # "remove"
                 /\ recUser'[x].action = "start" => process'
                 /\ recUser'[x].action = "stop" => ~process'
      <4>1. x = u
        BY <3>4, <3>5
      <4> QED  BY <4>1, <3>0, <3>1, <3>2, <3>3, <3>5
    <3> QED  BY <3>5, <3>3
  <2> QED  BY <2>1, <2>2, <2>3, <2>4
<1> QED  BY <1>1, <1>2, <1>3, <1>4, <1>5

LEMMA RecordingStoreCommandInv ==
  ASSUME RecordingInv, NEW u \in Viewer, Recording!StoreCommand(u)
  PROVE  RecordingInv'
<1> USE DEF Recording!StoreCommand, Recording!Answer
<1>1. RecordingTypes'
  OBVIOUS
<1>2. RunsInv'
  OBVIOUS
<1>3. SlotInv'
  OBVIOUS
<1>4. RecordingEntryInv'
  OBVIOUS
<1>5. CameraInv'
  OBVIOUS
<1> QED  BY <1>1, <1>2, <1>3, <1>4, <1>5

LEMMA RecordingRemoveOrderedInv ==
  ASSUME RecordingInv, NEW u \in Viewer, Recording!RemoveOrdered(u)
  PROVE  RecordingInv'
<1> USE DEF Recording!RemoveOrdered, Recording!UserAt
<1>a. slot = u
  OBVIOUS
<1>b. \A x \in Timer : recTimer[x].at \notin {"stopping", "stopped"}
  BY <1>a
<1>c. \A x \in Runner : runner[x].at \notin {"starting", "started", "undo"}
  BY <1>a
<1>d. \A x \in Viewer : x # u => recUser[x].at \notin {"acting", "acted"}
  BY <1>a
<1>e. recUser'[u] = [recUser[u] EXCEPT !.at = "acted"]
  OBVIOUS
<1>f. \A x \in Viewer : x # u => recUser'[x] = recUser[x]
  OBVIOUS
<1>1. RecordingTypes'
  OBVIOUS
<1>2. RunsInv'
  OBVIOUS
<1>3. SlotInv'
  OBVIOUS
<1>4. RecordingEntryInv'
  OBVIOUS
<1>5. CameraInv'
  <2>1. ShownInv'
    <3>1. slot' = slot /\ slot # None /\ shown' = (shown /\ client' # 0)
      BY <1>a
    <3> QED  BY <3>1
  <2>2. StoppingInv'
    OBVIOUS
  <2>3. StartingInv'
    OBVIOUS
  <2>4. ActingInv'
    OBVIOUS
  <2> QED  BY <2>1, <2>2, <2>3, <2>4
<1> QED  BY <1>1, <1>2, <1>3, <1>4, <1>5

LEMMA RecordingStopRemovedInv ==
  ASSUME RecordingInv, NEW u \in Viewer, Recording!StopRemoved(u)
  PROVE  RecordingInv'
<1> USE DEF Recording!StopRemoved, Recording!Answer
<1>1. RecordingTypes'
  OBVIOUS
<1>2. RunsInv'
  OBVIOUS
<1>3. SlotInv'
  OBVIOUS
<1>4. RecordingEntryInv'
  OBVIOUS
<1>5. CameraInv'
  <2>1. ShownInv'
    OBVIOUS
  <2>2. StoppingInv'
    OBVIOUS
  <2>3. StartingInv'
    OBVIOUS
  <2>4. ActingInv'
    OBVIOUS
  <2> QED  BY <2>1, <2>2, <2>3, <2>4
<1> QED  BY <1>1, <1>2, <1>3, <1>4, <1>5

LEMMA RecordingTriggerInv ==
  ASSUME RecordingInv, NEW r \in Runner, NEW s \in Source, Recording!Trigger(r, s)
  PROVE  RecordingInv'
<1> USE DEF Recording!Trigger
<1>1. RecordingTypes'
  OBVIOUS
<1>2. RunsInv'
  OBVIOUS
<1>3. SlotInv'
  OBVIOUS
<1>4. RecordingEntryInv'
  OBVIOUS
<1>5. CameraInv'
  OBVIOUS
<1> QED  BY <1>1, <1>2, <1>3, <1>4, <1>5

LEMMA RecordingRequestInv ==
  ASSUME RecordingInv, NEW u \in Viewer, NEW a \in {"start", "stop", "remove"}, Recording!Request(u, a)
  PROVE  RecordingInv'
<1> USE DEF Recording!Request
<1>1. RecordingTypes'
  OBVIOUS
<1>2. RunsInv'
  OBVIOUS
<1>3. SlotInv'
  OBVIOUS
<1>4. RecordingEntryInv'
  OBVIOUS
<1>5. CameraInv'
  OBVIOUS
<1> QED  BY <1>1, <1>2, <1>3, <1>4, <1>5

LEMMA RecordingRemoveClientInv ==
  ASSUME RecordingInv, Recording!RemoveClient
  PROVE  RecordingInv'
<1> USE DEF Recording!RemoveClient, Recording!Starting
<1>a. slot \notin Runner /\ (slot \in Viewer => recUser[slot].action # "start")
        => ~Recording!Starting
  BY DEF Recording!Starting
<1>b. /\ client' = 0 /\ shown' = FALSE /\ process' = process /\ slot' = slot
      /\ recTimer' = recTimer /\ runner' = runner /\ recUser' = recUser
      /\ ~recExcused' => ~recExcused /\ (~process \/ Recording!Starting)
  OBVIOUS
<1>1. RecordingTypes'
  <2>1. (client \in Nat /\ {shown, process, recExcused} \subseteq BOOLEAN)'
    OBVIOUS
  <2>2. (slot \in Timer \cup Runner \cup Viewer \cup {None})'
    OBVIOUS
  <2>3. (recCurrent \in [Source -> Timer \cup {None}])'
    OBVIOUS
  <2>4. (recTimer \in [Timer -> RecordingTimer])'
    OBVIOUS
  <2>5. (runner \in [Runner -> RecordingRun])'
    OBVIOUS
  <2>6. (recUser \in [Viewer -> RecordingRequest])'
    OBVIOUS
  <2>7. (recUsed \in [DOMAIN Recording!Bounds -> Nat])'
    OBVIOUS
  <2> QED  BY <2>1, <2>2, <2>3, <2>4, <2>5, <2>6, <2>7
<1>2. RunsInv'
  OBVIOUS
<1>3. SlotInv'
  OBVIOUS
<1>4. RecordingEntryInv'
  OBVIOUS
<1>5. CameraInv'
  <2>1. ShownInv'
    <3>1. None \notin Runner \cup Viewer
      OBVIOUS
    <3>2. process \in BOOLEAN
      OBVIOUS
    <3> HIDE DEF RecordingInv, Recording!RemoveClient, Recording!Starting
    <3> QED  BY <3>1, <3>2, <1>a, <1>b
  <2>2. StoppingInv'
    <3> SUFFICES ASSUME ~recExcused', NEW t \in Timer
                 PROVE  /\ recTimer'[t].at = "stopping" =>
                             process' = shown' /\ client' \in {recTimer'[t].client, 0}
                        /\ recTimer'[t].at = "stopped" => ~process' /\ client' \in {recTimer'[t].client, 0}
      BY DEF StoppingInv
    <3>1. recTimer[t].at \in {"stopping", "stopped"} => ~Recording!Starting
      BY <1>a
    <3>2. process \in BOOLEAN
      OBVIOUS
    <3> HIDE DEF RecordingInv, Recording!RemoveClient, Recording!Starting
    <3> QED  BY <3>1, <3>2, <1>b
  <2>3. StartingInv'
    OBVIOUS
  <2>4. ActingInv'
    <3> SUFFICES ASSUME ~recExcused', NEW u \in Viewer
                 PROVE  /\ recUser'[u].at \in {"acting", "acted"} => client' \in {recUser'[u].client, 0}
                        /\ recUser'[u].at = "acting" /\ recUser'[u].action # "start" =>
                             process' = shown'
                        /\ recUser'[u].at = "acted" =>
                             /\ recUser'[u].action = "start" => process'
                             /\ recUser'[u].action = "stop" => ~process'
      BY <1>b
    <3>1. recUser[u].at \in {"acting", "acted"} /\ recUser[u].action # "start" => ~Recording!Starting
      BY <1>a
    <3>2. process \in BOOLEAN /\ ActingInv
      OBVIOUS
    <3> HIDE DEF RecordingInv, Recording!RemoveClient, Recording!Starting
    <3> QED  BY <3>1, <3>2, <1>b
  <2> QED  BY <2>1, <2>2, <2>3, <2>4
<1> QED  BY <1>1, <1>2, <1>3, <1>4, <1>5

LEMMA RecordingRegisterInv ==
  ASSUME RecordingInv, Recording!Register
  PROVE  RecordingInv'
<1> USE DEF Recording!Register, Recording!Starting
<1>a. recUsed.clients \in Nat
  OBVIOUS
<1>b. /\ client' = recUsed.clients + 2 /\ shown' = FALSE /\ process' = process /\ slot' = slot
      /\ recTimer' = recTimer /\ runner' = runner /\ recUser' = recUser /\ client = 0
      /\ recExcused' = (recExcused \/ slot # None)
  OBVIOUS
<1>c. slot = None => /\ \A x \in Timer : recTimer[x].at \notin {"stopping", "stopped"}
                     /\ \A x \in Runner : runner[x].at \notin {"starting", "started", "undo"}
                     /\ \A x \in Viewer : recUser[x].at \notin {"acting", "acted"}
  OBVIOUS
<1>1. RecordingTypes'
  <2>1. (client \in Nat /\ {shown, process, recExcused} \subseteq BOOLEAN)'
    <3>1. {process, recExcused} \subseteq BOOLEAN
      OBVIOUS
    <3> HIDE DEF RecordingInv, Recording!Register
    <3>2. client' \in Nat
      BY <1>a, <1>b
    <3>3. {shown, process, recExcused}' \subseteq BOOLEAN
      BY <3>1, <1>b
    <3> QED  BY <3>2, <3>3
  <2>2. (slot \in Timer \cup Runner \cup Viewer \cup {None})'
    OBVIOUS
  <2>3. (recCurrent \in [Source -> Timer \cup {None}])'
    OBVIOUS
  <2>4. (recTimer \in [Timer -> RecordingTimer])'
    OBVIOUS
  <2>5. (runner \in [Runner -> RecordingRun])'
    OBVIOUS
  <2>6. (recUser \in [Viewer -> RecordingRequest])'
    OBVIOUS
  <2>7. (recUsed \in [DOMAIN Recording!Bounds -> Nat])'
    OBVIOUS
  <2> QED  BY <2>1, <2>2, <2>3, <2>4, <2>5, <2>6, <2>7
<1>2. RunsInv'
  OBVIOUS
<1>3. SlotInv'
  OBVIOUS
<1>4. RecordingEntryInv'
  OBVIOUS
<1>5. CameraInv'
  <2>1. ShownInv'
    OBVIOUS
  <2>2. StoppingInv'
    <3> HIDE DEF RecordingInv, Recording!Register
    <3> QED  BY <1>b, <1>c
  <2>3. StartingInv'
    <3> HIDE DEF RecordingInv, Recording!Register
    <3> QED  BY <1>b, <1>c
  <2>4. ActingInv'
    <3> HIDE DEF RecordingInv, Recording!Register
    <3> QED  BY <1>b, <1>c
  <2> QED  BY <2>1, <2>2, <2>3, <2>4
<1> QED  BY <1>1, <1>2, <1>3, <1>4, <1>5

LEMMA RecordingExpireInv ==
  ASSUME RecordingInv, Recording!Expire
  PROVE  RecordingInv'
<1> USE DEF Recording!Expire, Recording!Starting
<1>1. RecordingTypes'
  OBVIOUS
<1>2. RunsInv'
  OBVIOUS
<1>3. SlotInv'
  OBVIOUS
<1>4. RecordingEntryInv'
  OBVIOUS
<1>5. CameraInv'
  OBVIOUS
<1> QED  BY <1>1, <1>2, <1>3, <1>4, <1>5

LEMMA RecordingEditInv ==
  ASSUME RecordingInv, NEW s \in Source, Recording!Edit(s)
  PROVE  RecordingInv'
<1> USE DEF Recording!Edit
<1>1. RecordingTypes'
  OBVIOUS
<1>2. RunsInv'
  OBVIOUS
<1>3. SlotInv'
  OBVIOUS
<1>4. RecordingEntryInv'
  OBVIOUS
<1>5. CameraInv'
  OBVIOUS
<1> QED  BY <1>1, <1>2, <1>3, <1>4, <1>5

HIDE AutomationsAssumption DEF RecordingInv, RecordingTypes, RunsInv, SlotInv, RecordingEntryInv,
     CameraInv, ShownInv, StoppingInv, StartingInv, ActingInv, Stays, RecordingTimer,
     RecordingRun, RecordingRequest, Recording!camera, Recording!actors, Recording!Spend,
     Recording!Take, Recording!Leave, Recording!Finished, Recording!NoRun, Recording!NoRequest,
     Recording!IsCurrent, Recording!Bounds

LEMMA RecordingNext ==
  ASSUME RecordingInv, Recording!Next
  PROVE  RecordingInv'
<1>1. CASE \E t \in Timer : \/ Recording!Fire(t) \/ Recording!TimerStep(t)
                            \/ Recording!StopFails(t) \/ Recording!TimerGivesUp(t)
  BY <1>1, RecordingFireInv, RecordingCheckStopInv, RecordingStopByTimerInv,
     RecordingStopFailsInv, RecordingStoreStopInv, RecordingTimerGivesUpInv DEF
     Recording!TimerStep
<1>2. CASE \E r \in Runner : \/ Recording!RunnerStep(r) \/ Recording!StartFails(r)
                             \/ Recording!RunnerGivesUp(r)
                             \/ \E s \in Source : Recording!Trigger(r, s)
  BY <1>2, RecordingCheckStartInv, RecordingStartProcessInv, RecordingStartFailsInv,
     RecordingStoreStartInv, RecordingUndoStartInv, RecordingRunnerGivesUpInv,
     RecordingTriggerInv DEF Recording!RunnerStep
<1>3. CASE \E u \in Viewer : \/ Recording!UserStep(u)
                             \/ \E a \in {"start", "stop", "remove"} : Recording!Request(u, a)
  BY <1>3, RecordingCheckRequestInv, RecordingCommandInv, RecordingStoreCommandInv,
     RecordingRemoveOrderedInv, RecordingStopRemovedInv, RecordingRequestInv DEF
     Recording!UserStep
<1>4. CASE \/ Recording!RemoveClient \/ Recording!Register \/ Recording!Expire
           \/ \E s \in Source : Recording!Edit(s)
  BY <1>4, RecordingRemoveClientInv, RecordingRegisterInv, RecordingExpireInv,
     RecordingEditInv
<1> QED  BY <1>1, <1>2, <1>3, <1>4 DEF Recording!Next

LEMMA RecordingStays ==
  ASSUME UNCHANGED recordingVars, RecordingInv
  PROVE  RecordingInv'
BY DEF recordingVars, RecordingInv, RecordingTypes, RunsInv, SlotInv, RecordingEntryInv, CameraInv,
       ShownInv, StoppingInv, StartingInv, ActingInv, Stays, Recording!IsCurrent

LEMMA RecordingIsTrue ==
  ASSUME RecordingInv
  PROVE  Recording!NoDeadTimer /\ Recording!InSync /\ Recording!RevokedIsSilent
<1>1. Recording!NoDeadTimer
  BY DEF RecordingInv, RecordingEntryInv, Recording!NoDeadTimer
<1>2. Recording!InSync
  BY DEF RecordingInv, RecordingTypes, CameraInv, ShownInv, Recording!InSync
<1>3. Recording!RevokedIsSilent
  BY DEF RecordingInv, RecordingEntryInv, Recording!RevokedIsSilent, Recording!IsCurrent
<1> QED  BY <1>1, <1>2, <1>3

-----------------------------------------------------------------------------
(* The return to Day, for any number of keys, lights, users and dates.     *)

DayRun == [at : {"idle", "read", "sending"}, settings : Day!Settings \cup {None},
           date : Nat, keys : SUBSET Key,
           part : [Device -> {"none", "todo", "held", "ok", "failed"}]]
DayTypes ==
  /\ today \in Nat /\ settings \in Day!Settings /\ loop \in DayRun
  /\ loop.at # "idle" => loop.settings \in Day!Settings
  /\ light \in [Device -> Day!Mode]

\* A run is for a date without a successful one.
DateInv == last = done /\ (loop.at # "idle" => done # loop.date)

\* Only a run that sends has parts, and what it has sent is shown or newer.
PartInv ==
  /\ loop.at # "sending" => \A d \in Device : loop.part[d] = "none"
  /\ \A d \in Device : loop.part[d] = "ok" => light[d] = "day" \/ d \in newer

DayInv == DayTypes /\ DateInv /\ PartInv

LEMMA DayTables ==
  Day!Settings = [enabled : BOOLEAN, hour : 0 .. LastHour] /\ 1 \in 0 .. LastHour
BY AutomationsAssumption DEF Day!Settings, Day!Hour

LEMMA DayStart == Day!Init => DayInv
<1> SUFFICES ASSUME Day!Init PROVE DayInv
  OBVIOUS
<1> USE DEF Day!Init, Day!NoRun
<1>1. loop = [at |-> "idle", settings |-> None, date |-> 0, keys |-> {},
              part |-> [d \in Device |-> "none"]]
  OBVIOUS
<1>2. loop.at = "idle" /\ \A d \in Device : loop.part[d] = "none"
  BY <1>1
<1>3. loop \in DayRun /\ today \in Nat /\ settings \in Day!Settings
  BY <1>1, DayTables DEF DayRun
<1>4. light \in [Device -> Day!Mode] /\ last = done
  BY DEF Day!Mode
<1> QED  BY <1>2, <1>3, <1>4 DEF DayInv, DayTypes, DateInv, PartInv

\* What does not touch the run.
LEMMA DayRest ==
  ASSUME DayInv, loop' = loop, last' = last, done' = done, newer' = newer, light' = light,
         today' \in Nat, settings' \in Day!Settings
  PROVE  DayInv'
BY DEF DayInv, DayTypes, DateInv, PartInv

\* The run.
LEMMA DayReadInv ==
  ASSUME DayInv, Day!Read
  PROVE  DayInv'
<1>1. loop' = [at |-> "read", settings |-> settings, date |-> today,
               keys |-> {k \in Key : active[k] # "day"}, part |-> [d \in Device |-> "none"]]
  BY DEF Day!Read, Day!NoRun
<1>2. /\ today' = today /\ settings' = settings /\ last' = last /\ done' = done
      /\ light' = light /\ last # today
  BY DEF Day!Read, Day!clocks, Day!files, Day!Due
<1>3. loop'.at = "read" /\ loop'.settings = settings /\ loop'.date = today
      /\ \A d \in Device : loop'.part[d] = "none"
  BY <1>1
<1>4. loop' \in DayRun
  BY <1>1 DEF DayInv, DayTypes, DayRun
<1>5. DayTypes' /\ DateInv' /\ PartInv'
  BY <1>2, <1>3, <1>4 DEF DayInv, DayTypes, DateInv, PartInv
<1> QED  BY <1>5 DEF DayInv

LEMMA DayPrepareInv ==
  ASSUME DayInv, Day!Prepare
  PROVE  DayInv'
<1>1. PICK p \in [Device -> {"none", "todo"}] : loop' = [loop EXCEPT !.at = "sending", !.part = p]
  BY DEF Day!Prepare
<1>2. /\ today' = today /\ settings' = settings /\ last' = last /\ done' = done
      /\ light' = light /\ loop.at = "read"
  BY DEF Day!Prepare, Day!clocks, Day!files
<1>3. loop \in DayRun
  BY DEF DayInv, DayTypes
<1>4. loop'.at = "sending" /\ loop'.part = p /\ loop'.settings = loop.settings
      /\ loop'.date = loop.date
  BY <1>1, <1>3 DEF DayRun
<1>5. loop' \in DayRun
  BY <1>1, <1>3 DEF DayRun
<1>6. DayTypes' /\ DateInv' /\ PartInv'
  BY <1>2, <1>4, <1>5 DEF DayInv, DayTypes, DateInv, PartInv
<1> QED  BY <1>6 DEF DayInv

LEMMA DayPartInv ==
  ASSUME DayInv, NEW d \in Device, NEW p \in {"held", "ok", "failed"}, Day!PartIs(d, p),
         loop.part[d] # "none", p = "ok" => light'[d] = "day",
         light' \in [Device -> Day!Mode],
         \A x \in Device : x # d => light'[x] = light[x] /\ (x \in newer => x \in newer'),
         UNCHANGED <<today, settings, last, done>>
  PROVE  DayInv'
<1>1. loop' = [loop EXCEPT !.part[d] = p] /\ loop \in DayRun /\ loop.at = "sending"
  BY DEF Day!PartIs, DayInv, DayTypes, PartInv
<1>2. loop'.at = loop.at /\ loop'.settings = loop.settings /\ loop'.date = loop.date
      /\ loop'.part = [loop.part EXCEPT ![d] = p]
  BY <1>1 DEF DayRun
<1>3. loop.part \in [Device -> {"none", "todo", "held", "ok", "failed"}]
  BY <1>1 DEF DayRun
<1>4. loop' \in DayRun
  BY <1>1, <1>3 DEF DayRun
<1>5. DayTypes' /\ DateInv'
  BY <1>2, <1>4 DEF DayInv, DayTypes, DateInv
<1>6. PartInv'
  BY <1>1, <1>2, <1>3 DEF DayInv, PartInv
<1> QED  BY <1>5, <1>6 DEF DayInv

LEMMA DayTryHoldInv ==
  ASSUME DayInv, NEW d \in Device, Day!TryHold(d)
  PROVE  DayInv'
<1>1. /\ loop.part[d] = "todo" /\ light' = light /\ newer' = newer
      /\ UNCHANGED <<today, settings, last, done>>
      /\ Day!PartIs(d, "held") \/ Day!PartIs(d, "failed")
  BY DEF Day!TryHold, Day!clocks, Day!files
<1>2. light \in [Device -> Day!Mode]
  BY DEF DayInv, DayTypes
<1> QED  BY <1>1, <1>2, DayPartInv

LEMMA DaySendInv ==
  ASSUME DayInv, NEW d \in Device, Day!Send(d)
  PROVE  DayInv'
<1>1. /\ loop.part[d] = "held" /\ UNCHANGED <<today, settings, last, done>>
      /\ \/ /\ light' = [light EXCEPT ![d] = "day"] /\ newer' = newer \ {d}
            /\ Day!PartIs(d, "ok")
         \/ light' = light /\ newer' = newer /\ Day!PartIs(d, "failed")
  BY DEF Day!Send, Day!clocks, Day!files
<1>2. light \in [Device -> Day!Mode] /\ "day" \in Day!Mode
  BY DEF DayInv, DayTypes, Day!Mode
<1>3. /\ light' \in [Device -> Day!Mode]
      /\ \A x \in Device : x # d => light'[x] = light[x] /\ (x \in newer => x \in newer')
  BY <1>1, <1>2
<1>4. CASE light' = light /\ newer' = newer /\ Day!PartIs(d, "failed")
  BY <1>1, <1>3, <1>4, DayPartInv
<1>5. CASE light' = [light EXCEPT ![d] = "day"] /\ newer' = newer \ {d} /\ Day!PartIs(d, "ok")
  <2>1. light'[d] = "day"
    BY <1>2, <1>5
  <2> QED  BY <1>1, <1>3, <1>5, <2>1, DayPartInv
<1> QED  BY <1>1, <1>4, <1>5

LEMMA DayFinishInv ==
  ASSUME DayInv, Day!Finish
  PROVE  DayInv'
<1>1. loop' = [at |-> "idle", settings |-> None, date |-> 0, keys |-> {},
               part |-> [d \in Device |-> "none"]]
  BY DEF Day!Finish, Day!NoRun
<1>2. loop'.at = "idle" /\ \A d \in Device : loop'.part[d] = "none"
  BY <1>1
<1>3. loop' \in DayRun
  BY <1>1 DEF DayRun
<1>4. today' = today /\ light' = light /\ loop.at = "sending"
      /\ \/ settings' = settings /\ last' = last /\ done' = done
         \/ settings' = loop.settings /\ last' = loop.date /\ done' = loop.date
  BY DEF Day!Finish, Day!Over, Day!clocks, Day!files
<1>5. DayTypes' /\ DateInv' /\ PartInv'
  BY <1>2, <1>3, <1>4 DEF DayInv, DayTypes, DateInv, PartInv
<1> QED  BY <1>5 DEF DayInv

\* The users.
LEMMA DayCommandInv ==
  ASSUME DayInv, NEW u \in Viewer, NEW d \in Device, Day!Command(u, d)
  PROVE  DayInv'
<1>1. /\ light' = [light EXCEPT ![d] = "movie"] /\ newer' = newer \cup {d}
      /\ UNCHANGED <<today, settings, last, done, loop>>
  BY DEF Day!Command, Day!clocks, Day!files
<1>2. light \in [Device -> Day!Mode] /\ "movie" \in Day!Mode
  BY DEF DayInv, DayTypes, Day!Mode
<1>3. \A x \in Device : x \in newer' \/ light'[x] = light[x]
  BY <1>1, <1>2
<1>4. light' \in [Device -> Day!Mode]
  BY <1>1, <1>2
<1> QED  BY <1>1, <1>3, <1>4 DEF DayInv, DayTypes, DateInv, PartInv

LEMMA DayOtherInv ==
  ASSUME DayInv,
         \/ Day!Retry \/ Day!Tick
         \/ \E u \in Viewer :
              \/ Day!StoreChoice(u) \/ \E d \in Device : Day!Hold(u, d)
              \/ \E k \in Key : Day!Choose(u, k)
         \/ \E s \in Day!Settings : Day!Save(s)
         \/ UNCHANGED Day!vars
  PROVE  DayInv'
<1>1. /\ UNCHANGED <<loop, last, done, light>> /\ newer \subseteq newer'
      /\ today' \in {today, today + 1} /\ (settings' = settings \/ settings' \in Day!Settings)
  <2>1. CASE Day!Retry \/ Day!Tick
    BY <2>1 DEF Day!Retry, Day!Tick, Day!clocks, Day!files
  <2>2. CASE \E u \in Viewer : \/ Day!StoreChoice(u) \/ \E d \in Device : Day!Hold(u, d)
                               \/ \E k \in Key : Day!Choose(u, k)
    BY <2>2 DEF Day!StoreChoice, Day!Hold, Day!Choose, Day!clocks, Day!files
  <2>3. CASE \E s \in Day!Settings : Day!Save(s)
    BY <2>3 DEF Day!Save, Day!clocks
  <2>4. CASE UNCHANGED Day!vars
    BY <2>4 DEF Day!vars, Day!clocks, Day!files
  <2> QED  BY <2>1, <2>2, <2>3, <2>4
<1>2. today \in Nat /\ settings \in Day!Settings
  BY DEF DayInv, DayTypes
<1>3. today' \in Nat /\ settings' \in Day!Settings
  BY <1>1, <1>2
<1> QED  BY <1>1, <1>3 DEF DayInv, DayTypes, DateInv, PartInv

LEMMA DayNext ==
  ASSUME DayInv, Day!Next \/ UNCHANGED Day!vars
  PROVE  DayInv'
<1>1. CASE Day!RunStep
  BY <1>1, DayReadInv, DayPrepareInv, DayFinishInv, DayTryHoldInv, DaySendInv DEF Day!RunStep
<1>2. CASE \E u \in Viewer : \E d \in Device : Day!Command(u, d)
  BY <1>2, DayCommandInv
<1>3. CASE ~Day!RunStep /\ ~\E u \in Viewer : \E d \in Device : Day!Command(u, d)
  BY <1>3, DayOtherInv DEF Day!Next, Day!UserStep
<1> QED  BY <1>1, <1>2, <1>3

LEMMA DayStays ==
  ASSUME DayInv
  PROVE  Day!OncePerDate /\ Day!MarkedWhenShown
<1>1. Day!Succeeds => loop.at = "sending" /\ \A d \in Device : loop.part[d] \in {"none", "ok"}
  <2>1. loop.part \in [Device -> {"none", "todo", "held", "ok", "failed"}]
    BY DEF DayInv, DayTypes, DayRun
  <2> QED  BY <2>1 DEF Day!Succeeds, Day!Over, Day!Failed
<1> QED  BY <1>1 DEF DayInv, DateInv, PartInv, Day!OncePerDate, Day!MarkedWhenShown

-----------------------------------------------------------------------------
(* The components together.                                                *)

\* The motion lights, with what one thread of reports adds to it.
MotionPart == MotionInv /\ (part = "motion" => ReportInv /\ LightInv /\ OneReporter)
ActionsInv == MotionPart /\ RecordingInv /\ DayInv

LEMMA ActionsStart == MCInit => ActionsInv
<1> SUFFICES ASSUME MCInit PROVE ActionsInv
  OBVIOUS
<1>1. Init /\ Recording!Init /\ Day!Init
  BY DEF MCInit
<1>2. OneReporter
  BY <1>1 DEF Init, OneReporter, AtRest
<1> QED  BY <1>1, <1>2, InitInv, LightStart, RecordingStart, DayStart DEF ActionsInv, MotionPart

LEMMA MotionPartNext ==
  ASSUME MotionPart, [MCNext]_MCvars
  PROVE  MotionPart'
<1>1. CASE MotionStep
  <2>1. MotionInv' /\ part' = part /\ Next
    BY <1>1, NextInv DEF MotionStep, MotionPart, Kept
  <2>2. CASE part = "motion"
    BY <1>1, <2>1, <2>2, LightNext DEF MotionStep, MotionPart
  <2> QED  BY <2>1, <2>2 DEF MotionPart
<1>2. CASE UNCHANGED <<part, motionVars>>
  <2>1. UNCHANGED vars
    BY <1>2 DEF motionVars, vars, automation, device
  <2>2. MotionInv'
    BY <2>1, NextInv DEF MotionPart, Kept
  <2>3. CASE part = "motion"
    <3>1. OneReporter'
      BY <1>2, <2>3 DEF MotionPart, OneReporter, motionVars
    <3> QED  BY <1>2, <2>1, <2>2, <2>3, <3>1, LightNext DEF MotionPart
  <2> QED  BY <1>2, <2>2, <2>3 DEF MotionPart
<1> QED
  BY <1>1, <1>2 DEF MCNext, MCvars, RecordingStep, DayStep, ChargingStep, RoutesStep

LEMMA RecordingPartNext ==
  ASSUME RecordingInv, [MCNext]_MCvars
  PROVE  RecordingInv'
<1>1. CASE RecordingStep
  BY <1>1, RecordingNext DEF RecordingStep
<1>2. CASE UNCHANGED recordingVars
  BY <1>2, RecordingStays
<1> QED  BY <1>1, <1>2 DEF MCNext, MCvars, MotionStep, DayStep, ChargingStep, RoutesStep

LEMMA DayPartNext ==
  ASSUME DayInv, [MCNext]_MCvars
  PROVE  DayInv'
<1>1. CASE DayStep
  BY <1>1, DayNext DEF DayStep
<1>2. CASE UNCHANGED dayVars
  BY <1>2, DayNext DEF dayVars, Day!vars, Day!clocks, Day!files
<1> QED  BY <1>1, <1>2 DEF MCNext, MCvars, MotionStep, RecordingStep, ChargingStep, RoutesStep

\* What the proofs keep of the run of the automations: the invariants of the
\* motion lights, of the recordings and of the return to Day.
THEOREM ActionsInvariant == MCSpec => []ActionsInv
<1>1. ActionsInv /\ [MCNext]_MCvars => ActionsInv'
  BY MotionPartNext, RecordingPartNext, DayPartNext DEF ActionsInv
<1> QED  BY <1>1, ActionsStart, PTL DEF MCSpec

\* Devices do what their automations say, for any number of timers, threads,
\* users, sensors, keys, lights and dates: a light is on during motion, a
\* recording shows what the camera does and is not ended by a timer that was
\* replaced, and the lights return to Day once a date, stored when they show it.
THEOREM ActionsStayTrue == MCSpec => ActionsAreTrue
<1>1. ActionsInv => /\ part = "motion" => LightDuringMotion
                    /\ part = "recording" => Recording!NoDeadTimer /\ Recording!InSync
                    /\ part = "recording" => Recording!RevokedIsSilent
                    /\ part = "day" => Day!OncePerDate /\ Day!MarkedWhenShown
  BY LightIsOn, RecordingIsTrue, DayStays DEF ActionsInv, MotionPart
<1> QED  BY <1>1, ActionsInvariant, PTL DEF MCSpec, ActionsAreTrue

=============================================================================
