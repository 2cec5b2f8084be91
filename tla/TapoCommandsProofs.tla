------------------------- MODULE TapoCommandsProofs --------------------------
(***************************************************************************)
(* Proofs about the Tapo command queue and its users for any number of     *)
(* devices, threads, scenes and watchers: who holds a device, in which     *)
(* order commands reach it, what its client shows, and what a command does *)
(* however its session ends.                                               *)
(***************************************************************************)
EXTENDS MCTapo, SequenceTheorems, TLAPS

-----------------------------------------------------------------------------
(* The inductive invariant.                                                *)

\* Tickets are numbered in the order of the queue, behind the newest command.
QueueInv ==
  \A d \in Device :
    /\ lastWrite[d] <= issued[d]
    /\ \A i \in DOMAIN queue[d] : stamp[queue[d][i]][d] \in lastWrite[d] .. issued[d]
    /\ \A i, j \in DOMAIN queue[d] : i < j => stamp[queue[d][i]][d] < stamp[queue[d][j]][d]
    /\ \A a \in Agent : at[a][d] \notin Outside <=> \E i \in DOMAIN queue[d] : queue[d][i] = a

\* The owner is the head of the queue, and so is who has a result.
SlotInv ==
  \A d \in Device :
    /\ \A a \in Agent : at[a][d] \in InSlot <=> owner[d] = a
    /\ owner[d] # None => Head(queue[d]) = owner[d]
    /\ \A s \in resolved[d] : at[s][d] = "parked" /\ owner[d] = None /\ Head(queue[d]) = s

\* Which agents can be where.
PlaceInv ==
  \A a \in Agent, d \in Device :
    /\ at[a][d] = "captured" => a \in Command
    /\ at[a][d] = "waiting" => a \notin Scene
    /\ at[a][d] \in {"reserved", "parked"} => a \in Scene
    /\ at[a][d] # "idle" => expected[a][d] # 0
    /\ expected[a][d] <= born[d]

HasTicket(a, d) == at[a][d] \notin Outside

\* One scene at a time is admitted, its tickets are the newest, and two scenes
\* stand in one order.
SceneInv ==
  \A s, t \in Scene :
    /\ \A d \in targets[s] : at[s][d] = "idle"
    /\ s # t =>
       /\ targets[s] # {} =>
            /\ targets[t] = {}
            /\ \A d \in Device : HasTicket(s, d) /\ HasTicket(t, d) => stamp[t][d] < stamp[s][d]
       /\ \A d, e \in Device :
            (/\ HasTicket(s, d) /\ HasTicket(t, d) /\ HasTicket(s, e) /\ HasTicket(t, e)
             /\ stamp[s][d] < stamp[t][d]) => stamp[s][e] < stamp[t][e]

\* What the watcher noted is older than what there is.
ReaderInv ==
  /\ reading \in {"idle", "recover"} => got = Zero
  /\ reading # "recover" => recover = {}
  /\ \A d \in recover : Observed(d)
  /\ \A d \in Device : Observed(d) =>
       /\ noted[d].client \in 1 .. born[d] /\ noted[d].version <= version[d]
       /\ ~noted[d].busy /\ version[d] = noted[d].version => queue[d] = <<>>

\* What clients show, what was read and what was written is never ahead of the
\* device, and not behind it without a reason.
SyncInv ==
  \A d \in Device :
    /\ client[d] <= born[d]
    /\ shadow[d] <= power[d] /\ got[d] <= power[d] /\ wrote[d] <= power[d]
    /\ Fresh(d) => got[d] >= shadow[d] /\ (got[d] = power[d] \/ drift[d])
    /\ \A a \in Agent : at[a][d] = "written" /\ client[d] = expected[a][d] =>
         shadow[d] <= wrote[d] /\ (wrote[d] = power[d] \/ drift[d])
    /\ client[d] # 0 /\ ~drift[d] =>
         shadow[d] = power[d] \/ \E a \in Agent : at[a][d] = "written"

\* Who waits for and who holds a device, and what is believed of it.
TicketsInv ==
  QueueInv /\ SlotInv /\ PlaceInv /\ SceneInv /\ NoLostWakeup /\ BackgroundNeverWaits
BeliefsInv == ReaderInv /\ SyncInv

TapoInv == TypeOK /\ TicketsInv /\ BeliefsInv

-----------------------------------------------------------------------------
(* Taking one ticket out of a queue.                                       *)

\* The k-th element of a sequence out: the elements before it stay, the others
\* move up.
LEMMA RemoveAtFacts ==
  ASSUME NEW S, NEW q \in Seq(S), NEW k \in 1 .. Len(q)
  PROVE  /\ RemoveAt(q, k) \in Seq(S)
         /\ Len(RemoveAt(q, k)) = Len(q) - 1
         /\ \A i \in 1 .. Len(q) - 1 :
              RemoveAt(q, k)[i] = IF i < k THEN q[i] ELSE q[i + 1]
<1> DEFINE u == SubSeq(q, 1, k - 1)
           v == SubSeq(q, k + 1, Len(q))
<1>1. /\ u \in Seq(S) /\ Len(u) = k - 1
      /\ \A i \in 1 .. k - 1 : u[i] = q[i]
  <2>1. \A i \in 1 .. k - 1 : q[i] \in S
    OBVIOUS
  <2>2. 1 \in Int /\ k - 1 \in Int
    OBVIOUS
  <2> QED  BY <2>1, <2>2, SubSeqProperties
<1>2. /\ v \in Seq(S) /\ Len(v) = Len(q) - k
      /\ \A i \in 1 .. Len(q) - k : v[i] = q[k + i]
  <2>1. \A i \in k + 1 .. Len(q) : q[i] \in S
    OBVIOUS
  <2>2. k + 1 \in Int /\ Len(q) \in Int
    OBVIOUS
  <2> QED  BY <2>1, <2>2, SubSeqProperties
<1>3. RemoveAt(q, k) = u \o v
  BY DEF RemoveAt
<1> HIDE DEF u, v
<1>4. /\ u \o v \in Seq(S)
      /\ Len(u \o v) = Len(u) + Len(v)
      /\ \A i \in 1 .. Len(u) + Len(v) :
           (u \o v)[i] = IF i <= Len(u) THEN u[i] ELSE v[i - Len(u)]
  BY <1>1, <1>2, ConcatProperties
<1> QED  BY SMTT(30), <1>1, <1>2, <1>3, <1>4

\* The numbers of a device.
LEMMA NumbersAreNatural ==
  ASSUME TypeOK, NEW d \in Device
  PROVE  /\ version[d] \in Nat /\ got[d] \in Nat /\ client[d] \in Nat /\ shadow[d] \in Nat
         /\ power[d] \in Nat /\ wrote[d] \in Nat /\ born[d] \in Nat /\ issued[d] \in Nat
         /\ lastWrite[d] \in Nat /\ drift[d] \in BOOLEAN
         /\ noted[d].client \in Nat /\ noted[d].version \in Nat /\ noted[d].busy \in BOOLEAN
         /\ \A a \in Agent : stamp[a][d] \in Nat /\ expected[a][d] \in Nat
BY DEF TypeOK, Note

\* Who stands in a queue.
LEMMA InQueue ==
  ASSUME TypeOK, NEW d \in Device
  PROVE  /\ \A i \in DOMAIN queue[d] : queue[d][i] \in Agent
         /\ queue[d] # <<>> => Head(queue[d]) \in Agent
<1>1. queue[d] \in Seq(Agent)
  BY DEF TypeOK
<1> QED  BY <1>1, ElementOfSeq, LenProperties, HeadTailProperties

\* Nobody stands twice in a queue: the tickets differ.
LEMMA NobodyTwice ==
  ASSUME TypeOK, QueueInv, NEW d \in Device
  PROVE  /\ queue[d] \in Seq(Agent)
         /\ \A i, j \in DOMAIN queue[d] : queue[d][i] = queue[d][j] => i = j
<1>1. queue[d] \in Seq(Agent) /\ DOMAIN queue[d] \subseteq Nat
  BY SMTT(30) DEF TypeOK
<1>2. \A i \in DOMAIN queue[d] : stamp[queue[d][i]][d] \in Nat
  BY <1>1 DEF TypeOK
<1>3. \A i, j \in DOMAIN queue[d] : i < j \/ j < i \/ i = j
  BY <1>1
<1> QED  BY <1>1, <1>2, <1>3 DEF QueueInv

\* What a queue is without one of its tickets.
LEMMA QueueWithout ==
  ASSUME TypeOK, QueueInv, NEW d \in Device, NEW a \in Agent, HasTicket(a, d)
  PROVE  LET q == queue[d]
             r == Without(a, d)
         IN  /\ r \in Seq(Agent)
             /\ \A b : (\E i \in DOMAIN r : r[i] = b) <=> b # a /\ \E i \in DOMAIN q : q[i] = b
             /\ \A i, j \in DOMAIN r : i < j =>
                  \E m, n \in DOMAIN q : m < n /\ r[i] = q[m] /\ r[j] = q[n]
             /\ Head(q) # a => r # <<>> /\ Head(r) = Head(q)
             /\ r # <<>> => Head(r) # a /\ Head(r) \in Agent
<1> DEFINE q == queue[d]
           k == CHOOSE i \in DOMAIN q : q[i] = a
           r == Without(a, d)
<1>1. k \in DOMAIN q /\ q[k] = a
  BY DEF QueueInv, HasTicket
<1>2. r = RemoveAt(q, k)
  BY DEF Without
<1>3. q \in Seq(Agent) /\ \A i, j \in DOMAIN q : q[i] = q[j] => i = j
  BY NobodyTwice
<1>4. k \in 1 .. Len(q)
  BY <1>1, <1>3
<1> HIDE DEF q, r, k
<1>5. /\ r \in Seq(Agent) /\ Len(r) = Len(q) - 1
      /\ \A i \in 1 .. Len(q) - 1 : r[i] = IF i < k THEN q[i] ELSE q[i + 1]
  BY <1>4, <1>2, <1>3, RemoveAtFacts
<1>6. DOMAIN r = 1 .. Len(q) - 1 /\ DOMAIN q = 1 .. Len(q) /\ Len(q) \in Nat
  BY <1>5, <1>3, LenProperties
<1> DEFINE n == Len(q)
<1>7. n \in Nat /\ k \in 1 .. n /\ DOMAIN q = 1 .. n /\ DOMAIN r = 1 .. n - 1
  BY <1>4, <1>6
<1>8. \A i \in 1 .. n - 1 : r[i] = IF i < k THEN q[i] ELSE q[i + 1]
  BY <1>5
<1> HIDE DEF n
<1>9. \A i \in DOMAIN r : \E m \in DOMAIN q : m # k /\ r[i] = q[m]
  <2> SUFFICES ASSUME NEW i \in 1 .. n - 1
               PROVE  \E m \in 1 .. n : m # k /\ r[i] = q[m]
    BY <1>7
  <2>1. i \in 1 .. n /\ (i < k => i # k)
    BY <1>7
  <2>2. r[i] = q[i] \/ ~(i < k)
    BY <1>8
  <2>3. r[i] = q[i + 1] \/ i < k
    BY <1>8
  <2>4. CASE i < k
    BY <2>1, <2>2, <2>4, <1>7
  <2>5. CASE ~(i < k)
    <3>1. i + 1 \in 1 .. n /\ i + 1 # k
      BY <2>5, <1>7
    <3> QED  BY <3>1, <2>3, <2>5
  <2> QED  BY <2>4, <2>5
<1>10. \A m \in DOMAIN q : m # k => \E i \in DOMAIN r : r[i] = q[m]
  <2> SUFFICES ASSUME NEW m \in 1 .. n, m # k
               PROVE  \E i \in 1 .. n - 1 : r[i] = q[m]
    BY <1>7
  <2>1. CASE m < k
    <3>1. m \in 1 .. n - 1
      BY <2>1, <1>7
    <3>2. r[m] = q[m]
      BY <3>1, <2>1, <1>8
    <3> QED  BY <3>1, <3>2
  <2>2. CASE m > k
    <3>1. m - 1 \in 1 .. n - 1 /\ ~(m - 1 < k) /\ m - 1 + 1 = m
      BY <2>2, <1>7
    <3>2. r[m - 1] = q[m - 1 + 1]
      BY <3>1, <1>8
    <3> QED  BY <3>1, <3>2
  <2> QED  BY <2>1, <2>2, <1>7
<1>11. ASSUME NEW b
      PROVE  (\E i \in DOMAIN r : r[i] = b) <=> b # a /\ \E i \in DOMAIN q : q[i] = b
  <2>1. \A i \in DOMAIN q : q[i] = a => i = k
    BY <1>1, <1>3
  <2>2. ASSUME NEW i \in DOMAIN r, r[i] = b
        PROVE  b # a /\ \E m \in DOMAIN q : q[m] = b
    <3>1. PICK m \in DOMAIN q : m # k /\ r[i] = q[m]
      BY <1>9
    <3> QED  BY <3>1, <2>1, <2>2
  <2>3. ASSUME b # a, NEW m \in DOMAIN q, q[m] = b
        PROVE  \E i \in DOMAIN r : r[i] = b
    <3>1. m # k
      BY <2>3, <1>1
    <3> QED  BY <3>1, <1>10, <2>3
  <2> QED  BY <2>2, <2>3
<1>12. ASSUME NEW i \in DOMAIN r, NEW j \in DOMAIN r, i < j
      PROVE  \E x, y \in DOMAIN q : x < y /\ r[i] = q[x] /\ r[j] = q[y]
  <2> DEFINE f(x) == IF x < k THEN x ELSE x + 1
  <2>1. f(i) \in DOMAIN q /\ f(j) \in DOMAIN q /\ f(i) < f(j)
    BY <1>12, <1>4, <1>6
  <2>2. r[i] = q[f(i)] /\ r[j] = q[f(j)]
    BY <1>5, <1>6
  <2> QED  BY <2>1, <2>2
<1>13. ASSUME Head(q) # a
      PROVE  r # <<>> /\ Head(r) = Head(q)
  <2>1. k # 1 /\ n >= 2
    BY <1>1, <1>7, <1>13
  <2>2. 1 \in 1 .. n - 1 /\ 1 < k
    BY <2>1, <1>7
  <2>3. r[1] = q[1]
    BY <2>2, <1>8
  <2>4. Len(r) # 0
    BY <2>2, <1>5 DEF n
  <2> QED  BY <2>3, <2>4, EmptySeq
<1>14. ASSUME r # <<>>
       PROVE  Head(r) # a /\ Head(r) \in Agent
  <2>1. Len(r) \in Nat \ {0}
    BY <1>5, <1>14, EmptySeq
  <2>2. 1 \in 1 .. Len(r)
    BY <2>1
  <2>3. r[1] # a /\ r[1] \in Agent
    BY <2>2, <1>5, <1>6, <1>11, ElementOfSeq
  <2> QED  BY <2>3
<1> QED  BY <1>5, <1>11, <1>12, <1>13, <1>14 DEF q, r

\* A step that moves one agent at one device.
LEMMA MoveEffect ==
  ASSUME TypeOK, NEW a \in Agent, NEW d \in Device, NEW place, Move(a, d, place)
  PROVE  \A b \in Agent, e \in Device :
           at'[b][e] = IF b = a /\ e = d THEN place ELSE at[b][e]
BY DEF Move, TypeOK

\* The same for what a request forgets.
LEMMA ForgetEffect ==
  ASSUME TypeOK, NEW a \in Agent, NEW d \in Device, Forget(a, d)
  PROVE  \A b \in Agent, e \in Device :
           /\ at'[b][e] = IF b = a /\ e = d THEN "idle" ELSE at[b][e]
           /\ expected'[b][e] = IF b = a /\ e = d THEN 0 ELSE expected[b][e]
           /\ stamp'[b][e] = IF b = a /\ e = d THEN 0 ELSE stamp[b][e]
BY DEF Forget, Move, TypeOK

-----------------------------------------------------------------------------
(* The tickets: what the steps of the queue leave.                         *)

\* The order of the scenes depends on who is new only.
LEMMA ScenesKept ==
  ASSUME TypeOK, SceneInv, UNCHANGED targets,
         \A s \in Scene, d \in Device :
           /\ at[s][d] = "idle" => at'[s][d] = "idle"
           /\ HasTicket(s, d)' => HasTicket(s, d) /\ stamp'[s][d] = stamp[s][d]
  PROVE  SceneInv'
<1> SUFFICES ASSUME NEW s \in Scene, NEW t \in Scene
    PROVE  /\ \A d \in targets[s] : at'[s][d] = "idle"
           /\ s # t =>
              /\ targets[s] # {} =>
                   /\ targets[t] = {}
                   /\ \A d \in Device :
                        HasTicket(s, d)' /\ HasTicket(t, d)' => stamp'[t][d] < stamp'[s][d]
              /\ \A d, e \in Device :
                   (/\ HasTicket(s, d)' /\ HasTicket(t, d)' /\ HasTicket(s, e)' /\ HasTicket(t, e)'
                    /\ stamp'[s][d] < stamp'[t][d]) => stamp'[s][e] < stamp'[t][e]
  BY DEF SceneInv
<1>1. targets \in [Scene -> SUBSET Device]
  BY DEF TypeOK
<1>2. \A d \in targets[s] : at'[s][d] = "idle"
  BY <1>1 DEF SceneInv
<1>3. s # t /\ targets[s] # {} => targets[t] = {}
  BY DEF SceneInv
<1>4. ASSUME s # t, targets[s] # {}, NEW d \in Device, HasTicket(s, d)', HasTicket(t, d)'
      PROVE  stamp'[t][d] < stamp'[s][d]
  <2>1. HasTicket(s, d) /\ HasTicket(t, d) /\ stamp'[s][d] = stamp[s][d] /\ stamp'[t][d] = stamp[t][d]
    BY <1>4
  <2> QED  BY <2>1, <1>4 DEF SceneInv
<1>5. ASSUME s # t, NEW d \in Device, NEW e \in Device, HasTicket(s, d)', HasTicket(t, d)',
             HasTicket(s, e)', HasTicket(t, e)', stamp'[s][d] < stamp'[t][d]
      PROVE  stamp'[s][e] < stamp'[t][e]
  <2>1. /\ HasTicket(s, d) /\ HasTicket(t, d) /\ HasTicket(s, e) /\ HasTicket(t, e)
        /\ stamp'[s][d] = stamp[s][d] /\ stamp'[t][d] = stamp[t][d]
        /\ stamp'[s][e] = stamp[s][e] /\ stamp'[t][e] = stamp[t][e]
    BY <1>5
  <2> QED  BY <2>1, <1>5 DEF SceneInv
<1> QED  BY <1>2, <1>3, <1>4, <1>5

\* cancel takes the ticket of one agent out.
LEMMA CancelTickets ==
  ASSUME TypeOK, TicketsInv, NEW a \in Agent, NEW d \in Device, HasTicket(a, d),
         Cancel(a, d), UNCHANGED <<targets, born, issued, lastWrite>>
  PROVE  TicketsInv'
<1> DEFINE q == queue[d]
           r == Without(a, d)
<1>1. /\ r \in Seq(Agent)
      /\ \A b : (\E i \in DOMAIN r : r[i] = b) <=> b # a /\ \E i \in DOMAIN q : q[i] = b
      /\ \A i, j \in DOMAIN r : i < j =>
           \E m, n \in DOMAIN q : m < n /\ r[i] = q[m] /\ r[j] = q[n]
      /\ Head(q) # a => r # <<>> /\ Head(r) = Head(q)
      /\ r # <<>> => Head(r) # a /\ Head(r) \in Agent
  BY QueueWithout DEF TicketsInv
<1>2. \A e \in Device : queue'[e] = IF e = d THEN r ELSE queue[e]
  BY DEF Cancel, TypeOK
<1>3. \A e \in Device : owner'[e] = IF e = d /\ owner[d] = a THEN None ELSE owner[e]
  BY DEF Cancel, TypeOK
<1>4. \A e \in Device : resolved'[e] = IF e = d THEN Resolved(a, d) ELSE resolved[e]
  BY DEF Cancel, TypeOK
<1>5. \A b \in Agent, e \in Device :
        /\ at'[b][e] = IF b = a /\ e = d THEN "idle" ELSE at[b][e]
        /\ expected'[b][e] = IF b = a /\ e = d THEN 0 ELSE expected[b][e]
        /\ stamp'[b][e] = IF b = a /\ e = d THEN 0 ELSE stamp[b][e]
  BY ForgetEffect DEF Cancel
<1> HIDE DEF r
<1>6. QueueInv'
  <2> SUFFICES ASSUME NEW e \in Device
      PROVE  /\ lastWrite[e] <= issued[e]
             /\ \A i \in DOMAIN queue'[e] : stamp'[queue'[e][i]][e] \in lastWrite[e] .. issued[e]
             /\ \A i, j \in DOMAIN queue'[e] :
                  i < j => stamp'[queue'[e][i]][e] < stamp'[queue'[e][j]][e]
             /\ \A b \in Agent :
                  at'[b][e] \notin Outside <=> \E i \in DOMAIN queue'[e] : queue'[e][i] = b
    BY DEF QueueInv
  <2>1. CASE e = d
    <3>1. queue'[e] = r
      BY <2>1, <1>2
    <3>2. \A b \in Agent : b # a =>
            stamp'[b][d] = stamp[b][d] /\ (at'[b][d] \notin Outside <=> at[b][d] \notin Outside)
      BY <1>5
    <3>3. at'[a][d] \in Outside
      BY <1>5 DEF Outside
    <3>4. ASSUME NEW i \in DOMAIN r
          PROVE  r[i] \in Agent /\ r[i] # a /\ \E m \in DOMAIN q : q[m] = r[i]
      <4>1. \E j \in DOMAIN r : r[j] = r[i]
        OBVIOUS
      <4> QED  BY <4>1, <1>1, ElementOfSeq, LenProperties
    <3>5. \A i \in DOMAIN r : stamp'[r[i]][d] = stamp[r[i]][d]
      BY <3>2, <3>4
    <3>6. \A i \in DOMAIN r : stamp'[r[i]][d] \in lastWrite[d] .. issued[d]
      BY <3>4, <3>5 DEF TicketsInv, QueueInv
    <3>7. \A i, j \in DOMAIN r : i < j => stamp'[r[i]][d] < stamp'[r[j]][d]
      BY <3>5, <1>1 DEF TicketsInv, QueueInv
    <3>8. \A b \in Agent : at'[b][d] \notin Outside <=> \E i \in DOMAIN r : r[i] = b
      BY <3>2, <3>3, <1>1 DEF TicketsInv, QueueInv
    <3> QED  BY <2>1, <3>1, <3>6, <3>7, <3>8 DEF TicketsInv, QueueInv
  <2>2. CASE e # d
    <3>1. queue'[e] = queue[e] /\ \A b \in Agent : stamp'[b][e] = stamp[b][e] /\ at'[b][e] = at[b][e]
      BY <2>2, <1>2, <1>5
    <3>2. \A i \in DOMAIN queue[e] : queue[e][i] \in Agent
      BY InQueue
    <3> QED  BY <3>1, <3>2 DEF TicketsInv, QueueInv
  <2> QED  BY <2>1, <2>2
<1>7. SlotInv'
  <2> SUFFICES ASSUME NEW e \in Device
      PROVE  /\ \A b \in Agent : at'[b][e] \in InSlot <=> owner'[e] = b
             /\ owner'[e] # None => Head(queue'[e]) = owner'[e]
             /\ \A s \in resolved'[e] :
                  at'[s][e] = "parked" /\ owner'[e] = None /\ Head(queue'[e]) = s
    BY DEF SlotInv
  <2>1. CASE e = d
    <3>1. \A b \in Agent : at'[b][d] \in InSlot <=> owner'[d] = b
      BY <1>3, <1>5, AgentsAssumption DEF TicketsInv, SlotInv, InSlot
    <3>2. owner'[d] # None => Head(r) = owner'[d]
      BY <1>1, <1>3 DEF TicketsInv, SlotInv
    <3>3. ASSUME NEW s \in resolved'[d]
          PROVE  at'[s][d] = "parked" /\ owner'[d] = None /\ Head(r) = s
      <4>1. CASE s \in resolved[d] \ {a}
        <5>1. s \in Agent /\ at[s][d] = "parked" /\ owner[d] = None /\ Head(q) = s /\ s # a
          BY <4>1 DEF TicketsInv, SlotInv, TypeOK, Agent
        <5> QED  BY <5>1, <1>1, <1>3, <1>5
      <4>2. CASE s \notin resolved[d] \ {a}
        <5>1. s \in Scene /\ owner[d] \in {a, None} /\ r # <<>> /\ Head(r) = s /\ at[s][d] = "parked"
          BY <4>2, <3>3, <1>4 DEF Resolved, r
        <5> QED  BY <5>1, <1>1, <1>3, <1>5 DEF Agent
      <4> QED  BY <4>1, <4>2
    <3> QED  BY <2>1, <3>1, <3>2, <3>3, <1>2
  <2>2. CASE e # d
    <3>1. /\ queue'[e] = queue[e] /\ owner'[e] = owner[e] /\ resolved'[e] = resolved[e]
          /\ \A b \in Agent : at'[b][e] = at[b][e]
      BY <2>2, <1>2, <1>3, <1>4, <1>5
    <3>2. resolved[e] \subseteq Agent
      BY DEF TypeOK, Agent
    <3> QED  BY <3>1, <3>2 DEF TicketsInv, SlotInv
  <2> QED  BY <2>1, <2>2
<1>8. PlaceInv'
  BY <1>5, NumbersAreNatural DEF TicketsInv, PlaceInv
<1>9. SceneInv'
  BY <1>5, ScenesKept DEF TicketsInv, HasTicket, Outside, Agent
<1>10. NoLostWakeup'
  <2> SUFFICES ASSUME NEW e \in Device, owner'[e] = None, queue'[e] # <<>>,
                      at'[Head(queue'[e])][e] = "parked"
               PROVE  Head(queue'[e]) \in resolved'[e]
    BY DEF NoLostWakeup
  <2>1. CASE e = d
    <3>1. r # <<>> /\ Head(r) \in Agent /\ Head(r) # a /\ at[Head(r)][d] = "parked"
      BY <2>1, <1>1, <1>2, <1>5
    <3>2. owner[d] \in {a, None} /\ Head(r) \in Scene
      BY <2>1, <3>1, <1>3 DEF TicketsInv, PlaceInv
    <3> QED  BY <2>1, <3>1, <3>2, <1>2, <1>4 DEF Resolved, r
  <2>2. CASE e # d
    <3>1. queue'[e] = queue[e] /\ owner'[e] = owner[e] /\ resolved'[e] = resolved[e]
      BY <2>2, <1>2, <1>3, <1>4
    <3>2. Head(queue[e]) \in Agent
      BY <3>1, InQueue
    <3> QED  BY <2>2, <3>1, <3>2, <1>5 DEF TicketsInv, NoLostWakeup
  <2> QED  BY <2>1, <2>2
<1>11. BackgroundNeverWaits'
  BY <1>1, <1>2, <1>5 DEF TicketsInv, BackgroundNeverWaits, Agent
<1> QED  BY <1>6, <1>7, <1>8, <1>9, <1>10, <1>11 DEF TicketsInv

\* reserve puts an agent without a ticket at the end of the queue.
LEMMA ReserveTickets ==
  ASSUME TypeOK, TicketsInv, NEW a \in Agent, NEW d \in Device, ~HasTicket(a, d),
         Reserve(a, d), NEW place \in {"reserved", "waiting"}, Move(a, d, place),
         a \in Watcher => queue[d] = <<>>, UNCHANGED lastWrite
  PROVE  QueueInv' /\ SlotInv' /\ NoLostWakeup' /\ BackgroundNeverWaits'
<1> DEFINE q == queue[d]
           r == Append(q, a)
           n == Len(q)
<1>1. /\ q \in Seq(Agent) /\ n \in Nat /\ DOMAIN q = 1 .. n
      /\ r \in Seq(Agent) /\ DOMAIN r = 1 .. n + 1
      /\ \A i \in 1 .. n : r[i] = q[i] /\ q[i] \in Agent
      /\ r[n + 1] = a
  BY SMTT(30), AppendProperties, LenProperties, ElementOfSeq DEF TypeOK
<1>2. /\ r # <<>>
      /\ q = <<>> => Head(r) = a
      /\ q # <<>> => Head(r) = Head(q)
  BY <1>1, HeadTailAppend
<1>3. /\ \A e \in Device : queue'[e] = IF e = d THEN r ELSE queue[e]
      /\ owner' = owner /\ resolved' = resolved
  BY DEF Reserve, TypeOK
<1>4. \A b \in Agent, e \in Device :
        /\ at'[b][e] = IF b = a /\ e = d THEN place ELSE at[b][e]
        /\ stamp'[b][e] = IF b = a /\ e = d THEN issued[d] + 1 ELSE stamp[b][e]
  <2>1. \A b \in Agent, e \in Device : at'[b][e] = IF b = a /\ e = d THEN place ELSE at[b][e]
    BY MoveEffect
  <2>2. \A b \in Agent, e \in Device :
          stamp'[b][e] = IF b = a /\ e = d THEN issued[d] + 1 ELSE stamp[b][e]
    BY DEF Reserve, TypeOK
  <2> QED  BY <2>1, <2>2
<1>5. \A e \in Device : issued'[e] = IF e = d THEN issued[d] + 1 ELSE issued[e]
  BY DEF Reserve, TypeOK
<1>6. /\ \A i \in 1 .. n : stamp[q[i]][d] \in lastWrite[d] .. issued[d]
      /\ \A i, j \in 1 .. n : i < j => stamp[q[i]][d] < stamp[q[j]][d]
      /\ \A b \in Agent : at[b][d] \notin Outside <=> \E i \in 1 .. n : q[i] = b
      /\ lastWrite[d] <= issued[d] /\ lastWrite[d] \in Nat /\ issued[d] \in Nat
  BY <1>1, NumbersAreNatural DEF TicketsInv, QueueInv
<1>7. \A i \in 1 .. n : q[i] # a
  BY <1>6 DEF HasTicket
<1> HIDE DEF n, r, q
<1>8. QueueInv'
  <2> SUFFICES ASSUME NEW e \in Device
      PROVE  /\ lastWrite[e] <= issued'[e]
             /\ \A i \in DOMAIN queue'[e] : stamp'[queue'[e][i]][e] \in lastWrite[e] .. issued'[e]
             /\ \A i, j \in DOMAIN queue'[e] :
                  i < j => stamp'[queue'[e][i]][e] < stamp'[queue'[e][j]][e]
             /\ \A b \in Agent :
                  at'[b][e] \notin Outside <=> \E i \in DOMAIN queue'[e] : queue'[e][i] = b
    BY DEF QueueInv
  <2>1. CASE e = d
    <3>1. \A i \in 1 .. n : stamp'[r[i]][d] = stamp[q[i]][d]
      BY <1>1, <1>4, <1>7
    <3>2. stamp'[r[n + 1]][d] = issued[d] + 1
      BY <1>1, <1>4
    <3>3. \A i \in 1 .. n + 1 : stamp'[r[i]][d] \in lastWrite[d] .. issued[d] + 1
      <4> SUFFICES ASSUME NEW i \in 1 .. n + 1
                   PROVE  stamp'[r[i]][d] \in lastWrite[d] .. issued[d] + 1
        OBVIOUS
      <4>1. CASE i = n + 1
        BY <4>1, <3>2, <1>6
      <4>2. CASE i \in 1 .. n
        BY <4>2, <3>1, <1>6
      <4> QED  BY <4>1, <4>2, <1>1
    <3>4. \A i, j \in 1 .. n + 1 : i < j => stamp'[r[i]][d] < stamp'[r[j]][d]
      <4> SUFFICES ASSUME NEW i \in 1 .. n + 1, NEW j \in 1 .. n + 1, i < j
                   PROVE  stamp'[r[i]][d] < stamp'[r[j]][d]
        OBVIOUS
      <4>1. i \in 1 .. n
        BY <1>1
      <4>2. CASE j = n + 1
        BY <4>1, <4>2, <3>1, <3>2, <1>6
      <4>3. CASE j \in 1 .. n
        BY <4>1, <4>3, <3>1, <1>6
      <4> QED  BY <4>2, <4>3, <1>1
    <3>5. \A b \in Agent : at'[b][d] \notin Outside <=> \E i \in 1 .. n + 1 : r[i] = b
      <4> SUFFICES ASSUME NEW b \in Agent
                   PROVE  at'[b][d] \notin Outside <=> \E i \in 1 .. n + 1 : r[i] = b
        OBVIOUS
      <4>1. CASE b = a
        <5>1. at'[b][d] \notin Outside
          BY <4>1, <1>4 DEF Outside
        <5>2. n + 1 \in 1 .. n + 1
          BY <1>1
        <5> QED  BY <4>1, <5>1, <5>2, <1>1
      <4>2. CASE b # a
        <5>1. at'[b][d] = at[b][d]
          BY <4>2, <1>4
        <5>2. (\E i \in 1 .. n : q[i] = b) <=> \E i \in 1 .. n + 1 : r[i] = b
          <6>1. \A i \in 1 .. n + 1 : i \in 1 .. n \/ r[i] # b
            BY <4>2, <1>1
          <6>2. \A i \in 1 .. n : i \in 1 .. n + 1
            BY <1>1
          <6> QED  BY <6>1, <6>2, <1>1
        <5> QED  BY <5>1, <5>2, <1>6
      <4> QED  BY <4>1, <4>2
    <3>6. queue'[e] = r /\ DOMAIN queue'[e] = 1 .. n + 1 /\ issued'[e] = issued[d] + 1
      BY <2>1, <1>1, <1>3, <1>5
    <3>7. lastWrite[d] <= issued[d] + 1
      BY <1>6
    <3> QED  BY <2>1, <3>3, <3>4, <3>5, <3>6, <3>7
  <2>2. CASE e # d
    <3>1. /\ queue'[e] = queue[e] /\ issued'[e] = issued[e]
          /\ \A b \in Agent : stamp'[b][e] = stamp[b][e] /\ at'[b][e] = at[b][e]
      BY <2>2, <1>3, <1>4, <1>5
    <3>2. \A i \in DOMAIN queue[e] : queue[e][i] \in Agent
      BY InQueue
    <3> QED  BY <3>1, <3>2 DEF TicketsInv, QueueInv
  <2> QED  BY <2>1, <2>2
<1>9. \A e \in Device : queue[e] # <<>> => queue'[e] # <<>> /\ Head(queue'[e]) = Head(queue[e])
  BY <1>2, <1>3 DEF q
<1>10. \A b \in Agent, e \in Device : HasTicket(b, e) => queue[e] # <<>> /\ at'[b][e] = at[b][e]
  <2> SUFFICES ASSUME NEW b \in Agent, NEW e \in Device, HasTicket(b, e)
               PROVE  queue[e] # <<>> /\ at'[b][e] = at[b][e]
    OBVIOUS
  <2>1. \E i \in DOMAIN queue[e] : queue[e][i] = b
    BY DEF TicketsInv, QueueInv, HasTicket
  <2> QED  BY <2>1, <1>4
<1>11. SlotInv'
  <2> SUFFICES ASSUME NEW e \in Device
      PROVE  /\ \A b \in Agent : at'[b][e] \in InSlot <=> owner[e] = b
             /\ owner[e] # None => Head(queue'[e]) = owner[e]
             /\ \A s \in resolved[e] :
                  at'[s][e] = "parked" /\ owner[e] = None /\ Head(queue'[e]) = s
    BY <1>3 DEF SlotInv
  <2>1. \A b \in Agent : at'[b][e] \in InSlot <=> at[b][e] \in InSlot
    BY <1>4 DEF HasTicket, InSlot, Outside
  <2>2. \A b \in Agent : at[b][e] \in InSlot => HasTicket(b, e)
    BY DEF HasTicket, InSlot, Outside
  <2>3. \A s \in resolved[e] : s \in Agent /\ at[s][e] = "parked" /\ HasTicket(s, e)
    BY DEF TicketsInv, SlotInv, TypeOK, Agent, HasTicket, Outside
  <2>4. owner[e] # None => owner[e] \in Agent /\ HasTicket(owner[e], e)
    BY <2>2 DEF TicketsInv, SlotInv, TypeOK
  <2> QED  BY <2>1, <2>3, <2>4, <1>9, <1>10 DEF TicketsInv, SlotInv
<1>12. NoLostWakeup'
  <2> SUFFICES ASSUME NEW e \in Device, owner[e] = None, queue'[e] # <<>>,
                      at'[Head(queue'[e])][e] = "parked"
               PROVE  Head(queue'[e]) \in resolved[e]
    BY <1>3 DEF NoLostWakeup
  <2>1. queue[e] # <<>>
    BY <1>2, <1>3, <1>4 DEF q
  <2>2. Head(queue[e]) \in Agent
    BY <2>1, InQueue
  <2>3. at[Head(queue[e])][e] = "parked"
    BY <2>1, <2>2, <1>4, <1>9
  <2> QED  BY <2>1, <2>3, <1>9 DEF TicketsInv, NoLostWakeup
<1>13. BackgroundNeverWaits'
  <2> SUFFICES ASSUME NEW w \in Watcher, NEW e \in Device, at'[w][e] # "idle"
               PROVE  Head(queue'[e]) = w
    BY DEF BackgroundNeverWaits
  <2>1. w \in Agent
    BY DEF Agent
  <2>2. CASE w = a /\ e = d
    BY <2>2, <1>2, <1>3 DEF q
  <2>3. CASE ~(w = a /\ e = d)
    <3>1. at[w][e] # "idle"
      BY <2>1, <2>3, <1>4
    <3>2. HasTicket(w, e)
      BY <2>1, <3>1, AgentsAssumption DEF TicketsInv, PlaceInv, HasTicket, Outside
    <3> QED  BY <2>1, <3>1, <3>2, <1>9, <1>10 DEF TicketsInv, BackgroundNeverWaits
  <2> QED  BY <2>2, <2>3
<1> QED  BY <1>8, <1>11, <1>12, <1>13

\* An agent enters the slot: it stands first, the slot is free, and whoever had
\* the result of its future has used it.
LEMMA EnterTickets ==
  ASSUME TypeOK, TicketsInv, NEW a \in Agent, NEW d \in Device, HasTicket(a, d),
         MayEnter(a, d), Enter(a, d), resolved' = [resolved EXCEPT ![d] = @ \ {a}],
         UNCHANGED <<expected, targets, born, tickets, lastWrite>>
  PROVE  TicketsInv'
<1>1. \A b \in Agent, e \in Device : at'[b][e] = IF b = a /\ e = d THEN "holding" ELSE at[b][e]
  BY MoveEffect DEF Enter
<1>2. /\ queue' = queue /\ stamp' = stamp /\ issued' = issued
      /\ \A e \in Device : owner'[e] = IF e = d THEN a ELSE owner[e]
      /\ \A e \in Device : resolved'[e] = IF e = d THEN resolved[d] \ {a} ELSE resolved[e]
  BY DEF Enter, TypeOK, tickets
<1>3. Head(queue[d]) = a /\ owner[d] = None
  BY DEF MayEnter
<1>4. resolved[d] \ {a} = {}
  BY <1>3 DEF TicketsInv, SlotInv
<1>5. \A b \in Agent, e \in Device : (at'[b][e] \in Outside <=> at[b][e] \in Outside)
  BY <1>1 DEF HasTicket, Outside
<1>6. QueueInv'
  BY <1>2, <1>5 DEF TicketsInv, QueueInv
<1>7. SlotInv'
  <2> SUFFICES ASSUME NEW e \in Device
      PROVE  /\ \A b \in Agent : at'[b][e] \in InSlot <=> owner'[e] = b
             /\ owner'[e] # None => Head(queue[e]) = owner'[e]
             /\ \A s \in resolved'[e] :
                  at'[s][e] = "parked" /\ owner'[e] = None /\ Head(queue[e]) = s
    BY <1>2 DEF SlotInv
  <2>1. CASE e = d
    <3>1. \A b \in Agent : at[b][d] \notin InSlot
      BY <1>3, AgentsAssumption DEF TicketsInv, SlotInv
    <3>2. \A b \in Agent : at'[b][e] \in InSlot <=> owner'[e] = b
      BY <2>1, <3>1, <1>1, <1>2 DEF InSlot
    <3> QED  BY <2>1, <3>2, <1>2, <1>3, <1>4
  <2>2. CASE e # d
    <3>1. resolved[e] \subseteq Agent
      BY DEF TypeOK, Agent
    <3> QED  BY <2>2, <3>1, <1>1, <1>2 DEF TicketsInv, SlotInv
  <2> QED  BY <2>1, <2>2
<1>8. PlaceInv'
  <2>1. at[a][d] # "idle"
    BY DEF HasTicket, Outside
  <2> QED  BY <2>1, <1>1 DEF TicketsInv, PlaceInv
<1>9. SceneInv'
  BY <1>1, <1>2, <1>5, ScenesKept DEF TicketsInv, HasTicket, Outside, Agent
<1>10. NoLostWakeup'
  <2> SUFFICES ASSUME NEW e \in Device, owner'[e] = None, queue[e] # <<>>,
                      at'[Head(queue[e])][e] = "parked"
               PROVE  Head(queue[e]) \in resolved'[e]
    BY <1>2 DEF NoLostWakeup
  <2>1. e # d /\ owner[e] = None
    BY <1>2, AgentsAssumption
  <2>2. at[Head(queue[e])][e] = "parked"
    BY <2>1, <1>1, InQueue
  <2> QED  BY <2>1, <2>2, <1>2 DEF TicketsInv, NoLostWakeup
<1>11. BackgroundNeverWaits'
  BY <1>1, <1>2, <1>3 DEF TicketsInv, BackgroundNeverWaits, Agent, HasTicket, Outside
<1> QED  BY <1>6, <1>7, <1>8, <1>9, <1>10, <1>11 DEF TicketsInv

\* Places an agent changes without a change of the queue: within the slot, to
\* wait for a future when it may not enter, and before it asks.
Within(from, to, a, d) ==
  \/ from \in InSlot /\ to \in InSlot
  \/ from = "reserved" /\ to = "parked" /\ ~MayEnter(a, d)
  \/ from = "idle" /\ to = "captured" /\ a \in Command

\* A step that moves one agent so leaves every ticket where it is.
LEMMA MoveTickets ==
  ASSUME TypeOK, TicketsInv, NEW a \in Agent, NEW d \in Device, NEW place,
         Within(at[a][d], place, a, d), Move(a, d, place),
         \A b \in Agent, e \in Device :
           \/ expected'[b][e] = expected[b][e] /\ (b = a /\ e = d => at[a][d] # "idle")
           \/ b = a /\ e = d /\ expected'[b][e] \in 1 .. born[d],
         \A e \in Device :
           \/ lastWrite'[e] = lastWrite[e]
           \/ e = d /\ at[a][d] \in InSlot /\ lastWrite'[d] = stamp[a][d],
         UNCHANGED <<queue, owner, resolved, targets, born, tickets>>
  PROVE  TicketsInv'
<1>1. \A b \in Agent, e \in Device : at'[b][e] = IF b = a /\ e = d THEN place ELSE at[b][e]
  BY MoveEffect
<1>2. stamp' = stamp /\ issued' = issued
  BY DEF tickets
<1>3. \A b \in Agent, e \in Device :
        /\ at'[b][e] \in Outside <=> at[b][e] \in Outside
        /\ at'[b][e] \in InSlot <=> at[b][e] \in InSlot
        /\ at[b][e] = "parked" => at'[b][e] = "parked"
  BY <1>1 DEF Within, Outside, InSlot
<1>4. QueueInv'
  <2> SUFFICES ASSUME NEW e \in Device
      PROVE  /\ lastWrite'[e] <= issued[e]
             /\ \A i \in DOMAIN queue[e] : stamp[queue[e][i]][e] \in lastWrite'[e] .. issued[e]
             /\ \A i, j \in DOMAIN queue[e] :
                  i < j => stamp[queue[e][i]][e] < stamp[queue[e][j]][e]
             /\ \A b \in Agent :
                  at'[b][e] \notin Outside <=> \E i \in DOMAIN queue[e] : queue[e][i] = b
    BY <1>2 DEF QueueInv
  <2>1. CASE lastWrite'[e] = lastWrite[e]
    BY <2>1, <1>3 DEF TicketsInv, QueueInv
  <2>2. CASE e = d /\ at[a][d] \in InSlot /\ lastWrite'[d] = stamp[a][d]
    <3>1. owner[d] = a /\ Head(queue[d]) = a
      BY <2>2, AgentsAssumption DEF TicketsInv, SlotInv
    <3>2. \E i \in DOMAIN queue[d] : queue[d][i] = a
      BY <2>2 DEF TicketsInv, QueueInv, InSlot, Outside
    <3>3. queue[d] \in Seq(Agent) /\ DOMAIN queue[d] = 1 .. Len(queue[d]) /\ Len(queue[d]) \in Nat
      BY LenProperties DEF TypeOK
    <3>4. queue[d][1] = a /\ 1 \in DOMAIN queue[d]
      BY <3>1, <3>2, <3>3
    <3>5. ASSUME NEW i \in DOMAIN queue[d]
          PROVE  stamp[queue[d][i]][d] \in stamp[a][d] .. issued[d]
      <4>1. stamp[queue[d][i]][d] \in lastWrite[d] .. issued[d]
        BY DEF TicketsInv, QueueInv
      <4>2. i = 1 \/ 1 < i
        BY <3>3
      <4>3. 1 < i => stamp[queue[d][1]][d] < stamp[queue[d][i]][d]
        BY <3>4 DEF TicketsInv, QueueInv
      <4>4. stamp[a][d] \in Nat /\ lastWrite[d] \in Nat /\ issued[d] \in Nat
        BY NumbersAreNatural
      <4> QED  BY <4>1, <4>2, <4>3, <4>4, <3>4
    <3>6. stamp[a][d] <= issued[d]
      <4>1. stamp[a][d] \in stamp[a][d] .. issued[d]
        BY <3>4, <3>5
      <4> QED  BY <4>1, NumbersAreNatural
    <3> QED  BY <2>2, <3>5, <3>6, <1>3 DEF TicketsInv, QueueInv
  <2> QED  BY <2>1, <2>2
<1>5. SlotInv'
  <2>1. \A e \in Device : resolved[e] \subseteq Agent
    BY DEF TypeOK, Agent
  <2> QED  BY <2>1, <1>3 DEF TicketsInv, SlotInv
<1>6. PlaceInv'
  <2> SUFFICES ASSUME NEW b \in Agent, NEW e \in Device
      PROVE  /\ at'[b][e] = "captured" => b \in Command
             /\ at'[b][e] = "waiting" => b \notin Scene
             /\ at'[b][e] \in {"reserved", "parked"} => b \in Scene
             /\ at'[b][e] # "idle" => expected'[b][e] # 0
             /\ expected'[b][e] <= born[e]
    BY DEF PlaceInv
  <2>1. /\ at'[b][e] = "captured" => b \in Command
        /\ at'[b][e] = "waiting" => b \notin Scene
        /\ at'[b][e] \in {"reserved", "parked"} => b \in Scene
    BY <1>1 DEF Within, InSlot, TicketsInv, PlaceInv
  <2>2. CASE expected'[b][e] = expected[b][e] /\ (b = a /\ e = d => at[a][d] # "idle")
    BY <2>1, <2>2, <1>1 DEF TicketsInv, PlaceInv
  <2>3. CASE b = a /\ e = d /\ expected'[b][e] \in 1 .. born[d]
    BY <2>1, <2>3, NumbersAreNatural
  <2> QED  BY <2>2, <2>3
<1>7. SceneInv'
  <2>1. \A s \in Scene, e \in Device : at[s][e] = "idle" => at'[s][e] = "idle"
    BY <1>1, AgentsAssumption DEF Within, InSlot, Agent
  <2> QED  BY <2>1, <1>2, <1>3, ScenesKept DEF TicketsInv, HasTicket, Agent
<1>8. NoLostWakeup'
  <2> SUFFICES ASSUME NEW e \in Device, owner[e] = None, queue[e] # <<>>,
                      at'[Head(queue[e])][e] = "parked"
               PROVE  Head(queue[e]) \in resolved[e]
    BY DEF NoLostWakeup
  <2>1. Head(queue[e]) \in Agent
    BY InQueue
  <2>2. at[Head(queue[e])][e] = "parked"
    BY <2>1, <1>1 DEF Within, InSlot, MayEnter
  <2> QED  BY <2>2 DEF TicketsInv, NoLostWakeup
<1>9. BackgroundNeverWaits'
  <2> SUFFICES ASSUME NEW w \in Watcher, NEW e \in Device, at'[w][e] # "idle"
               PROVE  at[w][e] # "idle"
    BY DEF TicketsInv, BackgroundNeverWaits
  <2> QED  BY <1>1, AgentsAssumption DEF Within, InSlot, Agent
<1> QED  BY <1>4, <1>5, <1>6, <1>7, <1>8, <1>9 DEF TicketsInv

\* A step without any part in the queue.
LEMMA SameTickets ==
  ASSUME TypeOK, TicketsInv, SceneInv',
         UNCHANGED <<queue, owner, resolved, at, expected, tickets, lastWrite>>,
         \A d \in Device : born'[d] \in Nat /\ born[d] <= born'[d]
  PROVE  TicketsInv'
<1>1. PlaceInv'
  BY NumbersAreNatural DEF TicketsInv, PlaceInv
<1> QED  BY <1>1 DEF TicketsInv, QueueInv, SlotInv, NoLostWakeup, BackgroundNeverWaits, tickets

-----------------------------------------------------------------------------
(* The beliefs: what the steps of the queue leave of them.                 *)

\* A reading that is fresh after a step of the queue was fresh before it: who
\* takes or gives back a ticket counts the version up.
LEMMA SameBeliefs ==
  ASSUME TypeOK, BeliefsInv,
         UNCHANGED <<reading, noted, got, registry, world, drift>>,
         recover' \subseteq recover,
         \A d \in Device :
           /\ version'[d] \in Nat
           /\ \/ queue'[d] = queue[d] /\ version'[d] = version[d]
              \/ version'[d] > version[d]
              \/ ~Observed(d),
         \A a \in Agent, d \in Device :
           /\ at'[a][d] = "written" <=> at[a][d] = "written"
           /\ at[a][d] = "written" => expected'[a][d] = expected[a][d]
  PROVE  BeliefsInv'
<1>1. /\ client' = client /\ shadow' = shadow /\ born' = born /\ power' = power
      /\ wrote' = wrote
  BY DEF registry, world
<1>2. \A d \in Device : Observed(d)' <=> Observed(d)
  BY DEF Observed
<1>3. \A d \in Device : Observed(d) =>
        /\ noted[d].version <= version[d] /\ version[d] \in Nat /\ noted[d].version \in Nat
        /\ ~noted[d].busy /\ version[d] = noted[d].version => queue[d] = <<>>
  BY NumbersAreNatural DEF BeliefsInv, ReaderInv
<1>4. \A d \in Device : Observed(d) =>
        /\ noted[d].version <= version'[d]
        /\ ~noted[d].busy /\ version'[d] = noted[d].version =>
             queue'[d] = <<>> /\ queue[d] = <<>> /\ version[d] = noted[d].version
  BY <1>3
<1>5. ReaderInv'
  <2>1. recover \subseteq Device
    BY DEF TypeOK
  <2>2. /\ reading \in {"idle", "recover"} => got = Zero
        /\ reading # "recover" => recover' = {}
        /\ \A d \in recover' : Observed(d)'
    BY <2>1, <1>2 DEF BeliefsInv, ReaderInv
  <2>3. \A d \in Device : Observed(d)' =>
          /\ noted[d].client \in 1 .. born[d] /\ noted[d].version <= version'[d]
          /\ ~noted[d].busy /\ version'[d] = noted[d].version => queue'[d] = <<>>
    BY <1>2, <1>4 DEF BeliefsInv, ReaderInv
  <2> QED  BY <2>2, <2>3, <1>1 DEF ReaderInv
<1>6. \A d \in Device : Fresh(d)' => Fresh(d)
  BY <1>1, <1>2, <1>4 DEF Fresh, Unchanged
<1>7. SyncInv'
  <2> SUFFICES ASSUME NEW d \in Device
      PROVE  /\ client[d] <= born[d]
             /\ shadow[d] <= power[d] /\ got[d] <= power[d] /\ wrote[d] <= power[d]
             /\ Fresh(d)' => got[d] >= shadow[d] /\ (got[d] = power[d] \/ drift[d])
             /\ \A a \in Agent : at'[a][d] = "written" /\ client[d] = expected'[a][d] =>
                  shadow[d] <= wrote[d] /\ (wrote[d] = power[d] \/ drift[d])
             /\ client[d] # 0 /\ ~drift[d] =>
                  shadow[d] = power[d] \/ \E a \in Agent : at'[a][d] = "written"
    BY <1>1 DEF SyncInv
  <2> QED  BY <1>6 DEF BeliefsInv, SyncInv
<1> QED  BY <1>5, <1>7 DEF BeliefsInv

\* What cancel does to the version.
LEMMA CancelVersion ==
  ASSUME TypeOK, NEW a \in Agent, NEW d \in Device, Cancel(a, d)
  PROVE  \A e \in Device :
           /\ version'[e] \in Nat
           /\ \/ queue'[e] = queue[e] /\ version'[e] = version[e]
              \/ version'[e] > version[e]
              \/ ~Observed(e)
<1> SUFFICES ASSUME NEW e \in Device
    PROVE  /\ version'[e] \in Nat
           /\ \/ queue'[e] = queue[e] /\ version'[e] = version[e]
              \/ version'[e] > version[e]
              \/ ~Observed(e)
  OBVIOUS
<1>1. version \in [Device -> Nat] /\ queue \in [Device -> Seq(Agent)]
  BY DEF TypeOK
<1>2. e # d => queue'[e] = queue[e] /\ version'[e] = version[e]
  BY <1>1 DEF Cancel
<1>3. (version'[d] = 0 /\ ~Observed(d)) \/ version'[d] = version[d] + 1
  BY <1>1 DEF Cancel
<1> QED  BY <1>1, <1>2, <1>3

\* What reserve does to it.
LEMMA ReserveVersion ==
  ASSUME TypeOK, NEW a \in Agent, NEW d \in Device, Reserve(a, d)
  PROVE  \A e \in Device :
           /\ version'[e] \in Nat
           /\ \/ queue'[e] = queue[e] /\ version'[e] = version[e]
              \/ version'[e] > version[e]
BY SMTT(30) DEF Reserve, TypeOK

\* And to the types.
LEMMA ReserveTypes ==
  ASSUME TypeOK, NEW a \in Agent, NEW d \in Device, Reserve(a, d),
         NEW place \in {"reserved", "waiting"}, Move(a, d, place)
  PROVE  /\ queue' \in [Device -> Seq(Agent)] /\ version' \in [Device -> Nat]
         /\ issued' \in [Device -> Nat] /\ stamp' \in [Agent -> [Device -> Nat]]
         /\ at' \in [Agent -> [Device -> Outside \cup Waiting \cup InSlot]]
         /\ owner' = owner /\ resolved' = resolved
<1>1. Append(queue[d], a) \in Seq(Agent)
  BY AppendProperties DEF TypeOK
<1>2. queue' \in [Device -> Seq(Agent)]
  BY <1>1 DEF Reserve, TypeOK
<1>3. /\ version' \in [Device -> Nat] /\ issued' \in [Device -> Nat]
      /\ owner' = owner /\ resolved' = resolved
  <2>1. /\ version' = [version EXCEPT ![d] = @ + 1] /\ issued' = [issued EXCEPT ![d] = @ + 1]
        /\ owner' = owner /\ resolved' = resolved
    BY DEF Reserve
  <2>2. version \in [Device -> Nat] /\ issued \in [Device -> Nat]
    BY DEF TypeOK
  <2> QED  BY <2>1, <2>2
<1>4. stamp' \in [Agent -> [Device -> Nat]]
  <2>1. issued[d] + 1 \in Nat
    BY NumbersAreNatural
  <2>2. stamp \in [Agent -> [Device -> Nat]] /\ stamp' = [stamp EXCEPT ![a][d] = issued[d] + 1]
    BY DEF Reserve, TypeOK
  <2> QED  BY <2>1, <2>2
<1>5. at' \in [Agent -> [Device -> Outside \cup Waiting \cup InSlot]]
  BY DEF Move, TypeOK, Waiting
<1> QED  BY <1>2, <1>3, <1>4, <1>5

-----------------------------------------------------------------------------
(* The initial state and the steps of requests and scenes.                 *)

\* Every device is registered and nobody asks for it at the start.
LEMMA InitInv == Init => TapoInv
<1> SUFFICES ASSUME Init PROVE TapoInv
  OBVIOUS
<1>1. TypeOK
  BY DEF Init, TypeOK, Outside, Waiting, InSlot, Zero, One, Nothing, Note
<1>2. TicketsInv
  BY AgentsAssumption DEF Init, TicketsInv, QueueInv, SlotInv, PlaceInv, SceneInv, NoLostWakeup,
     BackgroundNeverWaits, Outside, InSlot, HasTicket, Zero, One, Agent
<1>3. BeliefsInv
  BY DEF Init, BeliefsInv, ReaderInv, SyncInv, Observed, Fresh, Zero, One
<1> QED  BY <1>1, <1>2, <1>3 DEF TapoInv

\* A request notes the client it was meant for.
LEMMA RequestInv ==
  ASSUME TapoInv, NEW c \in Command, NEW d \in Device, Request(c, d)
  PROVE  TapoInv'
<1> USE DEF Request
<1>1. c \in Agent
  BY DEF Agent
<1>2. TypeOK'
  BY <1>1 DEF TapoInv, TypeOK, Move, Outside, slots, reader, registry, world, tickets, ghost
<1>3. client[d] \in 1 .. born[d]
  BY NumbersAreNatural DEF TapoInv, BeliefsInv, SyncInv
<1>4. \A b \in Agent, e \in Device :
        expected'[b][e] = IF b = c /\ e = d THEN client[d] ELSE expected[b][e]
  BY DEF TapoInv, TypeOK
<1>5. TicketsInv'
  <2>1. Within(at[c][d], "captured", c, d)
    BY DEF Within
  <2>2. \A b \in Agent, e \in Device :
          \/ expected'[b][e] = expected[b][e] /\ (b = c /\ e = d => at[c][d] # "idle")
          \/ b = c /\ e = d /\ expected'[b][e] \in 1 .. born[d]
    BY <1>3, <1>4
  <2>3. UNCHANGED <<queue, owner, resolved, targets, born, tickets, lastWrite>>
    BY DEF slots, registry, ghost
  <2> QED  BY <1>1, <2>1, <2>2, <2>3, MoveTickets DEF TapoInv
<1>6. BeliefsInv'
  <2>1. \A b \in Agent, e \in Device : at'[b][e] = IF b = c /\ e = d THEN "captured" ELSE at[b][e]
    BY <1>1, MoveEffect DEF TapoInv
  <2>2. UNCHANGED <<queue, version, reading, noted, got, recover, registry, world, drift>>
    BY DEF slots, reader, ghost
  <2> QED  BY <1>4, <2>1, <2>2, SameBeliefs, NumbersAreNatural DEF TapoInv
<1> QED  BY <1>2, <1>5, <1>6 DEF TapoInv

\* hold, with a ticket or without.
LEMMA HoldInv ==
  ASSUME TapoInv, NEW c \in Command, NEW d \in Device, Hold(c, d)
  PROVE  TapoInv'
<1>1. c \in Agent /\ c \notin Scene /\ c \notin Watcher
  BY AgentsAssumption DEF Agent
<1>2. at[c][d] = "captured" /\ ~HasTicket(c, d) /\ at[c][d] # "idle"
  BY DEF Hold, HasTicket, Outside
<1>3. UNCHANGED <<targets, reading, noted, got, recover, client, shadow, born, power, wrote,
                  surprises, lastWrite, drift, owner, resolved>>
  BY DEF Hold, Reserve, reader, registry, world, ghost, slots
<1>4. CASE Reserve(c, d) /\ Move(c, d, "waiting") /\ UNCHANGED expected
  <2>1. \A b \in Agent, e \in Device :
          at'[b][e] = IF b = c /\ e = d THEN "waiting" ELSE at[b][e]
    BY <1>1, <1>4, MoveEffect DEF TapoInv
  <2>2. TypeOK'
    BY <1>1, <1>3, <1>4, ReserveTypes DEF TapoInv, TypeOK
  <2>3. QueueInv' /\ SlotInv' /\ NoLostWakeup' /\ BackgroundNeverWaits'
    BY <1>1, <1>2, <1>3, <1>4, ReserveTickets DEF TapoInv
  <2>4. PlaceInv'
    BY <1>1, <1>2, <1>3, <1>4, <2>1 DEF TapoInv, TicketsInv, PlaceInv
  <2>5. \A b \in Agent, e \in Device : b # c => stamp'[b][e] = stamp[b][e]
    BY <1>4 DEF Reserve, TapoInv, TypeOK
  <2>6. SceneInv'
    BY <1>1, <1>3, <2>1, <2>5, ScenesKept DEF TapoInv, TicketsInv, HasTicket, Agent
  <2>7. BeliefsInv'
    BY <1>1, <1>2, <1>3, <1>4, <2>1, SameBeliefs, ReserveVersion DEF TapoInv, registry, world
  <2> QED  BY <2>2, <2>3, <2>4, <2>6, <2>7 DEF TapoInv, TicketsInv
<1>5. CASE Forget(c, d) /\ UNCHANGED <<slots, issued>>
  <2>1. \A b \in Agent, e \in Device :
          /\ at'[b][e] = IF b = c /\ e = d THEN "idle" ELSE at[b][e]
          /\ expected'[b][e] = IF b = c /\ e = d THEN 0 ELSE expected[b][e]
          /\ stamp'[b][e] = IF b = c /\ e = d THEN 0 ELSE stamp[b][e]
    BY <1>1, <1>5, ForgetEffect DEF TapoInv
  <2>2. queue' = queue /\ version' = version /\ owner' = owner /\ resolved' = resolved
        /\ issued' = issued
    BY <1>5 DEF slots
  <2>3. TypeOK'
    BY <1>1, <1>3, <1>5, <2>2 DEF TapoInv, TypeOK, Forget, Move, Outside
  <2>4. \A b \in Agent, e \in Device :
          /\ at'[b][e] \in Outside <=> at[b][e] \in Outside
          /\ at'[b][e] \in InSlot <=> at[b][e] \in InSlot
          /\ at'[b][e] # "idle" => at'[b][e] = at[b][e]
          /\ at[b][e] = "parked" => at'[b][e] = "parked"
          /\ HasTicket(b, e) => stamp'[b][e] = stamp[b][e]
    BY <1>2, <2>1 DEF Outside, InSlot, HasTicket
  <2>5. QueueInv'
    <3>1. \A e \in Device : \A i \in DOMAIN queue[e] :
            queue[e][i] \in Agent /\ HasTicket(queue[e][i], e)
      BY InQueue DEF TapoInv, TicketsInv, QueueInv, HasTicket
    <3> QED  BY <3>1, <1>3, <2>2, <2>4 DEF TapoInv, TicketsInv, QueueInv, HasTicket
  <2>6. SlotInv'
    <3>1. \A e \in Device : resolved[e] \subseteq Agent
      BY DEF TapoInv, TypeOK, Agent
    <3> QED  BY <3>1, <2>2, <2>4 DEF TapoInv, TicketsInv, SlotInv
  <2>7. PlaceInv'
    BY <1>3, <2>1, NumbersAreNatural DEF TapoInv, TicketsInv, PlaceInv
  <2>8. SceneInv'
    BY <1>1, <1>3, <2>1, ScenesKept DEF TapoInv, TicketsInv, HasTicket, Agent
  <2>9. NoLostWakeup'
    BY <2>2, <2>4, InQueue DEF TapoInv, TicketsInv, NoLostWakeup
  <2>10. BackgroundNeverWaits'
    BY <2>2, <2>4 DEF TapoInv, TicketsInv, BackgroundNeverWaits, Agent
  <2>11. BeliefsInv'
    BY <1>2, <1>3, <2>1, <2>2, SameBeliefs, NumbersAreNatural DEF TapoInv, registry, world
  <2> QED  BY <2>3, <2>5, <2>6, <2>7, <2>8, <2>9, <2>10, <2>11 DEF TapoInv, TicketsInv
<1> QED  BY <1>4, <1>5 DEF Hold

\* __enter__: the thread that stands first takes the free slot.
LEMMA EnterThreadInv ==
  ASSUME TapoInv, NEW a \in Agent, NEW d \in Device, EnterThread(a, d)
  PROVE  TapoInv'
<1>1. at[a][d] = "waiting" /\ MayEnter(a, d) /\ Enter(a, d) /\ HasTicket(a, d)
  BY DEF EnterThread, HasTicket, Outside
<1>2. UNCHANGED <<queue, version, resolved, expected, targets, reading, noted, got, recover,
                  client, shadow, born, power, wrote, surprises, tickets, lastWrite, drift>>
  BY DEF EnterThread, Enter, reader, registry, world, ghost
<1>3. \A b \in Agent, e \in Device : at'[b][e] = IF b = a /\ e = d THEN "holding" ELSE at[b][e]
  BY <1>1, MoveEffect DEF Enter, TapoInv
<1>4. TypeOK'
  BY <1>1, <1>2 DEF TapoInv, TypeOK, Enter, Move, InSlot, tickets
<1>5. resolved' = [resolved EXCEPT ![d] = @ \ {a}]
  <2>1. a \notin resolved[d]
    BY <1>1 DEF TapoInv, TicketsInv, SlotInv
  <2> QED  BY <1>2, <2>1 DEF TapoInv, TypeOK
<1>6. TicketsInv'
  BY <1>1, <1>2, <1>5, EnterTickets DEF TapoInv
<1>7. BeliefsInv'
  BY <1>1, <1>2, <1>3, SameBeliefs, NumbersAreNatural DEF TapoInv, registry, world
<1> QED  BY <1>4, <1>6, <1>7 DEF TapoInv

\* Whoever gives up or leaves cancels its ticket.
LEMMA CancelInv ==
  ASSUME TapoInv, NEW a \in Agent, NEW d \in Device, HasTicket(a, d), at[a][d] # "written",
         Cancel(a, d), UNCHANGED <<targets, reader, registry, world, issued, ghost>>
  PROVE  TapoInv'
<1>1. UNCHANGED <<targets, reading, noted, got, recover, client, shadow, born, power, wrote,
                  surprises, issued, lastWrite, drift>>
  BY DEF reader, registry, world, ghost
<1>2. TicketsInv'
  BY <1>1, CancelTickets DEF TapoInv
<1>3. \A b \in Agent, e \in Device :
        /\ at'[b][e] = IF b = a /\ e = d THEN "idle" ELSE at[b][e]
        /\ expected'[b][e] = IF b = a /\ e = d THEN 0 ELSE expected[b][e]
  BY ForgetEffect DEF Cancel, TapoInv
<1>4. BeliefsInv'
  BY <1>1, <1>3, SameBeliefs, CancelVersion DEF TapoInv
<1>5. TypeOK'
  <2>1. Without(a, d) \in Seq(Agent)
    BY QueueWithout DEF TapoInv, TicketsInv
  <2>2. Resolved(a, d) \in SUBSET Scene
    BY DEF Resolved, TapoInv, TypeOK
  <2>3. queue' \in [Device -> Seq(Agent)] /\ owner' \in [Device -> Agent \cup {None}]
        /\ resolved' \in [Device -> SUBSET Scene]
    BY <2>1, <2>2 DEF Cancel, TapoInv, TypeOK
  <2>4. version' \in [Device -> Nat]
    BY SMTT(30) DEF Cancel, TapoInv, TypeOK
  <2>5. /\ at' \in [Agent -> [Device -> Outside \cup Waiting \cup InSlot]]
        /\ expected' \in [Agent -> [Device -> Nat]] /\ stamp' \in [Agent -> [Device -> Nat]]
    BY DEF Cancel, Forget, Move, Outside, TapoInv, TypeOK
  <2> QED  BY <2>3, <2>4, <2>5, <1>1 DEF TapoInv, TypeOK
<1> QED  BY <1>2, <1>4, <1>5 DEF TapoInv

\* A deadline, __exit__ and __aexit__ end in the same cancel.
LEMMA TimeOutInv ==
  ASSUME TapoInv, NEW a \in Agent, NEW d \in Device, TimeOut(a, d) \/ Leave(a, d)
  PROVE  TapoInv'
BY CancelInv DEF TimeOut, Leave, HasTicket, Outside

\* A scene is admitted when no other is.
LEMMA AdmitSceneInv ==
  ASSUME TapoInv, NEW s \in Scene, NEW D \in SUBSET Device, AdmitScene(s, D)
  PROVE  TapoInv'
<1> USE DEF AdmitScene
<1>1. UNCHANGED <<queue, owner, version, resolved, at, expected, reading, noted, got, recover,
                  client, shadow, born, power, wrote, surprises, tickets, lastWrite, drift>>
  BY DEF slots, reader, registry, world, ghost
<1>2. TypeOK'
  BY <1>1 DEF TapoInv, TypeOK, tickets
<1>3. /\ targets \in [Scene -> SUBSET Device]
      /\ \A t \in Scene : targets[t] = {} /\ targets'[t] = IF t = s THEN D ELSE {}
      /\ \A d \in Device : at[s][d] = "idle" /\ ~HasTicket(s, d)
  BY DEF StateLockFree, TapoInv, TypeOK, HasTicket, Outside
<1>4. SceneInv'
  BY <1>1, <1>3 DEF TapoInv, TicketsInv, SceneInv, HasTicket, tickets
<1>5. TicketsInv'
  BY <1>1, <1>4, SameTickets, NumbersAreNatural DEF TapoInv
<1>6. BeliefsInv'
  BY <1>1, SameBeliefs, NumbersAreNatural DEF TapoInv, registry, world
<1> QED  BY <1>2, <1>5, <1>6 DEF TapoInv

\* A ticket of the admitted scene is newer than every other scene's.
LEMMA ReserveTargetInv ==
  ASSUME TapoInv, NEW s \in Scene, NEW d \in Device, ReserveTarget(s, d)
  PROVE  TapoInv'
<1>1. s \in Agent /\ s \notin Watcher
  BY AgentsAssumption DEF Agent
<1>2. /\ d \in targets[s] /\ targets' = [targets EXCEPT ![s] = @ \ {d}]
      /\ targets \in [Scene -> SUBSET Device]
      /\ \A t \in Scene : targets'[t] = IF t = s THEN targets[s] \ {d} ELSE targets[t]
  BY DEF ReserveTarget, TapoInv, TypeOK
<1>3. at[s][d] = "idle" /\ ~HasTicket(s, d)
  BY <1>2 DEF TapoInv, TicketsInv, SceneInv, HasTicket, Outside
<1>4. UNCHANGED <<owner, resolved, reading, noted, got, recover, client, shadow, born, power,
                  wrote, surprises, lastWrite, drift>>
  BY DEF ReserveTarget, Reserve, slots, reader, registry, world, ghost
<1>5. \A t \in Scene : t # s => targets[t] = {}
  BY <1>2 DEF TapoInv, TicketsInv, SceneInv
<1>6. CASE /\ client[d] # 0 /\ Reserve(s, d)
           /\ expected' = [expected EXCEPT ![s][d] = client[d]]
           /\ Move(s, d, "reserved")
  <2>1. /\ \A b \in Agent, e \in Device :
             at'[b][e] = IF b = s /\ e = d THEN "reserved" ELSE at[b][e]
        /\ \A b \in Agent, e \in Device :
             expected'[b][e] = IF b = s /\ e = d THEN client[d] ELSE expected[b][e]
        /\ \A b \in Agent, e \in Device :
             stamp'[b][e] = IF b = s /\ e = d THEN issued[d] + 1 ELSE stamp[b][e]
    <3>1. \A b \in Agent, e \in Device : at'[b][e] = IF b = s /\ e = d THEN "reserved" ELSE at[b][e]
      BY <1>1, <1>6, MoveEffect DEF TapoInv
    <3>2. \A b \in Agent, e \in Device :
            stamp'[b][e] = IF b = s /\ e = d THEN issued[d] + 1 ELSE stamp[b][e]
      BY <1>1, <1>6 DEF Reserve, TapoInv, TypeOK
    <3>3. \A b \in Agent, e \in Device :
            expected'[b][e] = IF b = s /\ e = d THEN client[d] ELSE expected[b][e]
      BY <1>1, <1>6 DEF TapoInv, TypeOK
    <3> QED  BY <3>1, <3>2, <3>3
  <2>2. TypeOK'
    <3>1. expected' \in [Agent -> [Device -> Nat]]
      BY <1>1, <1>6 DEF TapoInv, TypeOK
    <3>2. targets' \in [Scene -> SUBSET Device]
      BY <1>2
    <3> QED  BY <1>1, <1>4, <1>6, <3>1, <3>2, ReserveTypes DEF TapoInv, TypeOK
  <2>3. QueueInv' /\ SlotInv' /\ NoLostWakeup' /\ BackgroundNeverWaits'
    BY <1>1, <1>3, <1>4, <1>6, ReserveTickets DEF TapoInv
  <2>4. PlaceInv'
    BY <1>1, <1>4, <1>6, <2>1, NumbersAreNatural DEF TapoInv, TicketsInv, PlaceInv, BeliefsInv, SyncInv
  <2>5. \A t \in Scene : HasTicket(t, d) => stamp[t][d] < issued[d] + 1
    <3> SUFFICES ASSUME NEW t \in Scene, HasTicket(t, d)
                 PROVE  stamp[t][d] < issued[d] + 1
      OBVIOUS
    <3>1. t \in Agent /\ stamp[t][d] \in Nat /\ issued[d] \in Nat /\ lastWrite[d] \in Nat
      BY NumbersAreNatural DEF TapoInv, Agent
    <3>2. PICK i \in DOMAIN queue[d] : queue[d][i] = t
      BY <3>1 DEF TapoInv, TicketsInv, QueueInv, HasTicket
    <3>3. stamp[t][d] \in lastWrite[d] .. issued[d]
      BY <3>2 DEF TapoInv, TicketsInv, QueueInv
    <3> QED  BY <3>1, <3>3
  <2>6. SceneInv'
    <3> SUFFICES ASSUME NEW u \in Scene, NEW t \in Scene
        PROVE  /\ \A e \in targets'[u] : at'[u][e] = "idle"
               /\ u # t =>
                  /\ targets'[u] # {} =>
                       /\ targets'[t] = {}
                       /\ \A e \in Device :
                            HasTicket(u, e)' /\ HasTicket(t, e)' => stamp'[t][e] < stamp'[u][e]
                  /\ \A e, f \in Device :
                       (/\ HasTicket(u, e)' /\ HasTicket(t, e)' /\ HasTicket(u, f)' /\ HasTicket(t, f)'
                        /\ stamp'[u][e] < stamp'[t][e]) => stamp'[u][f] < stamp'[t][f]
      BY DEF SceneInv
    <3>1. u \in Agent /\ t \in Agent
      BY DEF Agent
    <3>2. \A e \in targets'[u] : at'[u][e] = "idle"
      BY <3>1, <1>2, <1>5, <2>1 DEF TapoInv, TicketsInv, SceneInv
    <3>3. \A x \in {u, t}, e \in Device : HasTicket(x, e)' <=> (x = s /\ e = d) \/ HasTicket(x, e)
      BY <3>1, <2>1 DEF HasTicket, Outside
    <3>4. \A x \in {u, t}, e \in Device : stamp[x][e] \in Nat /\ issued[d] \in Nat
      BY <3>1, NumbersAreNatural DEF TapoInv
    <3>5. \A e \in Device : t # s /\ HasTicket(s, e)' /\ HasTicket(t, e)' => stamp'[t][e] < stamp'[s][e]
      <4> SUFFICES ASSUME t # s, NEW e \in Device, HasTicket(s, e)', HasTicket(t, e)'
                   PROVE  stamp'[t][e] < stamp'[s][e]
        OBVIOUS
      <4>1. HasTicket(t, e) /\ stamp'[t][e] = stamp[t][e]
        BY <3>1, <3>3, <2>1
      <4>2. CASE e = d
        BY <4>1, <4>2, <2>1, <2>5, <1>1
      <4>3. CASE e # d
        <5>1. HasTicket(s, e) /\ stamp'[s][e] = stamp[s][e]
          BY <4>3, <1>1, <2>1 DEF HasTicket
        <5> QED  BY <4>1, <5>1, <1>2 DEF TapoInv, TicketsInv, SceneInv
      <4> QED  BY <4>2, <4>3
    <3>6. \A e \in Device : u # s /\ HasTicket(s, e)' /\ HasTicket(u, e)' => stamp'[u][e] < stamp'[s][e]
      <4> SUFFICES ASSUME u # s, NEW e \in Device, HasTicket(s, e)', HasTicket(u, e)'
                   PROVE  stamp'[u][e] < stamp'[s][e]
        OBVIOUS
      <4>1. HasTicket(u, e) /\ stamp'[u][e] = stamp[u][e]
        BY <3>1, <3>3, <2>1
      <4>2. CASE e = d
        BY <4>1, <4>2, <2>1, <2>5, <1>1
      <4>3. CASE e # d
        <5>1. HasTicket(s, e) /\ stamp'[s][e] = stamp[s][e]
          BY <4>3, <1>1, <2>1 DEF HasTicket
        <5> QED  BY <4>1, <5>1, <1>2 DEF TapoInv, TicketsInv, SceneInv
      <4> QED  BY <4>2, <4>3
    <3>7. u # t /\ targets'[u] # {} => u = s /\ targets'[t] = {}
      BY <1>2, <1>5
    <3>8. \A x \in {u, t}, e \in Device : stamp'[x][e] \in Nat
      BY <3>1, <3>4, <2>1
    <3>9. ASSUME u # t, NEW e \in Device, NEW f \in Device, HasTicket(u, e)', HasTicket(t, e)',
                 HasTicket(u, f)', HasTicket(t, f)', stamp'[u][e] < stamp'[t][e]
          PROVE  stamp'[u][f] < stamp'[t][f]
      <4>1. CASE t = s
        BY <4>1, <3>6, <3>9
      <4>2. CASE u = s
        BY <4>2, <3>5, <3>8, <3>9
      <4>3. CASE t # s /\ u # s
        <5>1. /\ HasTicket(u, e) /\ HasTicket(t, e) /\ HasTicket(u, f) /\ HasTicket(t, f)
              /\ stamp'[u][e] = stamp[u][e] /\ stamp'[t][e] = stamp[t][e]
              /\ stamp'[u][f] = stamp[u][f] /\ stamp'[t][f] = stamp[t][f]
          BY <4>3, <3>1, <3>3, <3>9, <2>1
        <5> QED  BY <5>1, <3>9 DEF TapoInv, TicketsInv, SceneInv
      <4> QED  BY <4>1, <4>2, <4>3
    <3> QED  BY <3>2, <3>5, <3>7, <3>9
  <2>7. BeliefsInv'
    BY <1>1, <1>3, <1>4, <1>6, <2>1, SameBeliefs, ReserveVersion DEF TapoInv, registry, world
  <2> QED  BY <2>2, <2>3, <2>4, <2>6, <2>7 DEF TapoInv, TicketsInv
<1>7. CASE UNCHANGED <<slots, tickets, expected, at>>
  <2>1. UNCHANGED <<queue, owner, version, resolved, stamp, issued, expected, at>>
    BY <1>7 DEF slots, tickets
  <2>2. TypeOK'
    BY <1>2, <1>4, <2>1 DEF TapoInv, TypeOK
  <2>3. SceneInv'
    BY <1>2, <1>5, <2>1 DEF TapoInv, TicketsInv, SceneInv, HasTicket
  <2>4. TicketsInv'
    BY <1>4, <2>1, <2>3, SameTickets, NumbersAreNatural DEF TapoInv, tickets
  <2>5. BeliefsInv'
    BY <1>4, <2>1, SameBeliefs, NumbersAreNatural DEF TapoInv, registry, world
  <2> QED  BY <2>2, <2>4, <2>5 DEF TapoInv
<1> QED  BY <1>6, <1>7 DEF ReserveTarget

\* __aenter__: into the slot, or to wait for a future.
LEMMA EnterSceneInv ==
  ASSUME TapoInv, NEW s \in Scene, NEW d \in Device, EnterScene(s, d)
  PROVE  TapoInv'
<1>1. s \in Agent /\ at[s][d] = "reserved" /\ HasTicket(s, d)
  BY DEF EnterScene, HasTicket, Outside, Agent
<1>2. UNCHANGED <<queue, version, resolved, expected, targets, reading, noted, got, recover,
                  client, shadow, born, power, wrote, surprises, tickets, lastWrite, drift>>
  BY DEF EnterScene, Enter, reader, registry, world, ghost
<1>3. PICK place \in {"holding", "parked"} : Move(s, d, place)
  BY DEF EnterScene, Enter
<1>4. \A b \in Agent, e \in Device : at'[b][e] = IF b = s /\ e = d THEN place ELSE at[b][e]
  BY <1>1, <1>3, MoveEffect DEF TapoInv
<1>5. BeliefsInv'
  BY <1>1, <1>2, <1>4, SameBeliefs, NumbersAreNatural DEF TapoInv, registry, world
<1>6. CASE MayEnter(s, d)
  <2>1. Enter(s, d)
    BY <1>6 DEF EnterScene
  <2>2. TypeOK'
    BY <1>1, <1>2, <2>1 DEF TapoInv, TypeOK, Enter, Move, InSlot, tickets
  <2>3. resolved' = [resolved EXCEPT ![d] = @ \ {s}]
    <3>1. s \notin resolved[d]
      BY <1>1 DEF TapoInv, TicketsInv, SlotInv
    <3> QED  BY <1>2, <3>1 DEF TapoInv, TypeOK
  <2> QED  BY <1>1, <1>2, <1>5, <1>6, <2>1, <2>2, <2>3, EnterTickets DEF TapoInv
<1>7. CASE ~MayEnter(s, d)
  <2>1. Move(s, d, "parked") /\ owner' = owner
    BY <1>7 DEF EnterScene
  <2>2. TypeOK'
    BY <1>1, <1>2, <2>1 DEF TapoInv, TypeOK, Move, Waiting, tickets
  <2>3. Within(at[s][d], "parked", s, d)
    BY <1>1, <1>7 DEF Within
  <2>4. TicketsInv'
    BY <1>1, <1>2, <2>1, <2>3, MoveTickets DEF TapoInv
  <2> QED  BY <1>5, <2>2, <2>4 DEF TapoInv
<1> QED  BY <1>6, <1>7

\* The scene whose future has a result stands first.
LEMMA ResumeSceneInv ==
  ASSUME TapoInv, NEW s \in Scene, NEW d \in Device, ResumeScene(s, d)
  PROVE  TapoInv'
<1> USE DEF ResumeScene
<1>1. s \in Agent /\ HasTicket(s, d)
  BY DEF HasTicket, Outside, Agent
<1>2. MayEnter(s, d)
  BY DEF TapoInv, TicketsInv, SlotInv, MayEnter
<1>3. UNCHANGED <<queue, version, expected, targets, reading, noted, got, recover,
                  client, shadow, born, power, wrote, surprises, tickets, lastWrite, drift>>
  BY DEF Enter, reader, registry, world, ghost
<1>4. TypeOK'
  <2>1. resolved' \in [Device -> SUBSET Scene]
    BY DEF TapoInv, TypeOK
  <2> QED  BY <1>1, <1>3, <2>1 DEF TapoInv, TypeOK, Enter, Move, InSlot, tickets
<1>5. TicketsInv'
  BY <1>1, <1>2, <1>3, EnterTickets DEF TapoInv
<1>6. \A b \in Agent, e \in Device : at'[b][e] = IF b = s /\ e = d THEN "holding" ELSE at[b][e]
  BY <1>1, MoveEffect DEF TapoInv, Enter
<1>7. BeliefsInv'
  BY <1>1, <1>3, <1>6, SameBeliefs, NumbersAreNatural DEF TapoInv, registry, world
<1> QED  BY <1>4, <1>5, <1>7 DEF TapoInv

-----------------------------------------------------------------------------
(* The steps of the holder of a device.                                    *)

\* A comparison of the client noted with the one registered.
LEMMA CheckClientInv ==
  ASSUME TapoInv, NEW a \in Agent, NEW d \in Device, CheckClient(a, d)
  PROVE  TapoInv'
<1>1. at[a][d] = "holding"
  BY DEF CheckClient
<1>2. PICK place \in {"leaving", "planning", "ready"} : Move(a, d, place)
  BY DEF CheckClient
<1>3. \A b \in Agent, e \in Device : at'[b][e] = IF b = a /\ e = d THEN place ELSE at[b][e]
  BY <1>2, MoveEffect DEF TapoInv
<1>4. UNCHANGED <<queue, owner, version, resolved, expected, targets, reading, noted, got,
                  recover, client, shadow, born, power, wrote, surprises, tickets, lastWrite,
                  drift>>
  BY DEF CheckClient, slots, reader, registry, world, ghost
<1>5. TypeOK'
  BY <1>2, <1>4 DEF TapoInv, TypeOK, Move, InSlot, tickets
<1>6. TicketsInv'
  BY <1>1, <1>2, <1>4, MoveTickets DEF TapoInv, Within, InSlot
<1>7. BeliefsInv'
  BY <1>1, <1>3, <1>4, SameBeliefs, NumbersAreNatural DEF TapoInv, registry, world
<1> QED  BY <1>5, <1>6, <1>7 DEF TapoInv

\* A recovery notes the client anew or leaves.
LEMMA PlanRecoveryInv ==
  ASSUME TapoInv, NEW w \in Watcher, NEW d \in Device, PlanRecovery(w, d)
  PROVE  TapoInv'
<1>1. w \in Agent /\ at[w][d] = "planning"
  BY DEF PlanRecovery, Agent
<1>2. PICK place \in {"leaving", "ready"} : Move(w, d, place)
  BY DEF PlanRecovery
<1>3. \A b \in Agent, e \in Device : at'[b][e] = IF b = w /\ e = d THEN place ELSE at[b][e]
  BY <1>1, <1>2, MoveEffect DEF TapoInv
<1>4. UNCHANGED <<queue, owner, version, resolved, targets, reading, noted, got,
                  recover, client, shadow, born, power, wrote, surprises, tickets, lastWrite,
                  drift>>
  BY DEF PlanRecovery, slots, reader, registry, world, ghost
<1>5. client[d] \in Nat /\ client[d] <= born[d] /\ born[d] \in Nat
  BY NumbersAreNatural DEF TapoInv, BeliefsInv, SyncInv
<1>6. /\ expected' \in [Agent -> [Device -> Nat]]
      /\ \A b \in Agent, e \in Device :
           \/ expected'[b][e] = expected[b][e]
           \/ b = w /\ e = d /\ expected'[b][e] \in 1 .. born[d]
  <2>1. expected \in [Agent -> [Device -> Nat]]
    BY DEF TapoInv, TypeOK
  <2>2. CASE expected' = expected
    BY <2>1, <2>2
  <2>3. CASE client[d] # 0 /\ expected' = [expected EXCEPT ![w][d] = client[d]]
    <3>1. expected' \in [Agent -> [Device -> Nat]]
      BY <2>1, <2>3, <1>5
    <3>2. \A b \in Agent, e \in Device :
            expected'[b][e] = IF b = w /\ e = d THEN client[d] ELSE expected[b][e]
      BY <2>1, <2>3
    <3> QED  BY <3>1, <3>2, <2>3, <1>5
  <2> QED  BY <2>2, <2>3 DEF PlanRecovery
<1>7. TypeOK'
  BY <1>2, <1>4, <1>6 DEF TapoInv, TypeOK, Move, InSlot, tickets
<1>8. TicketsInv'
  BY <1>1, <1>2, <1>4, <1>6, MoveTickets DEF TapoInv, Within, InSlot
<1>9. BeliefsInv'
  BY <1>1, <1>3, <1>4, <1>6, SameBeliefs, NumbersAreNatural DEF TapoInv, registry, world
<1> QED  BY <1>7, <1>8, <1>9 DEF TapoInv

\* Who is in the slot of a device has it for itself, and its queue is not empty.
LEMMA OneInSlot ==
  ASSUME TapoInv, NEW d \in Device, NEW a \in Agent, at[a][d] \in InSlot
  PROVE  /\ owner[d] = a /\ queue[d] # <<>> /\ ~Fresh(d)
         /\ \A b \in Agent : at[b][d] \in InSlot => b = a
<1>1. owner[d] = a /\ \A b \in Agent : at[b][d] \in InSlot => b = a
  BY AgentsAssumption DEF TapoInv, TicketsInv, SlotInv
<1>2. \E i \in DOMAIN queue[d] : queue[d][i] = a
  BY DEF TapoInv, TicketsInv, QueueInv, InSlot, Outside
<1> QED  BY <1>1, <1>2 DEF Fresh, Unchanged

\* A command changes its device only, and nothing that was read is fresh.
LEMMA SendCommandInv ==
  ASSUME TapoInv, NEW a \in Agent, NEW d \in Device, SendCommand(a, d)
  PROVE  TapoInv'
<1>1. at[a][d] = "ready" /\ at[a][d] \in InSlot
  BY DEF SendCommand, InSlot
<1>2. UNCHANGED <<queue, owner, version, resolved, targets, reading, noted, got, expected,
                  recover, client, shadow, born, surprises, tickets>>
  BY DEF SendCommand, slots, reader, registry
<1>3. PICK place \in {"leaving", "written"} : Move(a, d, place)
  BY DEF SendCommand
<1>4. \A b \in Agent, e \in Device : at'[b][e] = IF b = a /\ e = d THEN place ELSE at[b][e]
  BY <1>3, MoveEffect DEF TapoInv
<1>5. /\ lastWrite' \in [Device -> Nat]
      /\ \A e \in Device : lastWrite'[e] = IF e = d THEN stamp[a][d] ELSE lastWrite[e]
  BY NumbersAreNatural DEF SendCommand, TapoInv, TypeOK
<1>6. TicketsInv'
  BY <1>1, <1>2, <1>3, <1>5, MoveTickets DEF TapoInv, Within, InSlot
<1>7. power' \in [Device -> Nat] /\ wrote' \in [Device -> Nat] /\ drift' \in [Device -> BOOLEAN]
  <2>1. /\ power \in [Device -> Nat] /\ wrote \in [Device -> Nat]
        /\ drift \in [Device -> BOOLEAN]
    BY DEF TapoInv, TypeOK
  <2>2. power' = power \/ power' = [power EXCEPT ![d] = @ + 1]
    BY DEF SendCommand
  <2>3. wrote' = wrote \/ wrote' = [wrote EXCEPT ![d] = power[d] + 1]
    BY DEF SendCommand
  <2>4. drift' = drift \/ drift' = [drift EXCEPT ![d] = TRUE]
    BY DEF SendCommand
  <2>5. power[d] + 1 \in Nat
    BY NumbersAreNatural DEF TapoInv
  <2>6. power' \in [Device -> Nat]
    BY <2>1, <2>2, <2>5
  <2>7. wrote' \in [Device -> Nat]
    BY <2>1, <2>3, <2>5
  <2>8. drift' \in [Device -> BOOLEAN]
    BY <2>1, <2>4
  <2> QED  BY <2>6, <2>7, <2>8
<1>8. TypeOK'
  BY <1>2, <1>3, <1>5, <1>7 DEF TapoInv, TypeOK, Move, InSlot, tickets
<1>9. \A e \in Device : e # d =>
        power'[e] = power[e] /\ wrote'[e] = wrote[e] /\ drift'[e] = drift[e]
  BY DEF SendCommand, TapoInv, TypeOK
<1>10. \/ place = "leaving" /\ power'[d] = power[d] /\ wrote'[d] = wrote[d] /\ drift'[d] = drift[d]
       \/ place = "leaving" /\ power'[d] = power[d] + 1 /\ wrote'[d] = wrote[d] /\ drift'[d]
       \/ place = "written" /\ power'[d] = power[d] + 1 /\ wrote'[d] = power[d] + 1
  <2>1. at'[a][d] = place
    BY <1>4
  <2>2. Move(a, d, "leaving") => place = "leaving"
    BY <2>1, MoveEffect DEF TapoInv
  <2>3. Move(a, d, "written") => place = "written"
    BY <2>1, MoveEffect DEF TapoInv
  <2> QED  BY <2>2, <2>3 DEF SendCommand, TapoInv, TypeOK
<1>11. ReaderInv'
  BY <1>2 DEF TapoInv, BeliefsInv, ReaderInv, Observed
<1>12. SyncInv'
  <2> SUFFICES ASSUME NEW e \in Device
      PROVE  /\ client[e] <= born[e]
             /\ shadow[e] <= power'[e] /\ got[e] <= power'[e] /\ wrote'[e] <= power'[e]
             /\ Fresh(e)' => got[e] >= shadow[e] /\ (got[e] = power'[e] \/ drift'[e])
             /\ \A b \in Agent : at'[b][e] = "written" /\ client[e] = expected[b][e] =>
                  shadow[e] <= wrote'[e] /\ (wrote'[e] = power'[e] \/ drift'[e])
             /\ client[e] # 0 /\ ~drift'[e] =>
                  shadow[e] = power'[e] \/ \E b \in Agent : at'[b][e] = "written"
    BY <1>2 DEF SyncInv
  <2>1. Fresh(e)' => Fresh(e)
    BY <1>2 DEF Fresh, Observed, Unchanged
  <2>2. CASE e # d
    BY <2>1, <2>2, <1>4, <1>9 DEF TapoInv, BeliefsInv, SyncInv
  <2>3. CASE e = d
    <3>1. /\ client[d] <= born[d] /\ shadow[d] <= power[d] /\ got[d] <= power[d]
          /\ wrote[d] <= power[d] /\ power[d] \in Nat /\ shadow[d] \in Nat /\ got[d] \in Nat
          /\ wrote[d] \in Nat
      BY NumbersAreNatural DEF TapoInv, BeliefsInv, SyncInv
    <3>2. ~Fresh(d)
      BY <1>1, OneInSlot
    <3>3. \A b \in Agent : at[b][d] # "written"
      BY <1>1, OneInSlot DEF InSlot
    <3>4. client[d] # 0 /\ ~drift[d] => shadow[d] = power[d]
      BY <3>3 DEF TapoInv, BeliefsInv, SyncInv
    <3>5. \A b \in Agent : at'[b][d] = "written" <=> b = a /\ place = "written"
      BY <3>3, <1>4
    <3> QED  BY <2>1, <2>3, <3>1, <3>2, <3>4, <3>5, <1>10
  <2> QED  BY <2>2, <2>3
<1> QED  BY <1>6, <1>8, <1>11, <1>12 DEF TapoInv, BeliefsInv

\* The result of a command reaches the client it was sent for.
LEMMA ReconcileInv ==
  ASSUME TapoInv, NEW a \in Agent, NEW d \in Device, Reconcile(a, d)
  PROVE  TapoInv'
<1>1. at[a][d] = "written" /\ at[a][d] \in InSlot
  BY DEF Reconcile, InSlot
<1>2. UNCHANGED <<queue, owner, version, resolved, targets, reading, noted, got, expected,
                  recover, client, born, power, surprises, tickets, lastWrite>>
  BY DEF Reconcile, slots, reader
<1>3. Move(a, d, "leaving")
  BY DEF Reconcile
<1>4. \A b \in Agent, e \in Device : at'[b][e] = IF b = a /\ e = d THEN "leaving" ELSE at[b][e]
  BY <1>3, MoveEffect DEF TapoInv
<1>5. TicketsInv'
  BY <1>1, <1>2, <1>3, MoveTickets DEF TapoInv, Within, InSlot
<1>6. shadow' \in [Device -> Nat] /\ wrote' \in [Device -> Nat] /\ drift' \in [Device -> BOOLEAN]
  BY NumbersAreNatural DEF Reconcile, TapoInv, TypeOK
<1>7. TypeOK'
  BY <1>2, <1>3, <1>6 DEF TapoInv, TypeOK, Move, InSlot, tickets
<1>8. \A e \in Device : e # d =>
        shadow'[e] = shadow[e] /\ wrote'[e] = wrote[e] /\ drift'[e] = drift[e]
  BY DEF Reconcile, TapoInv, TypeOK
<1>9. /\ wrote'[d] = 0
      /\ IF client[d] = expected[a][d] THEN shadow'[d] = wrote[d] /\ drift'[d] = drift[d]
         ELSE shadow'[d] = shadow[d] /\ drift'[d]
  BY DEF Reconcile, TapoInv, TypeOK
<1>10. ReaderInv'
  BY <1>2 DEF TapoInv, BeliefsInv, ReaderInv, Observed
<1>11. SyncInv'
  <2> SUFFICES ASSUME NEW e \in Device
      PROVE  /\ client[e] <= born[e]
             /\ shadow'[e] <= power[e] /\ got[e] <= power[e] /\ wrote'[e] <= power[e]
             /\ Fresh(e)' => got[e] >= shadow'[e] /\ (got[e] = power[e] \/ drift'[e])
             /\ \A b \in Agent : at'[b][e] = "written" /\ client[e] = expected[b][e] =>
                  shadow'[e] <= wrote'[e] /\ (wrote'[e] = power[e] \/ drift'[e])
             /\ client[e] # 0 /\ ~drift'[e] =>
                  shadow'[e] = power[e] \/ \E b \in Agent : at'[b][e] = "written"
    BY <1>2 DEF SyncInv
  <2>1. Fresh(e)' => Fresh(e)
    BY <1>2 DEF Fresh, Observed, Unchanged
  <2>2. CASE e # d
    BY <2>1, <2>2, <1>4, <1>8 DEF TapoInv, BeliefsInv, SyncInv
  <2>3. CASE e = d
    <3>1. /\ client[d] <= born[d] /\ shadow[d] <= power[d] /\ got[d] <= power[d]
          /\ wrote[d] <= power[d] /\ power[d] \in Nat
      BY NumbersAreNatural DEF TapoInv, BeliefsInv, SyncInv
    <3>2. ~Fresh(d)
      BY <1>1, OneInSlot
    <3>3. \A b \in Agent : at'[b][d] # "written"
      BY <1>1, <1>4, OneInSlot DEF InSlot
    <3>4. client[d] = expected[a][d] => wrote[d] = power[d] \/ drift[d]
      BY <1>1 DEF TapoInv, BeliefsInv, SyncInv
    <3> QED  BY <2>1, <2>3, <3>1, <3>2, <3>3, <3>4, <1>9
  <2> QED  BY <2>2, <2>3
<1> QED  BY <1>5, <1>7, <1>10, <1>11 DEF TapoInv, BeliefsInv

\* A client that is taken out of the registry, whoever holds its device.
LEMMA UnregisterBeliefs ==
  ASSUME TapoInv, NEW d \in Device, Unregister(d), client[d] # 0,
         UNCHANGED <<queue, version, expected, reader, world, drift>>,
         \A b \in Agent, e \in Device :
           /\ at'[b][e] = "written" => at[b][e] = "written"
           /\ at[b][e] = "written" => at'[b][e] = "written"
  PROVE  /\ BeliefsInv' /\ born' = born
         /\ client' \in [Device -> Nat] /\ shadow' \in [Device -> Nat]
<1>1. UNCHANGED <<reading, noted, got, recover, power, wrote, born>>
  BY DEF reader, world, Unregister
<1>2. client' \in [Device -> Nat] /\ shadow' \in [Device -> Nat]
  BY DEF Unregister, TapoInv, TypeOK
<1>3. \A e \in Device :
        /\ client'[e] = IF e = d THEN 0 ELSE client[e]
        /\ shadow'[e] = IF e = d THEN 0 ELSE shadow[e]
  BY DEF Unregister, TapoInv, TypeOK
<1>4. ReaderInv'
  BY <1>1 DEF TapoInv, BeliefsInv, ReaderInv, Observed
<1>5. \A a \in Agent, e \in Device : at[a][e] = "written" => expected[a][e] # 0
  BY DEF TapoInv, TicketsInv, PlaceInv
<1>6. SyncInv'
  <2> SUFFICES ASSUME NEW e \in Device
      PROVE  /\ client'[e] <= born[e]
             /\ shadow'[e] <= power[e] /\ got[e] <= power[e] /\ wrote[e] <= power[e]
             /\ Fresh(e)' => got[e] >= shadow'[e] /\ (got[e] = power[e] \/ drift[e])
             /\ \A b \in Agent : at'[b][e] = "written" /\ client'[e] = expected[b][e] =>
                  shadow'[e] <= wrote[e] /\ (wrote[e] = power[e] \/ drift[e])
             /\ client'[e] # 0 /\ ~drift[e] =>
                  shadow'[e] = power[e] \/ \E b \in Agent : at'[b][e] = "written"
    BY <1>1 DEF SyncInv
  <2>1. CASE e # d
    <3>1. Fresh(e)' => Fresh(e)
      BY <1>1, <1>3, <2>1 DEF Fresh, Observed, Unchanged
    <3> QED  BY <2>1, <3>1, <1>3 DEF TapoInv, BeliefsInv, SyncInv
  <2>2. CASE e = d
    <3>1. Observed(d) => noted[d].client # 0
      BY NumbersAreNatural DEF TapoInv, BeliefsInv, ReaderInv
    <3>2. ~Fresh(d)'
      BY <1>1, <1>3, <3>1 DEF Fresh, Observed
    <3>3. /\ born[d] \in Nat /\ power[d] \in Nat /\ got[d] <= power[d] /\ wrote[d] <= power[d]
      BY NumbersAreNatural DEF TapoInv, BeliefsInv, SyncInv
    <3> QED  BY <2>2, <3>2, <3>3, <1>3, <1>5
  <2> QED  BY <2>1, <2>2
<1> QED  BY <1>1, <1>2, <1>4, <1>6 DEF BeliefsInv

\* A client is removed by the holder of its device.
LEMMA RemoveInSlotInv ==
  ASSUME TapoInv, NEW c \in Command, NEW d \in Device, RemoveInSlot(c, d)
  PROVE  TapoInv'
<1> USE DEF RemoveInSlot
<1>1. c \in Agent /\ at[c][d] = "ready"
  BY DEF Agent
<1>2. \A b \in Agent, e \in Device : at'[b][e] = IF b = c /\ e = d THEN "leaving" ELSE at[b][e]
  BY <1>1, MoveEffect DEF TapoInv
<1>3. UNCHANGED <<queue, owner, version, resolved, expected, targets, reading, noted, got,
                  recover, power, wrote, surprises, tickets, lastWrite, drift, born>>
  BY DEF slots, reader, world, ghost, Unregister
<1>4. client[d] # 0
  BY <1>1 DEF TapoInv, TicketsInv, PlaceInv
<1>5. BeliefsInv' /\ client' \in [Device -> Nat] /\ shadow' \in [Device -> Nat]
  BY <1>1, <1>2, <1>3, <1>4, UnregisterBeliefs
<1>6. TypeOK'
  BY <1>1, <1>3, <1>5 DEF TapoInv, TypeOK, Move, InSlot, tickets
<1>7. TicketsInv'
  BY <1>1, <1>3, MoveTickets DEF TapoInv, Within, InSlot
<1> QED  BY <1>5, <1>6, <1>7 DEF TapoInv

\* A client is removed without its slot.
LEMMA RemoveClientInv ==
  ASSUME TapoInv, NEW d \in Device, RemoveClient(d)
  PROVE  TapoInv'
<1> USE DEF RemoveClient
<1>1. UNCHANGED <<queue, owner, version, resolved, at, expected, targets, reading, noted, got,
                  recover, power, wrote, surprises, tickets, lastWrite, drift, born>>
  BY DEF slots, reader, world, ghost, Unregister
<1>2. BeliefsInv' /\ client' \in [Device -> Nat] /\ shadow' \in [Device -> Nat]
  BY <1>1, UnregisterBeliefs
<1>3. TypeOK'
  BY <1>1, <1>2 DEF TapoInv, TypeOK, tickets
<1>4. SceneInv'
  BY <1>1 DEF TapoInv, TicketsInv, SceneInv, HasTicket, tickets
<1>5. TicketsInv'
  BY <1>1, <1>4, SameTickets, NumbersAreNatural DEF TapoInv
<1> QED  BY <1>2, <1>3, <1>5 DEF TapoInv

\* A change behind the back of the server is a reason to differ.
LEMMA ExternalChangeInv ==
  ASSUME TapoInv, NEW d \in Device, ExternalChange(d)
  PROVE  TapoInv'
<1> USE DEF ExternalChange
<1>1. UNCHANGED <<queue, owner, version, resolved, at, expected, targets, reading, noted, got,
                  recover, client, shadow, born, wrote, tickets, lastWrite>>
  BY DEF slots, reader, registry
<1>2. power' \in [Device -> Nat] /\ surprises' \in [Device -> Nat] /\ drift' \in [Device -> BOOLEAN]
  <2>1. power \in [Device -> Nat] /\ surprises \in [Device -> Nat] /\ drift \in [Device -> BOOLEAN]
    BY DEF TapoInv, TypeOK
  <2> QED  BY <2>1
<1>3. \A e \in Device :
        /\ power'[e] = IF e = d THEN power[d] + 1 ELSE power[e]
        /\ drift'[e] = IF e = d THEN TRUE ELSE drift[e]
  BY DEF TapoInv, TypeOK
<1>4. TypeOK'
  BY <1>1, <1>2 DEF TapoInv, TypeOK, tickets
<1>5. SceneInv'
  BY <1>1 DEF TapoInv, TicketsInv, SceneInv, HasTicket, tickets
<1>6. TicketsInv'
  BY <1>1, <1>5, SameTickets, NumbersAreNatural DEF TapoInv
<1>7. ReaderInv'
  BY <1>1 DEF TapoInv, BeliefsInv, ReaderInv, Observed
<1>8. \A e \in Device : Fresh(e)' => Fresh(e)
  BY <1>1 DEF Fresh, Observed, Unchanged
<1>9. SyncInv'
  <2> SUFFICES ASSUME NEW e \in Device
      PROVE  /\ client[e] <= born[e]
             /\ shadow[e] <= power'[e] /\ got[e] <= power'[e] /\ wrote[e] <= power'[e]
             /\ Fresh(e)' => got[e] >= shadow[e] /\ (got[e] = power'[e] \/ drift'[e])
             /\ \A b \in Agent : at[b][e] = "written" /\ client[e] = expected[b][e] =>
                  shadow[e] <= wrote[e] /\ (wrote[e] = power'[e] \/ drift'[e])
             /\ client[e] # 0 /\ ~drift'[e] =>
                  shadow[e] = power'[e] \/ \E b \in Agent : at[b][e] = "written"
    BY <1>1 DEF SyncInv
  <2>1. CASE e # d
    BY <2>1, <1>3, <1>8 DEF TapoInv, BeliefsInv, SyncInv
  <2>2. CASE e = d
    <3>1. /\ power[d] \in Nat /\ shadow[d] \in Nat /\ got[d] \in Nat /\ wrote[d] \in Nat
          /\ shadow[d] <= power[d] /\ got[d] <= power[d] /\ wrote[d] <= power[d]
      BY NumbersAreNatural DEF TapoInv, BeliefsInv, SyncInv
    <3>2. power'[d] = power[d] + 1
      BY <1>3
    <3>3. drift'[d]
      BY <1>3
    <3>4. shadow[d] <= power'[d] /\ got[d] <= power'[d] /\ wrote[d] <= power'[d]
      BY <3>1, <3>2
    <3> QED  BY <2>2, <3>3, <3>4, <1>8 DEF TapoInv, BeliefsInv, SyncInv
  <2> QED  BY <2>1, <2>2
<1> QED  BY <1>4, <1>6, <1>7, <1>9 DEF TapoInv, BeliefsInv

-----------------------------------------------------------------------------
(* The steps of the watcher.                                               *)

\* What observe notes is what there is.
LEMMA BeginReadInv ==
  ASSUME TapoInv, NEW mode \in {"refresh", "detect"}, BeginRead(mode)
  PROVE  TapoInv'
<1> USE DEF BeginRead
<1>1. UNCHANGED <<queue, owner, version, resolved, at, expected, targets, got, recover, client,
                  shadow, born, power, wrote, surprises, tickets, lastWrite, drift>>
  BY DEF slots, registry, world, ghost
<1>2. got = Zero /\ recover = {}
  BY DEF TapoInv, BeliefsInv, ReaderInv
<1>3. \A d \in Device :
        /\ noted'[d] = IF client[d] = 0 THEN Nothing
                       ELSE [client |-> client[d], version |-> version[d], busy |-> queue[d] # <<>>]
        /\ client[d] \in Nat /\ version[d] \in Nat /\ client[d] <= born[d] /\ born[d] \in Nat
  BY NumbersAreNatural DEF TapoInv, BeliefsInv, SyncInv
<1>4. TypeOK'
  <2>1. noted' \in [Device -> Note]
    BY <1>3 DEF Note, Nothing
  <2> QED  BY <1>1, <2>1 DEF TapoInv, TypeOK, tickets
<1>5. SceneInv'
  BY <1>1 DEF TapoInv, TicketsInv, SceneInv, HasTicket, tickets
<1>6. TicketsInv'
  BY <1>1, <1>5, SameTickets, NumbersAreNatural DEF TapoInv
<1>7. ReaderInv'
  <2> SUFFICES ASSUME NEW d \in Device, Observed(d)'
      PROVE  /\ noted'[d].client \in 1 .. born[d] /\ noted'[d].version <= version[d]
             /\ ~noted'[d].busy /\ version[d] = noted'[d].version => queue[d] = <<>>
    BY <1>1, <1>2 DEF ReaderInv
  <2>1. client[d] # 0
    BY <1>3 DEF Observed
  <2>2. noted'[d] = [client |-> client[d], version |-> version[d], busy |-> queue[d] # <<>>]
    BY <2>1, <1>3
  <2>3. /\ noted'[d].client = client[d] /\ noted'[d].version = version[d]
        /\ noted'[d].busy = (queue[d] # <<>>)
    BY <2>2
  <2>4. client[d] \in 1 .. born[d] /\ version[d] <= version[d]
    BY <2>1, <1>3
  <2> QED  BY <2>3, <2>4
<1>8. \A d \in Device : ~Fresh(d)'
  BY <1>1, <1>2 DEF Fresh, Zero
<1>9. SyncInv'
  BY <1>1, <1>8 DEF TapoInv, BeliefsInv, SyncInv
<1> QED  BY <1>4, <1>6, <1>7, <1>9 DEF TapoInv, BeliefsInv

\* A reading is the state of the device at the moment it is read.
LEMMA ReadDeviceInv ==
  ASSUME TapoInv, NEW d \in Device, ReadDevice(d)
  PROVE  TapoInv'
<1> USE DEF ReadDevice
<1>1. UNCHANGED <<queue, owner, version, resolved, at, expected, targets, reading, noted, recover,
                  client, shadow, born, power, wrote, surprises, tickets, lastWrite, drift>>
  BY DEF slots, registry, world, ghost
<1>2. TypeOK'
  <2>1. got' \in [Device -> Nat]
    BY NumbersAreNatural DEF TapoInv, TypeOK
  <2> QED  BY <1>1, <2>1 DEF TapoInv, TypeOK, tickets
<1>3. \A e \in Device : got'[e] = IF e = d THEN power[d] ELSE got[e]
  BY DEF TapoInv, TypeOK
<1>4. SceneInv'
  BY <1>1 DEF TapoInv, TicketsInv, SceneInv, HasTicket, tickets
<1>5. TicketsInv'
  BY <1>1, <1>4, SameTickets, NumbersAreNatural DEF TapoInv
<1>6. ReaderInv'
  BY <1>1 DEF TapoInv, BeliefsInv, ReaderInv, Observed
<1>7. \A e \in Device : e # d /\ Fresh(e)' => Fresh(e)
  BY <1>1, <1>3 DEF Fresh, Observed, Unchanged
<1>8. SyncInv'
  <2> SUFFICES ASSUME NEW e \in Device
      PROVE  /\ got'[e] <= power[e]
             /\ Fresh(e)' => got'[e] >= shadow[e] /\ (got'[e] = power[e] \/ drift[e])
    BY <1>1 DEF TapoInv, BeliefsInv, SyncInv
  <2>1. shadow[d] <= power[d] /\ power[d] \in Nat /\ shadow[d] \in Nat
    BY NumbersAreNatural DEF TapoInv, BeliefsInv, SyncInv
  <2>2. CASE e = d
    BY <2>1, <2>2, <1>3
  <2>3. CASE e # d
    BY <2>3, <1>3, <1>7 DEF TapoInv, BeliefsInv, SyncInv
  <2> QED  BY <2>2, <2>3
<1> QED  BY <1>2, <1>5, <1>6, <1>8 DEF TapoInv, BeliefsInv

\* Fresh readings go into their clients, and new devices are registered.
LEMMA ApplyReadingsInv ==
  ASSUME TapoInv, ApplyReadings
  PROVE  TapoInv'
<1> DEFINE fresh == {d \in Device : Fresh(d)}
           found == {d \in Device : Discovered(d)}
<1>1. /\ shadow' = [d \in Device |-> IF d \in fresh \cup found THEN got[d] ELSE shadow[d]]
      /\ client' = [d \in Device |-> IF d \in found THEN born[d] + 1 ELSE client[d]]
      /\ born' = [d \in Device |-> IF d \in found THEN born[d] + 1 ELSE born[d]]
      /\ drift' = [d \in Device |-> IF d \in fresh THEN drift[d] /\ got[d] # power[d]
                                    ELSE IF d \in found THEN got[d] # power[d] ELSE drift[d]]
      /\ recover' \in SUBSET fresh
      /\ reading' = "recover" /\ got' = Zero
  BY DEF ApplyReadings
<1>2. UNCHANGED <<queue, owner, version, resolved, at, expected, targets, noted, power, wrote,
                  surprises, tickets, lastWrite>>
  BY DEF ApplyReadings, slots, world
<1>3. TypeOK'
  <2>1. \A d \in Device : got[d] \in Nat /\ shadow[d] \in Nat /\ client[d] \in Nat
                          /\ born[d] \in Nat /\ drift[d] \in BOOLEAN
    BY NumbersAreNatural DEF TapoInv
  <2>2. /\ shadow' \in [Device -> Nat] /\ client' \in [Device -> Nat] /\ born' \in [Device -> Nat]
        /\ got' \in [Device -> Nat] /\ recover' \in SUBSET Device
    BY <2>1, <1>1 DEF Zero
  <2>3. drift' \in [Device -> BOOLEAN]
    BY <2>1, <1>1
  <2> QED  BY <2>2, <2>3, <1>1, <1>2 DEF TapoInv, TypeOK, tickets
<1>4. ASSUME NEW d \in Device
      PROVE  /\ Fresh(d) => /\ shadow'[d] = got[d] /\ client'[d] = client[d] /\ born'[d] = born[d]
                            /\ (~drift'[d] => ~drift[d] \/ got[d] = power[d])
             /\ Discovered(d) => /\ shadow'[d] = got[d] /\ client'[d] = born[d] + 1
                                 /\ born'[d] = born[d] + 1 /\ (~drift'[d] => got[d] = power[d])
             /\ ~Fresh(d) /\ ~Discovered(d) =>
                  /\ shadow'[d] = shadow[d] /\ client'[d] = client[d] /\ born'[d] = born[d]
                  /\ drift'[d] = drift[d]
             /\ ~(Fresh(d) /\ Discovered(d))
  <2>1. ~(Fresh(d) /\ Discovered(d))
    BY DEF Fresh, Discovered
  <2>2. (d \in fresh <=> Fresh(d)) /\ (d \in found <=> Discovered(d))
    OBVIOUS
  <2> HIDE DEF fresh, found
  <2> QED  BY <2>1, <2>2, <1>1
<1>5. \A d \in Device : born'[d] \in Nat /\ born[d] <= born'[d]
  BY <1>4, NumbersAreNatural DEF TapoInv
<1>6. TicketsInv'
  <2>1. SceneInv'
    BY <1>2 DEF TapoInv, TicketsInv, SceneInv, HasTicket, tickets
  <2> QED  BY <2>1, <1>2, <1>5, SameTickets DEF TapoInv
<1>7. ReaderInv'
  <2>1. \A d \in Device : Observed(d)' <=> Observed(d)
    BY <1>2 DEF Observed
  <2>2. \A d \in recover' : Observed(d)'
    BY <2>1, <1>1 DEF Fresh
  <2>3. ASSUME NEW d \in Device, Observed(d)
        PROVE  /\ noted[d].client \in 1 .. born'[d] /\ noted[d].version <= version[d]
               /\ ~noted[d].busy /\ version[d] = noted[d].version => queue[d] = <<>>
    <3>1. /\ noted[d].client \in 1 .. born[d] /\ noted[d].version <= version[d]
          /\ ~noted[d].busy /\ version[d] = noted[d].version => queue[d] = <<>>
      BY <2>3 DEF TapoInv, BeliefsInv, ReaderInv
    <3>2. born[d] \in Nat /\ born'[d] \in Nat /\ born[d] <= born'[d]
      BY <1>5, NumbersAreNatural DEF TapoInv
    <3> QED  BY <3>1, <3>2
  <2> QED  BY <2>1, <2>2, <2>3, <1>1, <1>2 DEF ReaderInv
<1>8. SyncInv'
  <2> SUFFICES ASSUME NEW d \in Device
      PROVE  /\ client'[d] <= born'[d]
             /\ shadow'[d] <= power[d] /\ got'[d] <= power[d] /\ wrote[d] <= power[d]
             /\ Fresh(d)' => got'[d] >= shadow'[d] /\ (got'[d] = power[d] \/ drift'[d])
             /\ \A a \in Agent : at[a][d] = "written" /\ client'[d] = expected[a][d] =>
                  shadow'[d] <= wrote[d] /\ (wrote[d] = power[d] \/ drift'[d])
             /\ client'[d] # 0 /\ ~drift'[d] =>
                  shadow'[d] = power[d] \/ \E a \in Agent : at[a][d] = "written"
    BY <1>2 DEF SyncInv
  <2>1. got'[d] = 0 /\ ~Fresh(d)'
    BY <1>1 DEF Fresh, Zero
  <2>2. /\ client[d] <= born[d] /\ shadow[d] <= power[d] /\ got[d] <= power[d]
        /\ wrote[d] <= power[d] /\ power[d] \in Nat /\ born[d] \in Nat /\ got[d] \in Nat
        /\ Fresh(d) => got[d] = power[d] \/ drift[d]
    BY NumbersAreNatural DEF TapoInv, BeliefsInv, SyncInv
  <2>3. CASE Fresh(d)
    <3>1. \A a \in Agent : at[a][d] # "written"
      BY <2>3, OneInSlot DEF InSlot
    <3>2. shadow'[d] = got[d] /\ client'[d] = client[d] /\ born'[d] = born[d]
          /\ (~drift'[d] => ~drift[d] \/ got[d] = power[d])
      BY <2>3, <1>4
    <3> QED  BY <2>1, <2>2, <2>3, <3>1, <3>2
  <2>4. CASE Discovered(d)
    <3>1. /\ shadow'[d] = got[d] /\ client'[d] = born[d] + 1 /\ born'[d] = born[d] + 1
          /\ (~drift'[d] => got[d] = power[d])
      BY <2>4, <1>4
    <3>2. \A a \in Agent : client'[d] # expected[a][d]
      BY <3>1, NumbersAreNatural DEF TapoInv, TicketsInv, PlaceInv
    <3> QED  BY <2>1, <2>2, <3>1, <3>2
  <2>5. CASE ~Fresh(d) /\ ~Discovered(d)
    <3>1. shadow'[d] = shadow[d] /\ client'[d] = client[d] /\ born'[d] = born[d] /\ drift'[d] = drift[d]
      BY <2>5, <1>4
    <3> QED  BY <2>1, <2>2, <3>1 DEF TapoInv, BeliefsInv, SyncInv
  <2> QED  BY <2>3, <2>4, <2>5
<1> QED  BY <1>3, <1>6, <1>7, <1>8 DEF TapoInv, BeliefsInv

\* A recovery takes a ticket of an empty queue.
LEMMA TryHoldInv ==
  ASSUME TapoInv, NEW w \in Watcher, NEW d \in Device, TryHold(w, d)
  PROVE  TapoInv'
<1>1. w \in Agent /\ w \notin Scene
  BY AgentsAssumption DEF Agent
<1>2. at[w][d] = "idle" /\ ~HasTicket(w, d) /\ d \in recover /\ recover' = recover \ {d}
  BY DEF TryHold, HasTicket, Outside
<1>3. UNCHANGED <<targets, reading, noted, got, client, shadow, born, power, wrote, surprises,
                  lastWrite, drift, owner, resolved>>
  BY DEF TryHold, Reserve, registry, world, ghost, slots
<1>4. noted[d].client \in 1 .. born[d] /\ born[d] \in Nat /\ Observed(d)
  BY <1>2, NumbersAreNatural DEF TapoInv, BeliefsInv, ReaderInv
<1>5. CASE /\ queue[d] = <<>> /\ Reserve(w, d) /\ Move(w, d, "waiting")
           /\ expected' = [expected EXCEPT ![w][d] = noted[d].client]
  <2>1. /\ \A b \in Agent, e \in Device :
             at'[b][e] = IF b = w /\ e = d THEN "waiting" ELSE at[b][e]
        /\ \A b \in Agent, e \in Device :
             expected'[b][e] = IF b = w /\ e = d THEN noted[d].client ELSE expected[b][e]
    <3>1. \A b \in Agent, e \in Device : at'[b][e] = IF b = w /\ e = d THEN "waiting" ELSE at[b][e]
      BY <1>1, <1>5, MoveEffect DEF TapoInv
    <3>2. \A b \in Agent, e \in Device :
            expected'[b][e] = IF b = w /\ e = d THEN noted[d].client ELSE expected[b][e]
      BY <1>1, <1>5 DEF TapoInv, TypeOK
    <3> QED  BY <3>1, <3>2
  <2>2. TypeOK'
    <3>1. expected' \in [Agent -> [Device -> Nat]] /\ recover' \in SUBSET Device
      BY <1>1, <1>2, <1>4, <1>5 DEF TapoInv, TypeOK
    <3> QED  BY <1>1, <1>3, <1>5, <3>1, ReserveTypes DEF TapoInv, TypeOK
  <2>3. QueueInv' /\ SlotInv' /\ NoLostWakeup' /\ BackgroundNeverWaits'
    BY <1>1, <1>2, <1>3, <1>5, ReserveTickets DEF TapoInv
  <2>4. PlaceInv'
    BY <1>1, <1>3, <1>4, <2>1, NumbersAreNatural DEF TapoInv, TicketsInv, PlaceInv
  <2>5. \A b \in Agent, e \in Device : b # w => stamp'[b][e] = stamp[b][e]
    BY <1>5 DEF Reserve, TapoInv, TypeOK
  <2>6. SceneInv'
    BY <1>1, <1>3, <2>1, <2>5, ScenesKept DEF TapoInv, TicketsInv, HasTicket, Agent
  <2>7. BeliefsInv'
    BY <1>1, <1>2, <1>3, <1>5, <2>1, SameBeliefs, ReserveVersion DEF TapoInv, registry, world
  <2> QED  BY <2>2, <2>3, <2>4, <2>6, <2>7 DEF TapoInv, TicketsInv
<1>6. CASE UNCHANGED <<slots, tickets, at, expected>>
  <2>1. UNCHANGED <<queue, owner, version, resolved, at, expected, tickets>>
    BY <1>6 DEF slots
  <2>2. TypeOK'
    BY <1>2, <1>3, <2>1 DEF TapoInv, TypeOK, tickets
  <2>3. SceneInv'
    BY <1>3, <2>1 DEF TapoInv, TicketsInv, SceneInv, HasTicket, tickets
  <2>4. TicketsInv'
    BY <1>3, <2>1, <2>3, SameTickets, NumbersAreNatural DEF TapoInv
  <2>5. BeliefsInv'
    BY <1>2, <1>3, <2>1, SameBeliefs, NumbersAreNatural DEF TapoInv, registry, world
  <2> QED  BY <2>2, <2>4, <2>5 DEF TapoInv
<1> QED  BY <1>5, <1>6 DEF TryHold

\* The observations end.
LEMMA EndReadInv ==
  ASSUME TapoInv, NEW w \in Watcher, EndRead(w)
  PROVE  TapoInv'
<1> USE DEF EndRead
<1>1. UNCHANGED <<queue, owner, resolved, at, expected, targets, got, recover, client, shadow,
                  born, power, wrote, surprises, tickets, lastWrite, drift>>
  BY DEF registry, world, ghost
<1>2. got = Zero /\ recover = {} /\ reading' = "idle"
  BY DEF TapoInv, BeliefsInv, ReaderInv
<1>3. \A d \in Device : ~Observed(d)' /\ ~Fresh(d)'
  BY <1>2 DEF Observed, Fresh
<1>4. TypeOK'
  <2>1. noted' \in [Device -> Note] /\ version' \in [Device -> Nat]
    BY DEF TapoInv, TypeOK, Note, Nothing
  <2> QED  BY <1>1, <1>2, <2>1 DEF TapoInv, TypeOK, tickets
<1>5. SceneInv'
  BY <1>1 DEF TapoInv, TicketsInv, SceneInv, HasTicket, tickets
<1>6. TicketsInv'
  BY <1>1, <1>5, SameTickets, NumbersAreNatural DEF TapoInv
<1>7. ReaderInv'
  BY <1>1, <1>2, <1>3 DEF ReaderInv
<1>8. SyncInv'
  BY <1>1, <1>3 DEF TapoInv, BeliefsInv, SyncInv
<1> QED  BY <1>4, <1>6, <1>7, <1>8 DEF TapoInv, BeliefsInv

-----------------------------------------------------------------------------
(* The theorems.                                                           *)

\* The steps of whoever holds a device.
LEMMA HoldStepInv ==
  ASSUME TapoInv, NEW a \in Agent, NEW d \in Device, HoldStep(a, d)
  PROVE  TapoInv'
BY CheckClientInv, SendCommandInv, ReconcileInv, TimeOutInv DEF HoldStep

\* Every step keeps the invariant.
LEMMA NextInv == TapoInv /\ [Next]_vars => TapoInv'
<1> SUFFICES ASSUME TapoInv, [Next]_vars PROVE TapoInv'
  OBVIOUS
<1>1. Command \subseteq Agent /\ Scene \subseteq Agent /\ Watcher \subseteq Agent
  BY DEF Agent
<1>2. ASSUME NEW c \in Command, NEW d \in Device, Request(c, d) \/ CommandStep(c, d) \/ RemoveInSlot(c, d)
      PROVE  TapoInv'
  BY <1>1, <1>2, RequestInv, HoldInv, EnterThreadInv, HoldStepInv, RemoveInSlotInv DEF CommandStep
<1>3. ASSUME NEW s \in Scene, NEW D \in SUBSET Device, AdmitScene(s, D)
      PROVE  TapoInv'
  BY <1>3, AdmitSceneInv
<1>4. ASSUME NEW s \in Scene, NEW d \in Device, SceneStep(s, d)
      PROVE  TapoInv'
  BY <1>1, <1>4, ReserveTargetInv, EnterSceneInv, ResumeSceneInv, HoldStepInv DEF SceneStep
<1>5. ASSUME NEW mode \in {"refresh", "detect"}, BeginRead(mode)
      PROVE  TapoInv'
  BY <1>5, BeginReadInv
<1>6. ASSUME NEW d \in Device, ReadDevice(d) \/ RemoveClient(d) \/ ExternalChange(d)
      PROVE  TapoInv'
  BY <1>6, ReadDeviceInv, RemoveClientInv, ExternalChangeInv
<1>7. ASSUME NEW w \in Watcher, NEW d \in Device, WatcherStep(w, d)
      PROVE  TapoInv'
  BY <1>1, <1>7, TryHoldInv, EnterThreadInv, PlanRecoveryInv, HoldStepInv DEF WatcherStep
<1>8. ASSUME NEW w \in Watcher, EndRead(w)
      PROVE  TapoInv'
  BY <1>8, EndReadInv
<1>9. ASSUME NEW a \in Agent, NEW d \in Device, TimeOut(a, d)
      PROVE  TapoInv'
  BY <1>9, TimeOutInv
<1>10. CASE UNCHANGED vars
  <2>1. UNCHANGED <<queue, owner, version, resolved, at, expected, targets, reading, noted, got,
                    recover, client, shadow, born, power, wrote, surprises, issued, stamp,
                    lastWrite, drift>>
    BY <1>10 DEF vars, slots, reader, registry, world, tickets, ghost
  <2>2. TypeOK'
    BY <2>1 DEF TapoInv, TypeOK
  <2>3. SceneInv'
    BY <2>1 DEF TapoInv, TicketsInv, SceneInv, HasTicket
  <2>4. TicketsInv'
    BY <2>1, <2>3, SameTickets, NumbersAreNatural DEF TapoInv, tickets
  <2>5. BeliefsInv'
    BY <2>1, SameBeliefs, NumbersAreNatural DEF TapoInv, registry, world
  <2> QED  BY <2>2, <2>4, <2>5 DEF TapoInv
<1> QED  BY <1>2, <1>3, <1>4, <1>5, <1>6, <1>7, <1>8, <1>9, <1>10, ApplyReadingsInv DEF Next

\* The state of the command queue and of what is believed of the devices is
\* well formed in every behaviour of tapo_commands.py and its users.
THEOREM TapoInvariant == Spec => []TapoInv
<1>1. Init => TapoInv
  BY InitInv
<1>2. TapoInv /\ [Next]_vars => TapoInv'
  BY NextInv
<1> QED  BY <1>1, <1>2, PTL DEF Spec

\* Who stands in a queue holds a ticket for it.
LEMMA MembersHaveTickets ==
  ASSUME TypeOK, QueueInv, NEW d \in Device, NEW a \in ToSet(queue[d])
  PROVE  a \in Agent /\ HasTicket(a, d) /\ queue[d] # <<>>
<1>1. PICK i \in DOMAIN queue[d] : queue[d][i] = a
  BY DEF ToSet
<1>2. a \in Agent
  BY <1>1, InQueue
<1>3. queue[d] # <<>>
  BY <1>1, LenProperties, EmptySeq DEF TypeOK
<1> QED  BY <1>1, <1>2, <1>3 DEF QueueInv, HasTicket

\* What the invariant says of one state.
LEMMA InvImpliesOneAtATime ==
  ASSUME TapoInv
  PROVE  OneAtATime
<1>1. SlotIsExclusive
  BY AgentsAssumption DEF TapoInv, TicketsInv, SlotInv, SlotIsExclusive
<1>2. NoSceneInversion
  <2> SUFFICES ASSUME NEW d \in Device, NEW e \in Device, NEW s \in Scene, NEW t \in Scene, s # t,
                      {s, t} \subseteq ToSet(queue[d]), {s, t} \subseteq ToSet(queue[e]),
                      stamp[s][d] < stamp[t][d]
               PROVE  stamp[s][e] < stamp[t][e]
    BY DEF NoSceneInversion
  <2>1. HasTicket(s, d) /\ HasTicket(t, d) /\ HasTicket(s, e) /\ HasTicket(t, e)
    BY MembersHaveTickets DEF TapoInv, TicketsInv
  <2> QED  BY <2>1 DEF TapoInv, TicketsInv, SceneInv
<1>3. IdleDeviceInSync
  <2> SUFFICES ASSUME NEW d \in Device, queue[d] = <<>>, client[d] # 0, ~drift[d]
               PROVE  shadow[d] = power[d]
    BY DEF IdleDeviceInSync
  <2>1. \A a \in Agent : at[a][d] \in Outside
    BY DEF TapoInv, TicketsInv, QueueInv
  <2>2. \A a \in Agent : at[a][d] # "written"
    BY <2>1 DEF Outside
  <2> QED  BY <2>2 DEF TapoInv, BeliefsInv, SyncInv
<1> QED  BY <1>1, <1>2, <1>3 DEF TapoInv, TicketsInv, OneAtATime

\* One command at a time talks to a device, nobody who waits for it is
\* forgotten, a recovery never waits in front of a command, two scenes stand in
\* one order, and a device at rest agrees with its client, for every set of
\* devices, threads, scenes and watchers (TapoCommandQueue and its users).
THEOREM CommandsOneAtATime == Spec => []OneAtATime
<1>1. TapoInv => OneAtATime
  BY InvImpliesOneAtATime
<1> QED  BY <1>1, TapoInvariant, PTL

\* A command is sent by the oldest ticket, and no other step sends one.
LEMMA WritesStayInOrder ==
  ASSUME TapoInv, Next
  PROVE  WritesInOrder
<1> SUFFICES ASSUME NEW d \in Device
             PROVE  lastWrite'[d] >= lastWrite[d]
  BY DEF WritesInOrder
<1>1. lastWrite[d] \in Nat
  BY NumbersAreNatural DEF TapoInv
<1>2. CASE UNCHANGED lastWrite
  BY <1>1, <1>2
<1>3. ASSUME NEW a \in Agent, NEW e \in Device, SendCommand(a, e)
      PROVE  lastWrite'[d] >= lastWrite[d]
  <2>1. CASE e # d
    BY <2>1, <1>1, <1>3 DEF SendCommand, TapoInv, TypeOK
  <2>2. CASE e = d
    <3>1. at[a][d] \notin Outside
      BY <2>2, <1>3 DEF SendCommand, Outside
    <3>2. PICK i \in DOMAIN queue[d] : queue[d][i] = a
      BY <3>1 DEF TapoInv, TicketsInv, QueueInv
    <3>3. stamp[a][d] \in lastWrite[d] .. issued[d] /\ issued[d] \in Nat /\ stamp[a][d] \in Nat
      BY <3>2, NumbersAreNatural DEF TapoInv, TicketsInv, QueueInv
    <3>4. lastWrite'[d] = stamp[a][d]
      BY <2>2, <1>3 DEF SendCommand, TapoInv, TypeOK
    <3> QED  BY <1>1, <3>3, <3>4
  <2> QED  BY <2>1, <2>2
<1>4. Command \subseteq Agent /\ Scene \subseteq Agent /\ Watcher \subseteq Agent
  BY DEF Agent
<1>5. ASSUME NEW a \in Agent, NEW e \in Device, HoldStep(a, e)
      PROVE  UNCHANGED lastWrite \/ SendCommand(a, e)
  BY <1>5 DEF HoldStep, CheckClient, Reconcile, Leave, ghost
<1>6. CASE \E a \in Agent, e \in Device : HoldStep(a, e)
  BY <1>2, <1>3, <1>5, <1>6
<1>7. CASE ~ \E a \in Agent, e \in Device : HoldStep(a, e)
  <2>1. UNCHANGED lastWrite
    BY <1>4, <1>7 DEF Next, Request, CommandStep, Hold, EnterThread, RemoveInSlot, AdmitScene,
       SceneStep, ReserveTarget, EnterScene, ResumeScene, BeginRead, ReadDevice, ApplyReadings,
       WatcherStep, TryHold, PlanRecovery, EndRead, TimeOut, RemoveClient, ExternalChange, ghost
  <2> QED  BY <2>1, <1>2
<1> QED  BY <1>6, <1>7

\* A client only takes over a state newer than the one it shows.
LEMMA ShadowsNeverRegress ==
  ASSUME TapoInv, Next
  PROVE  ShadowNeverRegresses
<1> SUFFICES ASSUME NEW d \in Device, client'[d] = client[d]
             PROVE  shadow'[d] >= shadow[d]
  BY DEF ShadowNeverRegresses
<1>1. shadow[d] \in Nat /\ client[d] \in Nat /\ born[d] \in Nat /\ client[d] <= born[d]
  BY NumbersAreNatural DEF TapoInv, BeliefsInv, SyncInv
<1>2. CASE shadow' = shadow
  BY <1>1, <1>2
<1>3. ASSUME NEW a \in Agent, NEW e \in Device, Reconcile(a, e)
      PROVE  shadow'[d] >= shadow[d]
  <2>1. CASE e # d
    <3>1. shadow' = shadow \/ shadow' = [shadow EXCEPT ![e] = wrote[e]]
      BY <1>3 DEF Reconcile
    <3>2. shadow'[d] = shadow[d]
      BY <2>1, <3>1 DEF TapoInv, TypeOK
    <3> QED  BY <1>1, <3>2
  <2>2. CASE e = d
    <3>1. client[d] = expected[a][d] => shadow[d] <= wrote[d]
      BY <2>2, <1>3 DEF Reconcile, TapoInv, BeliefsInv, SyncInv
    <3>2. IF client[d] = expected[a][d] THEN shadow'[d] = wrote[d] ELSE shadow'[d] = shadow[d]
      BY <2>2, <1>3 DEF Reconcile, TapoInv, TypeOK
    <3> QED  BY <1>1, <3>1, <3>2, NumbersAreNatural DEF TapoInv
  <2> QED  BY <2>1, <2>2
<1>4. CASE ApplyReadings
  <2>1. CASE Fresh(d)
    <3>1. shadow'[d] = got[d]
      BY <2>1, <1>4 DEF ApplyReadings
    <3>2. got[d] >= shadow[d]
      BY <2>1 DEF TapoInv, BeliefsInv, SyncInv
    <3> QED  BY <3>1, <3>2
  <2>2. CASE Discovered(d)
    <3>1. client'[d] = born[d] + 1
      BY <2>2, <1>4 DEF ApplyReadings
    <3> QED  BY <3>1, <1>1
  <2>3. CASE ~Fresh(d) /\ ~Discovered(d)
    <3>1. shadow'[d] = shadow[d]
      BY <2>3, <1>4 DEF ApplyReadings
    <3> QED  BY <3>1, <1>1
  <2> QED  BY <2>1, <2>2, <2>3
<1>5. ASSUME NEW e \in Device, Unregister(e), client[e] # 0
      PROVE  shadow'[d] >= shadow[d]
  <2>1. e # d
    BY <1>5 DEF Unregister, TapoInv, TypeOK
  <2> QED  BY <2>1, <1>1, <1>5 DEF Unregister, TapoInv, TypeOK
<1>6. Command \subseteq Agent /\ Scene \subseteq Agent /\ Watcher \subseteq Agent
  BY DEF Agent
<1>7. ASSUME NEW c \in Command, NEW e \in Device, RemoveInSlot(c, e)
      PROVE  shadow'[d] >= shadow[d]
  <2>1. client[e] # 0
    BY <1>6, <1>7 DEF RemoveInSlot, TapoInv, TicketsInv, PlaceInv
  <2> QED  BY <2>1, <1>5, <1>7 DEF RemoveInSlot
<1>8. ASSUME NEW e \in Device, RemoveClient(e)
      PROVE  shadow'[d] >= shadow[d]
  BY <1>5, <1>8 DEF RemoveClient
<1>9. ASSUME NEW a \in Agent, NEW e \in Device, HoldStep(a, e)
      PROVE  shadow' = shadow \/ Reconcile(a, e)
  BY <1>9 DEF HoldStep, CheckClient, SendCommand, Leave, registry
<1>10. CASE \E a \in Agent, e \in Device : HoldStep(a, e)
  BY <1>2, <1>3, <1>9, <1>10
<1>11. CASE ~ \E a \in Agent, e \in Device : HoldStep(a, e)
  <2>1. \/ shadow' = shadow \/ ApplyReadings
        \/ \E c \in Command, e \in Device : RemoveInSlot(c, e)
        \/ \E e \in Device : RemoveClient(e)
    BY <1>6, <1>11 DEF Next, Request, CommandStep, Hold, EnterThread, AdmitScene,
       SceneStep, ReserveTarget, EnterScene, ResumeScene, BeginRead, ReadDevice,
       WatcherStep, TryHold, PlanRecovery, EndRead, TimeOut, ExternalChange, registry
  <2> QED  BY <2>1, <1>2, <1>4, <1>7, <1>8
<1> QED  BY <1>10, <1>11

\* The writes of a device are never overtaken, and what is shown of it never
\* goes back, for every set of devices, threads, scenes and watchers
\* (publish_device, tapo_refresh).
THEOREM NothingEverGoesBack == Spec => NothingGoesBack
<1>1. TapoInv /\ [Next]_vars => [WritesInOrder /\ ShadowNeverRegresses]_vars
  BY WritesStayInOrder, ShadowsNeverRegress
<1>2. Spec => [][Next]_vars
  BY DEF Spec
<1> QED  BY <1>1, <1>2, TapoInvariant, PTL DEF NothingGoesBack

\* The state of the command queue stays within its types.
THEOREM TypeCorrect == Spec => []TypeOK
<1>1. TapoInv => TypeOK
  BY DEF TapoInv
<1> QED  BY <1>1, TapoInvariant, PTL

-----------------------------------------------------------------------------
(* The sessions with a device, for any number of scenes, threads, sessions *)
(* and lost answers.                                                       *)

\* Where a command is and what the device has done for it.
SessionOfCommand(c) ==
  /\ step[c] \in Sessions!Steps \ {"publish"}
  /\ result[c] \in {None, "sent", "ok", "failed"} /\ applied[c] \in {0, 1}
  /\ result[c] = None => applied[c] = 0
  /\ result[c] \in {"sent", "ok"} => applied[c] = 1
  /\ result[c] = "sent" => c \notin SceneCommands
  /\ step[c] \in {"idle", "verify", "ask", "write", "renew", "rewrite"} => result[c] = None
  /\ step[c] \in {"get", "connect", "login"} => result[c] \in {None, "sent"}
  /\ step[c] = "read" => result[c] = "sent"

\* The refresh asks nobody and changes nothing.
RefreshReads == step[RefreshLoop] \in {"idle", "get", "connect", "login", "read", "publish"}

\* Who logs in holds the slot, and no handle is cached then.
OneLogin ==
  \A a \in Sessions!Actors : step[a] = "login" => connecting = a /\ cache = None

SessionsTypes ==
  /\ step \in [Sessions!Actors -> Sessions!Steps]
  /\ result = [c \in Sessions!Commands |-> result[c]]
  /\ applied = [c \in Sessions!Commands |-> applied[c]]

SessionsInv ==
  /\ SessionsTypes
  /\ \A c \in Sessions!Commands : SessionOfCommand(c)
  /\ RefreshReads /\ OneLogin

\* Nobody has done anything yet.
LEMMA SessionsStart == Sessions!Init => SessionsInv
<1> SUFFICES ASSUME Sessions!Init PROVE SessionsInv
  OBVIOUS
<1> USE SessionsAssumption DEF Sessions!Init
<1>1. SessionsTypes
  BY DEF SessionsTypes, Sessions!Steps, Sessions!Idle
<1>2. ASSUME NEW c \in Sessions!Commands PROVE SessionOfCommand(c)
  <2>1. step[c] = "idle" /\ result[c] = None /\ applied[c] = 0
    BY DEF Sessions!Actors
  <2> QED  BY <2>1 DEF SessionOfCommand, Sessions!Steps, Sessions!Idle
<1>3. RefreshReads /\ OneLogin
  BY DEF RefreshReads, OneLogin, Sessions!Actors
<1> QED  BY <1>1, <1>2, <1>3 DEF SessionsInv

\* Who asks the device first is a command that has not been sent.
LEMMA SessionsGetInv ==
  ASSUME SessionsInv, NEW a \in Sessions!Actors, Sessions!Get(a)
  PROVE  SessionsInv'
<1> USE SessionsAssumption DEF SessionsInv, SessionsTypes, SessionOfCommand, RefreshReads, OneLogin,
       Sessions!Actors, Sessions!Commands, Sessions!Steps, Sessions!Idle, Sessions!Move,
       Sessions!Fail, Sessions!Drop, Sessions!Asks, Sessions!Work, Sessions!handles, Sessions!history,
       Sessions!Get
<1>1. SessionsTypes'
  <2>1. step' \in [Sessions!Actors -> Sessions!Steps]
    OBVIOUS
  <2>2. (result = [c \in Sessions!Commands |-> result[c]])'
    OBVIOUS
  <2>3. (applied = [c \in Sessions!Commands |-> applied[c]])'
    OBVIOUS
  <2> QED  BY <2>1, <2>2, <2>3
<1>2. ASSUME NEW c \in Sessions!Commands PROVE SessionOfCommand(c)'
  <2>1. CASE c # a
    BY SMTT(30), <2>1
  <2>2. CASE c = a
    BY SMTT(30), <2>2
  <2> QED  BY <2>1, <2>2
<1>3. RefreshReads'
  OBVIOUS
<1>4. OneLogin'
  OBVIOUS
<1> QED  BY <1>1, <1>2, <1>3, <1>4

\* A command that was asked about goes on, or connects.
LEMMA SessionsVerifyInv ==
  ASSUME SessionsInv, NEW a \in Sessions!Actors, Sessions!Verify(a)
  PROVE  SessionsInv'
<1> USE SessionsAssumption DEF SessionsInv, SessionsTypes, SessionOfCommand, RefreshReads, OneLogin,
       Sessions!Actors, Sessions!Commands, Sessions!Steps, Sessions!Idle, Sessions!Move,
       Sessions!Fail, Sessions!Drop, Sessions!Asks, Sessions!Work, Sessions!handles, Sessions!history,
       Sessions!Verify, Sessions!Accepts, Sessions!Left
<1>1. SessionsTypes'
  <2>1. step' \in [Sessions!Actors -> Sessions!Steps]
    OBVIOUS
  <2>2. (result = [c \in Sessions!Commands |-> result[c]])'
    OBVIOUS
  <2>3. (applied = [c \in Sessions!Commands |-> applied[c]])'
    OBVIOUS
  <2> QED  BY <2>1, <2>2, <2>3
<1>2. ASSUME NEW c \in Sessions!Commands PROVE SessionOfCommand(c)'
  <2>1. CASE c # a
    BY <2>1
  <2>2. CASE c = a
    BY <2>2
  <2> QED  BY <2>1, <2>2
<1>3. RefreshReads'
  OBVIOUS
<1>4. OneLogin'
  OBVIOUS
<1> QED  BY <1>1, <1>2, <1>3, <1>4

\* Who finds no handle in the slot logs in.
LEMMA SessionsEnterInv ==
  ASSUME SessionsInv, NEW a \in Sessions!Actors, Sessions!Enter(a)
  PROVE  SessionsInv'
<1> USE SessionsAssumption DEF SessionsInv, SessionsTypes, SessionOfCommand, RefreshReads, OneLogin,
       Sessions!Actors, Sessions!Commands, Sessions!Steps, Sessions!Idle, Sessions!Move,
       Sessions!Fail, Sessions!Drop, Sessions!Asks, Sessions!Work, Sessions!handles, Sessions!history,
       Sessions!Enter
<1>1. SessionsTypes'
  <2>1. step' \in [Sessions!Actors -> Sessions!Steps]
    OBVIOUS
  <2>2. (result = [c \in Sessions!Commands |-> result[c]])'
    OBVIOUS
  <2>3. (applied = [c \in Sessions!Commands |-> applied[c]])'
    OBVIOUS
  <2> QED  BY <2>1, <2>2, <2>3
<1>2. ASSUME NEW c \in Sessions!Commands PROVE SessionOfCommand(c)'
  <2>1. CASE c # a
    BY <2>1
  <2>2. CASE c = a
    BY SMTT(30), <2>2
  <2> QED  BY <2>1, <2>2
<1>3. RefreshReads'
  OBVIOUS
<1>4. OneLogin'
  OBVIOUS
<1> QED  BY <1>1, <1>2, <1>3, <1>4

\* A login ends with a handle, or the command fails.
LEMMA SessionsLoginInv ==
  ASSUME SessionsInv, NEW a \in Sessions!Actors, Sessions!Login(a)
  PROVE  SessionsInv'
<1> USE SessionsAssumption DEF SessionsInv, SessionsTypes, SessionOfCommand, RefreshReads, OneLogin,
       Sessions!Actors, Sessions!Commands, Sessions!Steps, Sessions!Idle, Sessions!Move,
       Sessions!Fail, Sessions!Drop, Sessions!Asks, Sessions!Work, Sessions!handles, Sessions!history,
       Sessions!Login
<1>1. SessionsTypes'
  <2>1. step' \in [Sessions!Actors -> Sessions!Steps]
    OBVIOUS
  <2>2. (result = [c \in Sessions!Commands |-> result[c]])'
    OBVIOUS
  <2>3. (applied = [c \in Sessions!Commands |-> applied[c]])'
    OBVIOUS
  <2> QED  BY <2>1, <2>2, <2>3
<1>2. ASSUME NEW c \in Sessions!Commands PROVE SessionOfCommand(c)'
  <2>1. CASE c # a
    <3>1. step'[c] = step[c] /\ result'[c] = result[c] /\ applied'[c] = applied[c]
      BY SMTT(30), <2>1
    <3> QED  BY <3>1
  <2>2. CASE c = a
    BY SMTT(30), <2>2
  <2> QED  BY <2>1, <2>2
<1>3. RefreshReads'
  OBVIOUS
<1>4. OneLogin'
  OBVIOUS
<1> QED  BY <1>1, <1>2, <1>3, <1>4

\* What is read back was sent.
LEMMA SessionsReadInv ==
  ASSUME SessionsInv, NEW a \in Sessions!Actors, Sessions!Read(a)
  PROVE  SessionsInv'
<1> USE SessionsAssumption DEF SessionsInv, SessionsTypes, SessionOfCommand, RefreshReads, OneLogin,
       Sessions!Actors, Sessions!Commands, Sessions!Steps, Sessions!Idle, Sessions!Move,
       Sessions!Fail, Sessions!Drop, Sessions!Asks, Sessions!Work, Sessions!handles, Sessions!history,
       Sessions!Read, Sessions!Accepts, Sessions!ReadBack, Sessions!Dropped
<1>1. SessionsTypes'
  <2>1. step' \in [Sessions!Actors -> Sessions!Steps]
    OBVIOUS
  <2>2. (result = [c \in Sessions!Commands |-> result[c]])'
    OBVIOUS
  <2>3. (applied = [c \in Sessions!Commands |-> applied[c]])'
    OBVIOUS
  <2> QED  BY <2>1, <2>2, <2>3
<1>2. ASSUME NEW c \in Sessions!Commands PROVE SessionOfCommand(c)'
  <2>1. CASE c # a
    BY <2>1
  <2>2. CASE c = a
    BY SMTT(30), <2>2
  <2> QED  BY <2>1, <2>2
<1>3. RefreshReads'
  OBVIOUS
<1>4. OneLogin'
  OBVIOUS
<1> QED  BY <1>1, <1>2, <1>3, <1>4

\* A command begins without a result.
LEMMA SessionsStartInv ==
  ASSUME SessionsInv, NEW e \in Sessions!Commands, Sessions!Start(e)
  PROVE  SessionsInv'
<1> USE SessionsAssumption DEF SessionsInv, SessionsTypes, SessionOfCommand, RefreshReads, OneLogin,
       Sessions!Actors, Sessions!Commands, Sessions!Steps, Sessions!Idle, Sessions!Move,
       Sessions!Fail, Sessions!Drop, Sessions!Asks, Sessions!Work, Sessions!handles, Sessions!history,
       Sessions!Start
<1>1. SessionsTypes'
  <2>1. step' \in [Sessions!Actors -> Sessions!Steps]
    OBVIOUS
  <2>2. (result = [c \in Sessions!Commands |-> result[c]])'
    OBVIOUS
  <2>3. (applied = [c \in Sessions!Commands |-> applied[c]])'
    OBVIOUS
  <2> QED  BY <2>1, <2>2, <2>3
<1>2. ASSUME NEW c \in Sessions!Commands PROVE SessionOfCommand(c)'
  <2>1. CASE c # e
    BY <2>1
  <2>2. CASE c = e
    BY <2>2
  <2> QED  BY <2>1, <2>2
<1>3. RefreshReads'
  OBVIOUS
<1>4. OneLogin'
  OBVIOUS
<1> QED  BY <1>1, <1>2, <1>3, <1>4

\* A scene asks for the power it is to keep.
LEMMA SessionsAskInv ==
  ASSUME SessionsInv, NEW e \in Sessions!Commands, Sessions!Ask(e)
  PROVE  SessionsInv'
<1> USE SessionsAssumption DEF SessionsInv, SessionsTypes, SessionOfCommand, RefreshReads, OneLogin,
       Sessions!Actors, Sessions!Commands, Sessions!Steps, Sessions!Idle, Sessions!Move,
       Sessions!Fail, Sessions!Drop, Sessions!Asks, Sessions!Work, Sessions!handles, Sessions!history,
       Sessions!Ask, Sessions!Dropped
<1>1. SessionsTypes'
  <2>1. step' \in [Sessions!Actors -> Sessions!Steps]
    OBVIOUS
  <2>2. (result = [c \in Sessions!Commands |-> result[c]])'
    OBVIOUS
  <2>3. (applied = [c \in Sessions!Commands |-> applied[c]])'
    OBVIOUS
  <2> QED  BY <2>1, <2>2, <2>3
<1>2. ASSUME NEW c \in Sessions!Commands PROVE SessionOfCommand(c)'
  <2>1. CASE c # e
    BY SMTT(30), <2>1
  <2>2. CASE c = e
    BY SMTT(30), <2>2
  <2> QED  BY <2>1, <2>2
<1>3. RefreshReads'
  OBVIOUS
<1>4. OneLogin'
  OBVIOUS
<1> QED  BY <1>1, <1>2, <1>3, <1>4

\* A command that is written has not been applied yet.
LEMMA SessionsWriteInv ==
  ASSUME SessionsInv, NEW e \in Sessions!Commands, Sessions!Write(e)
  PROVE  SessionsInv'
<1> USE SessionsAssumption DEF SessionsInv, SessionsTypes, SessionOfCommand, RefreshReads, OneLogin,
       Sessions!Actors, Sessions!Commands, Sessions!Steps, Sessions!Idle, Sessions!Move,
       Sessions!Fail, Sessions!Drop, Sessions!Asks, Sessions!Work, Sessions!handles, Sessions!history,
       Sessions!Write, Sessions!Accepts, Sessions!Apply, Sessions!Done, Sessions!Spend
<1>1. SessionsTypes'
  <2>1. step' \in [Sessions!Actors -> Sessions!Steps]
    OBVIOUS
  <2>2. (result = [c \in Sessions!Commands |-> result[c]])'
    OBVIOUS
  <2>3. (applied = [c \in Sessions!Commands |-> applied[c]])'
    OBVIOUS
  <2> QED  BY <2>1, <2>2, <2>3
<1>2. ASSUME NEW c \in Sessions!Commands PROVE SessionOfCommand(c)'
  <2>1. CASE c # e
    <3>1. step'[c] = step[c] /\ result'[c] = result[c] /\ applied'[c] = applied[c]
      BY SMTT(30), <2>1
    <3> QED  BY <3>1
  <2>2. CASE c = e
    <3>1. step[e] = "write" /\ result[e] = None /\ applied[e] = 0 /\ e # RefreshLoop
      OBVIOUS
    <3>2. \/ applied'[e] = 0 /\ step'[e] = "renew" /\ result'[e] = None
          \/ applied'[e] = 0 /\ step'[e] = "failed" /\ result'[e] = "failed"
          \/ applied'[e] = 1 /\ step'[e] = "failed" /\ result'[e] = "failed"
          \/ applied'[e] = 1 /\ step'[e] = "ok" /\ result'[e] = "ok"
          \/ applied'[e] = 1 /\ step'[e] = "get" /\ result'[e] = "sent" /\ e \notin SceneCommands
      BY <3>1
    <3> QED  BY <2>2, <3>1, <3>2
  <2> QED  BY <2>1, <2>2
<1>3. RefreshReads'
  OBVIOUS
<1>4. OneLogin'
  OBVIOUS
<1> QED  BY <1>1, <1>2, <1>3, <1>4

\* A renewed session is followed by the second write.
LEMMA SessionsRenewInv ==
  ASSUME SessionsInv, NEW e \in Sessions!Commands, Sessions!Renew(e)
  PROVE  SessionsInv'
<1> USE SessionsAssumption DEF SessionsInv, SessionsTypes, SessionOfCommand, RefreshReads, OneLogin,
       Sessions!Actors, Sessions!Commands, Sessions!Steps, Sessions!Idle, Sessions!Move,
       Sessions!Fail, Sessions!Drop, Sessions!Asks, Sessions!Work, Sessions!handles, Sessions!history,
       Sessions!Renew, Sessions!Dropped
<1>1. SessionsTypes'
  <2>1. step' \in [Sessions!Actors -> Sessions!Steps]
    OBVIOUS
  <2>2. (result = [c \in Sessions!Commands |-> result[c]])'
    OBVIOUS
  <2>3. (applied = [c \in Sessions!Commands |-> applied[c]])'
    OBVIOUS
  <2> QED  BY <2>1, <2>2, <2>3
<1>2. ASSUME NEW c \in Sessions!Commands PROVE SessionOfCommand(c)'
  <2>1. CASE c # e
    BY ZenonT(30), <2>1
  <2>2. CASE c = e
    BY SMTT(30), <2>2
  <2> QED  BY <2>1, <2>2
<1>3. RefreshReads'
  OBVIOUS
<1>4. OneLogin'
  OBVIOUS
<1> QED  BY <1>1, <1>2, <1>3, <1>4

\* The second write comes when the first was refused.
LEMMA SessionsRewriteInv ==
  ASSUME SessionsInv, NEW e \in Sessions!Commands, Sessions!Rewrite(e)
  PROVE  SessionsInv'
<1> USE SessionsAssumption DEF SessionsInv, SessionsTypes, SessionOfCommand, RefreshReads, OneLogin,
       Sessions!Actors, Sessions!Commands, Sessions!Steps, Sessions!Idle, Sessions!Move,
       Sessions!Fail, Sessions!Drop, Sessions!Asks, Sessions!Work, Sessions!handles, Sessions!history,
       Sessions!Rewrite, Sessions!Accepts, Sessions!Apply, Sessions!Done, Sessions!Spend, Sessions!Dropped
<1>1. SessionsTypes'
  <2>1. step' \in [Sessions!Actors -> Sessions!Steps]
    OBVIOUS
  <2>2. (result = [c \in Sessions!Commands |-> result[c]])'
    OBVIOUS
  <2>3. (applied = [c \in Sessions!Commands |-> applied[c]])'
    OBVIOUS
  <2> QED  BY <2>1, <2>2, <2>3
<1>2. ASSUME NEW c \in Sessions!Commands PROVE SessionOfCommand(c)'
  <2>1. CASE c # e
    <3>1. step'[c] = step[c] /\ result'[c] = result[c] /\ applied'[c] = applied[c]
      BY ZenonT(30), <2>1
    <3> QED  BY ZenonT(30), <3>1
  <2>2. CASE c = e
    <3>1. step[e] = "rewrite" /\ result[e] = None /\ applied[e] = 0 /\ e # RefreshLoop
      OBVIOUS
    <3>2. \/ applied'[e] = 0 /\ step'[e] = "failed" /\ result'[e] = "failed"
          \/ applied'[e] = 1 /\ step'[e] = "failed" /\ result'[e] = "failed"
          \/ applied'[e] = 1 /\ step'[e] = "ok" /\ result'[e] = "ok"
          \/ applied'[e] = 1 /\ step'[e] = "get" /\ result'[e] = "sent" /\ e \notin SceneCommands
      BY <3>1
    <3> QED  BY <2>2, <3>1, <3>2
  <2> QED  BY <2>1, <2>2
<1>3. RefreshReads'
  OBVIOUS
<1>4. OneLogin'
  OBVIOUS
<1> QED  BY <1>1, <1>2, <1>3, <1>4

\* The refresh starts, publishes or gives up, and the device goes its own way.
LEMMA SessionsOthersInv ==
  ASSUME SessionsInv,
         Sessions!BeginRefresh \/ Sessions!Publish \/ Sessions!GiveUp \/ Sessions!EndSession
           \/ Sessions!GoAway \/ Sessions!ComeBack \/ Sessions!Flip
  PROVE  SessionsInv'
<1> USE SessionsAssumption DEF SessionsInv, SessionsTypes, SessionOfCommand, RefreshReads, OneLogin,
       Sessions!Actors, Sessions!Commands, Sessions!Steps, Sessions!Idle, Sessions!Move,
       Sessions!Fail, Sessions!Drop, Sessions!Asks, Sessions!Work, Sessions!handles, Sessions!history,
       Sessions!BeginRefresh, Sessions!Publish, Sessions!GiveUp, Sessions!EndSession,
       Sessions!GoAway, Sessions!ComeBack, Sessions!Flip, Sessions!Left
<1>1. SessionsTypes'
  <2>1. step' \in [Sessions!Actors -> Sessions!Steps]
    OBVIOUS
  <2>2. (result = [c \in Sessions!Commands |-> result[c]])'
    OBVIOUS
  <2>3. (applied = [c \in Sessions!Commands |-> applied[c]])'
    OBVIOUS
  <2> QED  BY <2>1, <2>2, <2>3
<1>2. ASSUME NEW c \in Sessions!Commands PROVE SessionOfCommand(c)'
  BY ZenonT(30)
<1>3. RefreshReads'
  OBVIOUS
<1>4. OneLogin'
  OBVIOUS
<1> QED  BY <1>1, <1>2, <1>3, <1>4

LEMMA SessionsNextInv ==
  ASSUME SessionsInv, Sessions!Next PROVE SessionsInv'
<1>1. CASE \E a \in Sessions!Actors : Sessions!Act(a)
  BY <1>1, SessionsGetInv, SessionsVerifyInv, SessionsEnterInv, SessionsLoginInv, SessionsReadInv
     DEF Sessions!Act
<1>2. CASE \E e \in Sessions!Commands : Sessions!CommandStep(e)
  BY <1>2, SessionsStartInv, SessionsAskInv, SessionsWriteInv, SessionsRenewInv, SessionsRewriteInv
     DEF Sessions!CommandStep
<1> QED  BY <1>1, <1>2, SessionsOthersInv DEF Sessions!Next

\* A handle enters the cache with a login alone, and none is there then.
LEMMA LoginsComeAlone ==
  ASSUME SessionsInv, Sessions!Next PROVE Sessions!NoSecondLogin
<1>1. CASE \E a \in Sessions!Actors : Sessions!Login(a)
  BY <1>1 DEF SessionsInv, OneLogin, Sessions!Login, Sessions!NoSecondLogin
<1>2. CASE ~ \E a \in Sessions!Actors : Sessions!Login(a)
  <2>1. cache' = cache \/ cache' = None
    BY <1>2 DEF Sessions!Next, Sessions!Act, Sessions!CommandStep, Sessions!Get, Sessions!Verify,
       Sessions!Enter, Sessions!Read, Sessions!Start, Sessions!Ask, Sessions!Write, Sessions!Renew,
       Sessions!Rewrite, Sessions!BeginRefresh, Sessions!Publish, Sessions!GiveUp,
       Sessions!EndSession, Sessions!GoAway, Sessions!ComeBack, Sessions!Flip, Sessions!Dropped,
       Sessions!handles
  <2> QED  BY <2>1 DEF Sessions!NoSecondLogin
<1> QED  BY <1>1, <1>2

LEMMA SessionsStaysInv == SessionsInv /\ UNCHANGED sessionsVars => SessionsInv'
  BY DEF sessionsVars, SessionsInv, SessionsTypes, SessionOfCommand, RefreshReads, OneLogin

LEMMA SessionsStepInv == SessionsInv /\ [MCNext]_MCvars => SessionsInv'
  BY SessionsNextInv, SessionsStaysInv DEF MCNext, CommandsStep, SessionsStep, ScenesStep, MCvars

THEOREM SessionsInvariant == MCSpec => []SessionsInv
<1>1. MCInit => SessionsInv
  BY SessionsStart DEF MCInit
<1> QED  BY <1>1, SessionsStepInv, PTL DEF MCSpec

\* However sessions end and answers are lost, a command of any number of scenes
\* and threads acts at most once, is reported as done only when it was, and no
\* second login replaces a handle that is in use (tapo_control.py).
THEOREM CommandsStayTrue == MCSpec => CommandsAreTrue
<1>1. SessionsInv => (part = "sessions" => Sessions!AtMostOnce /\ Sessions!Truthful)
  BY DEF SessionsInv, SessionOfCommand, Sessions!AtMostOnce, Sessions!Truthful
<1>2. SessionsInv /\ [MCNext]_MCvars => [part = "sessions" => Sessions!NoSecondLogin]_MCvars
  BY LoginsComeAlone DEF MCNext, CommandsStep, SessionsStep, ScenesStep
<1> QED  BY <1>1, <1>2, SessionsInvariant, PTL DEF MCSpec, CommandsAreTrue
=============================================================================
