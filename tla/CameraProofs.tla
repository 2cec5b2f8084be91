---------------------------- MODULE CameraProofs -----------------------------
(***************************************************************************)
(* Proofs about the Android cameras and sensors, for any pages, requests,  *)
(* timers, cameras and talks, any life time of an interest and any bounds: *)
(* the preview requests, the door, the motion and the talk, each with an   *)
(* invariant of its own, and then all of them in MCSpec.                   *)
(***************************************************************************)
EXTENDS MCCameras, SequenceTheorems, FiniteSetTheorems, TLAPS

USE PreviewRequestsAssumption, CamerasAssumption

-----------------------------------------------------------------------------
(* The preview requests: whatever pages come, leave and expire, in         *)
(* whatever order their posts are served, the last push that was sent woke *)
(* the camera while the server counts a viewer.                            *)

ViewersInv == TypeOK /\ LastPushWakes

\* Nobody watches at first, and nothing was told.
LEMMA InitInv == Init => ViewersInv
<1> SUFFICES ASSUME Init PROVE ViewersInv
  OBVIOUS
<1>1. /\ active \in [Page -> BOOLEAN] /\ recent \in [Page -> BOOLEAN \cup {None}]
      /\ viewers \in [Page -> (0 .. ViewerTTL + 1) \cup {None}]
      /\ talk \in [Channel -> {"none", "asked", "on", "off"}] /\ left \in 0 .. MaxLeft
  BY DEF Init, Nobody
<1>2. post \in [Page \X BOOLEAN -> {"none", "sent", "served"}]
  BY DEF Init
<1>3. notices \in [BOOLEAN -> 0 .. MaxNotices]
  BY DEF Init
<1>4. {told, prefs} \subseteq BOOLEAN
  BY DEF Init
<1>5. LastPushWakes
  BY DEF Init, LastPushWakes, Requested
<1> QED
  BY <1>1, <1>2, <1>3, <1>4, <1>5 DEF ViewersInv, TypeOK

\* Dropping expired viewers adds none.
LEMMA PrunedViewers ==
  ASSUME TypeOK
  PROVE  /\ Pruned \in [Page -> (0 .. ViewerTTL + 1) \cup {None}]
         /\ \A p \in Page : Pruned[p] # None => viewers[p] # None
         /\ Requested(Pruned) => Requested(viewers)
<1>1. Pruned \in [Page -> (0 .. ViewerTTL + 1) \cup {None}]
  BY DEF TypeOK, Pruned
<1>2. \A p \in Page : Pruned[p] # None => viewers[p] # None
  BY DEF Pruned
<1>3. Requested(Pruned) => \E p \in Page : Pruned[p] # None
  BY <1>1 DEF Requested, Nobody
<1>4. (\E p \in Page : viewers[p] # None) => Requested(viewers)
  BY DEF Requested, Nobody
<1> QED
  BY <1>1, <1>2, <1>3, <1>4

\* A viewer that is new is told of, and one that is not was told of before.
LEMMA ServeInv ==
  ASSUME ViewersInv, NEW p \in Page, NEW wish \in BOOLEAN, Serve(p, wish)
  PROVE  ViewersInv'
<1> USE DEF ViewersInv
<1> DEFINE after == [Pruned EXCEPT ![p] = IF wish THEN 0 ELSE None]
<1>1. viewers' = after /\ Notify(Pruned, after, p, wish)
  BY DEF Serve
<1>2. after \in [Page -> (0 .. ViewerTTL + 1) \cup {None}]
  BY PrunedViewers
<1>3. told' \in BOOLEAN /\ notices' \in [BOOLEAN -> 0 .. MaxNotices]
  <2>1. Requested(after) \in BOOLEAN
    BY DEF Requested
  <2>2. told \in BOOLEAN /\ notices \in [BOOLEAN -> 0 .. MaxNotices]
    BY DEF TypeOK
  <2>3. CASE UNCHANGED <<told, notices>>
    BY <2>2, <2>3
  <2>4. CASE /\ told' = Requested(after)
             /\ notices' = [notices EXCEPT ![Requested(after)] = IF @ < MaxNotices THEN @ + 1 ELSE @]
    <3> DEFINE on == Requested(after)
    <3>1. on \in BOOLEAN
      BY <2>1
    <3> HIDE DEF on
    <3>2. (IF notices[on] < MaxNotices THEN notices[on] + 1 ELSE notices[on]) \in 0 .. MaxNotices
      BY <2>2, <3>1
    <3>3. notices' = [notices EXCEPT ![on] = IF @ < MaxNotices THEN @ + 1 ELSE @] /\ told' = on
      BY <2>4 DEF on
    <3> QED
      BY <2>2, <3>1, <3>2, <3>3
  <2> QED
    BY <1>1, <2>3, <2>4 DEF Notify
<1>4. post' \in [Page \X BOOLEAN -> {"none", "sent", "served"}]
  BY DEF Serve, TypeOK
<1>5. TypeOK'
  BY <1>1, <1>2, <1>3, <1>4 DEF Serve, TypeOK
<1>6. ASSUME Requested(after) PROVE told'
  <2>1. CASE told' = Requested(after)
    BY <1>6, <2>1
  <2>2. CASE ~(wish /\ Pruned[p] = None) /\ told' = told
    <3>1. PICK q \in Page : after[q] # None
      BY <1>2, <1>6 DEF Requested, Nobody
    <3>2. \E r \in Page : Pruned[r] # None
      BY <2>2, <3>1, PrunedViewers
    <3>3. Requested(viewers)
      BY <3>2, PrunedViewers DEF Requested, Nobody
    <3> QED
      BY <2>2, <3>3 DEF LastPushWakes
  <2> QED
    BY <1>1, <2>1, <2>2 DEF Notify
<1>7. LastPushWakes'
  BY <1>1, <1>6 DEF LastPushWakes
<1> QED
  BY <1>5, <1>7

\* Answers and snapshots only drop viewers, and time only ages them.
LEMMA AgeingInv ==
  ASSUME ViewersInv, Status \/ Tick \/ \E ch \in Channel : Answer(ch)
  PROVE  ViewersInv'
<1> USE DEF ViewersInv
<1>1. CASE Status \/ \E ch \in Channel : Answer(ch)
  <2>1. viewers' = Pruned /\ UNCHANGED <<pages, notices, told, prefs>>
    BY <1>1 DEF Status, Answer
  <2>2. talk' \in [Channel -> {"none", "asked", "on", "off"}]
    BY <1>1 DEF Status, Answer, TypeOK
  <2>3. TypeOK'
    BY <2>1, <2>2, PrunedViewers DEF TypeOK, pages
  <2>4. LastPushWakes'
    BY <2>1, PrunedViewers DEF LastPushWakes, Requested, Nobody
  <2> QED
    BY <2>3, <2>4
<1>2. CASE Tick
  <2> USE <1>2 DEF Tick
  <2>1. viewers' \in [Page -> (0 .. ViewerTTL + 1) \cup {None}]
    BY DEF TypeOK
  <2>2. TypeOK'
    BY <2>1 DEF TypeOK, pages
  <2>3. Requested(viewers') => \E p \in Page : viewers'[p] # None
    BY <2>1 DEF Requested, Nobody
  <2>4. (\E p \in Page : viewers'[p] # None) => \E p \in Page : viewers[p] # None
    OBVIOUS
  <2>5. LastPushWakes'
    BY <2>3, <2>4 DEF LastPushWakes, Requested, Nobody
  <2> QED
    BY <2>2, <2>5
<1> QED
  BY <1>1, <1>2

\* A post is sent, or it is not.
LEMMA SendTypes ==
  ASSUME TypeOK, NEW p \in Page, NEW wish \in BOOLEAN, Send(p, wish)
  PROVE  /\ post' \in [Page \X BOOLEAN -> {"none", "sent", "served"}]
         /\ recent' \in [Page -> BOOLEAN \cup {None}]
BY DEF TypeOK, Send

\* What a page does keeps the types.
LEMMA PageTypes ==
  ASSUME TypeOK, NEW p \in Page, Open(p) \/ Close(p) \/ Beat(p) \/ Leave(p) \/ Settle(p)
  PROVE  TypeOK'
<1> USE DEF TypeOK
<1>1. CASE Open(p)
  <2>1. Send(p, TRUE) /\ active' \in [Page -> BOOLEAN]
    BY <1>1 DEF Open
  <2> QED
    BY <1>1, <2>1, SendTypes DEF Open
<1>2. CASE Close(p)
  <2>1. Send(p, FALSE) /\ active' \in [Page -> BOOLEAN]
    BY <1>2 DEF Close
  <2> QED
    BY <1>2, <2>1, SendTypes DEF Close
<1>3. CASE Beat(p)
  <2>1. Send(p, TRUE)
    BY <1>3 DEF Beat
  <2> QED
    BY <1>3, <2>1, SendTypes DEF Beat
<1>4. CASE Leave(p)
  <2>1. /\ active' \in [Page -> BOOLEAN] /\ recent' \in [Page -> BOOLEAN \cup {None}]
        /\ left' \in 0 .. MaxLeft
    BY <1>4 DEF Leave
  <2>2. post' \in [Page \X BOOLEAN -> {"none", "sent", "served"}]
    BY <1>4 DEF Leave
  <2> QED
    BY <1>4, <2>1, <2>2 DEF Leave
<1>5. CASE Settle(p)
  BY <1>5 DEF Settle
<1> QED
  BY <1>1, <1>2, <1>3, <1>4, <1>5

\* The pages, the phone and the network touch neither viewers nor what was told.
LEMMA ElsewhereInv ==
  ASSUME ViewersInv,
         \/ \E p \in Page : Open(p) \/ Close(p) \/ Beat(p) \/ Leave(p) \/ Settle(p)
         \/ \E p \in Page, wish \in BOOLEAN : Done(p, wish)
         \/ \E ch \in Channel : Ask(ch) \/ Apply(ch) \/ Lose(ch)
         \/ \E b \in BOOLEAN, arrives \in BOOLEAN : PushEnds(b, arrives)
         \/ UNCHANGED vars
  PROVE  ViewersInv'
<1> USE DEF ViewersInv
<1>1. viewers' = viewers /\ told' = told
  BY DEF Open, Close, Beat, Leave, Settle, Done, Ask, Apply, Lose, PushEnds, vars
<1>2. LastPushWakes'
  BY <1>1 DEF LastPushWakes
<1>3. ASSUME NEW p \in Page, Open(p) \/ Close(p) \/ Beat(p) \/ Leave(p) \/ Settle(p)
      PROVE  TypeOK'
  BY <1>3, PageTypes
<1>4. ASSUME NEW p \in Page, NEW wish \in BOOLEAN, Done(p, wish) PROVE TypeOK'
  <2>1. post' \in [Page \X BOOLEAN -> {"none", "sent", "served"}]
    BY <1>4 DEF TypeOK, Done
  <2> QED
    BY <1>4, <2>1 DEF TypeOK, Done
<1>5. ASSUME NEW ch \in Channel, Ask(ch) \/ Apply(ch) \/ Lose(ch) PROVE TypeOK'
  <2>1. UNCHANGED <<pages, viewers, notices, told>>
    BY <1>5 DEF Ask, Apply, Lose
  <2>2. talk' \in [Channel -> {"none", "asked", "on", "off"}]
    BY <1>5 DEF TypeOK, Ask, Apply, Lose
  <2>3. prefs' \in BOOLEAN
    BY <1>5 DEF TypeOK, Ask, Apply, Lose
  <2> QED
    BY <2>1, <2>2, <2>3 DEF TypeOK, pages
<1>6. ASSUME NEW b \in BOOLEAN, NEW arrives \in BOOLEAN, PushEnds(b, arrives) PROVE TypeOK'
  <2>1. notices' \in [BOOLEAN -> 0 .. MaxNotices]
    BY <1>6 DEF TypeOK, PushEnds
  <2>2. prefs' \in BOOLEAN
    BY <1>6 DEF TypeOK, PushEnds
  <2> QED
    BY <1>6, <2>1, <2>2 DEF TypeOK, PushEnds, pages
<1>7. CASE UNCHANGED vars
  BY <1>2, <1>7 DEF TypeOK, vars
<1> QED
  BY <1>2, <1>3, <1>4, <1>5, <1>6, <1>7

\* No step breaks the invariant.
LEMMA NextInv == ViewersInv /\ [Next]_vars => ViewersInv'
BY ServeInv, AgeingInv, ElsewhereInv DEF Next

\* It holds in every state of every behaviour.
LEMMA ViewersInvariance == Spec => []ViewersInv
<1>1. Init => ViewersInv
  BY InitInv
<1>2. ViewersInv /\ [Next]_vars => ViewersInv'
  BY NextInv
<1> QED
  BY <1>1, <1>2, PTL DEF Spec

\* Everything is where the code can leave it.
THEOREM TypeCorrect == Spec => []TypeOK
<1>1. ViewersInv => TypeOK
  BY DEF ViewersInv
<1> QED
  BY <1>1, ViewersInvariance, PTL

\* For any number of pages, of which some come, some leave and some are
\* forgotten between two posts: the last push of api_preview_viewer woke the
\* camera while a viewer counts.
THEOREM CameraStaysWoken == Spec => []LastPushWakes
<1>1. ViewersInv => LastPushWakes
  BY DEF ViewersInv
<1> QED
  BY <1>1, ViewersInvariance, PTL

-----------------------------------------------------------------------------
(* The door. *)

\* A status that is closed without a recalibration was read, since the start
\* of the server and the last recalibration.
ClosedIsRead == phase = "none" /\ ~ignore /\ status = "closed" => rest

DoorInv == Door!TypeOK /\ Door!ShowsNewest /\ ClosedIsRead

DoorKept == DoorInv' /\ Door!ClosedSeen

\* At the start the sensor shows nothing.
LEMMA DoorInit == Door!Init => DoorInv
<1> SUFFICES ASSUME Door!Init PROVE DoorInv
  OBVIOUS
<1> USE DEF Door!Init
<1>1. Door!TypeOK
  <2>1. net \in Seq(Door!Message) /\ Len(net) <= MaxNet
    OBVIOUS
  <2> QED
    BY <2>1 DEF Door!TypeOK, Door!Reading
<1> QED
  BY <1>1 DEF DoorInv, Door!ShowsNewest, ClosedIsRead

\* What a worker takes on is its own affair.
LEMMA DoorWork ==
  ASSUME Door!TypeOK, NEW w \in Worker, NEW e \in Door!Reading \cup {"idle", "reply"},
         work' = [work EXCEPT ![w] = e]
  PROVE  /\ work' \in [Worker -> Door!Reading \cup {"idle", "reply"}]
         /\ \A v \in Worker : work[v] # "open" /\ work'[v] = "open" => e = "open"
BY DEF Door!TypeOK

\* The phone and the network.
LEMMA DoorPhone ==
  ASSUME DoorInv, Door!Move \/ Door!Post \/ Door!Obey \/ Door!Settle \/ (\E i \in DOMAIN net : Door!Lose(i))
  PROVE  DoorKept
<1> USE DEF DoorInv, Door!sensor, Door!sound, Door!history, Door!bounds, Door!phone
<1>1. UNCHANGED <<status, phase, due, ignore, calibrating, pending, work, registered, ticking,
                  fired, newest, rest>>
  BY DEF Door!Move, Door!Post, Door!Obey, Door!Settle, Door!Lose
<1>2. net' \in Seq(Door!Message) /\ Len(net') <= MaxNet
  <2>1. net \in Seq(Door!Message) /\ Len(net) <= MaxNet /\ Len(net) \in Nat
    BY DEF Door!TypeOK
  <2>2. CASE Door!Post
    <3>1. [door |-> door, calibrates |-> calibrates, stale |-> FALSE] \in Door!Message
      BY DEF Door!TypeOK, Door!Message
    <3> QED
      BY <2>1, <2>2, <3>1 DEF Door!Post
  <2>3. ASSUME NEW i \in DOMAIN net, Door!Lose(i) PROVE net' \in Seq(Door!Message) /\ Len(net') <= MaxNet
    <3>1. i \in 1 .. Len(net)
      BY <2>1
    <3>2. SubSeq(net, 1, i - 1) \in Seq(Door!Message) /\ Len(SubSeq(net, 1, i - 1)) = i - 1
      BY <2>1, <3>1
    <3>3. SubSeq(net, i + 1, Len(net)) \in Seq(Door!Message) /\ Len(SubSeq(net, i + 1, Len(net))) = Len(net) - i
      BY <2>1, <3>1
    <3> DEFINE u == SubSeq(net, 1, i - 1)
               v == SubSeq(net, i + 1, Len(net))
    <3>4. net' = u \o v
      BY <2>3 DEF Door!Lose, Door!RemoveAt
    <3> HIDE DEF u, v
    <3>5. u \o v \in Seq(Door!Message) /\ Len(u \o v) = Len(u) + Len(v)
      BY <3>2, <3>3 DEF u, v
    <3>6. Len(u) + Len(v) <= MaxNet
      BY <2>1, <3>1, <3>2, <3>3 DEF u, v
    <3> QED
      BY <3>4, <3>5, <3>6
  <2> QED
    BY <2>1, <2>2, <2>3 DEF Door!Move, Door!Obey, Door!Settle
<1>3. door' \in Door!Reading /\ {calibrates', doorTold'} \subseteq BOOLEAN
  BY DEF Door!TypeOK, Door!Move, Door!Post, Door!Obey, Door!Settle, Door!Lose
<1>4. Door!TypeOK'
  BY <1>1, <1>2, <1>3 DEF Door!TypeOK
<1> QED
  BY <1>1, <1>4 DEF DoorKept, Door!ShowsNewest, ClosedIsRead, Door!ClosedSeen

\* The messages behind the one that is handled stay, those before it are stale.
LEMMA DoorReceived ==
  ASSUME Door!TypeOK, NEW i \in DOMAIN net, Door!Received(i)
  PROVE  net' \in Seq(Door!Message) /\ Len(net') <= MaxNet
<1>1. net \in Seq(Door!Message) /\ Len(net) <= MaxNet /\ Len(net) \in Nat /\ i \in 1 .. Len(net)
  BY DEF Door!TypeOK
<1>2. Len(net) - 1 \in Nat
  BY <1>1
<1>3. ASSUME NEW j \in 1 .. Len(net) - 1
      PROVE  (IF j < i THEN [net[j] EXCEPT !.stale = TRUE] ELSE net[j + 1]) \in Door!Message
  <2>1. net[j] \in Door!Message /\ net[j + 1] \in Door!Message
    BY <1>1
  <2>2. [net[j] EXCEPT !.stale = TRUE] \in Door!Message
    BY <2>1 DEF Door!Message
  <2> QED
    BY <2>1, <2>2
<1>4. net' \in [1 .. Len(net) - 1 -> Door!Message]
  BY <1>3 DEF Door!Received
<1> QED
  BY <1>1, <1>2, <1>4

\* A message that is in order: what the phone saw last is what the sensor shows.
LEMMA DoorAccept ==
  ASSUME DoorInv, NEW w \in Worker, NEW m \in Door!Message, work[w] = "idle",
         Door!Accept(m, w), Door!Witness(m), ~m.stale,
         net' \in Seq(Door!Message) /\ Len(net') <= MaxNet,
         UNCHANGED <<door, calibrates, doorTold, pending, fired>>
  PROVE  DoorKept
<1> USE DEF DoorInv, Door!Lapsed, Door!Reading
<1>0. Door!TypeOK /\ m.door \in Door!Reading /\ m.calibrates \in BOOLEAN
  BY DEF Door!Message
<1> DEFINE Silent == UNCHANGED <<registered, ticking>> \/ Door!CancelSound
<1>1. Silent => /\ ticking' \cup fired' \subseteq Timer /\ ticking' \cap fired' = {}
                /\ registered' \in ticking' \cup fired' \cup {None}
  BY <1>0 DEF Door!TypeOK, Door!CancelSound
<1>2. ASSUME work' = [work EXCEPT ![w] = "reply"]
      PROVE  /\ work' \in [Worker -> Door!Reading \cup {"idle", "reply"}]
             /\ Door!ClosedSeen
  BY <1>0, <1>2, DoorWork DEF Door!ClosedSeen
<1>3. ASSUME NEW p \in {"requested", "calibrating"}, NEW b \in BOOLEAN, Door!Hold(p, b),
             work' = [work EXCEPT ![w] = "reply"]
      PROVE  DoorKept
  <2> USE <1>3 DEF Door!Hold
  <2>1. Door!TypeOK'
    BY <1>0, <1>2 DEF Door!TypeOK, Door!Witness
  <2> QED
    BY <1>2, <2>1 DEF DoorKept, Door!ShowsNewest, ClosedIsRead
<1>4. ASSUME Door!ClearPhase, Silent, work' = [work EXCEPT ![w] = "reply"]
      PROVE  DoorKept
  <2> USE <1>4 DEF Door!ClearPhase
  <2>1. Door!TypeOK'
    BY <1>0, <1>1, <1>2 DEF Door!TypeOK, Door!Witness
  <2> QED
    BY <1>2, <2>1 DEF DoorKept, Door!ShowsNewest, ClosedIsRead
<1>5. ASSUME phase = "none" \/ (phase = "requested" /\ Door!Lapsed), phase' = "none", due' = FALSE,
             UNCHANGED calibrating, ignore /\ m.door = "open", status' = "closed",
             UNCHANGED <<ignore, registered, ticking>>, work' = [work EXCEPT ![w] = "reply"]
      PROVE  DoorKept
  <2>1. Door!TypeOK'
    BY <1>0, <1>1, <1>2, <1>5 DEF Door!TypeOK, Door!Witness
  <2> QED
    BY <1>2, <1>5, <2>1 DEF DoorKept, Door!ShowsNewest, ClosedIsRead
<1>6. ASSUME phase = "none" \/ (phase = "requested" /\ Door!Lapsed), phase' = "none", due' = FALSE,
             UNCHANGED calibrating, ~(ignore /\ m.door = "open"), status' = m.door, ignore' = FALSE,
             Silent, work' = [work EXCEPT ![w] = Door!Transition(Door!Previous, m.door)]
      PROVE  DoorKept
  <2> DEFINE e == Door!Transition(Door!Previous, m.door)
  <2>1. e \in Door!Reading \cup {"reply"}
    BY <1>0 DEF Door!Transition
  <2>2. e = "open" => phase = "none" /\ status = "closed" /\ m.door = "open"
    BY <1>0, <1>6 DEF Door!Transition, Door!Previous
  <2> HIDE DEF e
  <2>3. work' = [work EXCEPT ![w] = e]
    BY <1>6 DEF e
  <2>4. /\ work' \in [Worker -> Door!Reading \cup {"idle", "reply"}]
        /\ \A v \in Worker : work[v] # "open" /\ work'[v] = "open" => e = "open"
    BY <1>0, <2>1, <2>3, DoorWork
  <2>5. e = "open" => rest'
    BY <1>6, <2>2 DEF ClosedIsRead, Door!Witness
  <2>6. Door!ClosedSeen
    BY <2>4, <2>5 DEF Door!ClosedSeen
  <2>7. rest' \in BOOLEAN /\ newest' = m.door
    BY <1>0 DEF Door!Witness
  <2>8. Door!TypeOK'
    BY <1>0, <1>1, <1>6, <2>4, <2>7 DEF Door!TypeOK
  <2>9. (status' = "closed" => rest') /\ status' = newest'
    BY <1>6, <2>7 DEF Door!Witness
  <2> QED
    BY <2>6, <2>8, <2>9 DEF DoorKept, Door!ShowsNewest, ClosedIsRead
<1> QED
  BY <1>0, <1>3, <1>4, <1>5, <1>6 DEF Door!Accept

\* A message is handled.
LEMMA DoorHandle ==
  ASSUME DoorInv, NEW w \in Worker, NEW i \in DOMAIN net, Door!Handle(w, i)
  PROVE  DoorKept
<1> USE DEF DoorInv, Door!phone, Door!sensor, Door!history, Door!bounds
<1>1. net[i] \in Door!Message
  BY DEF Door!TypeOK
<1>2. net' \in Seq(Door!Message) /\ Len(net') <= MaxNet
  BY DoorReceived DEF Door!Handle
<1>3. CASE Door!Ordered(net[i])
  BY <1>1, <1>2, <1>3, DoorAccept DEF Door!Handle, Door!Ordered
<1>4. CASE ~Door!Ordered(net[i])
  <2>1. /\ work' = [work EXCEPT ![w] = "reply"]
        /\ UNCHANGED <<door, calibrates, doorTold, status, phase, due, ignore, calibrating, pending,
                       registered, ticking, fired, newest, rest>>
    BY <1>4 DEF Door!Handle
  <2>2. work' \in [Worker -> Door!Reading \cup {"idle", "reply"}] /\ Door!ClosedSeen
    BY <2>1, DoorWork DEF Door!ClosedSeen
  <2>3. Door!TypeOK'
    BY <1>2, <2>1, <2>2 DEF Door!TypeOK
  <2> QED
    BY <2>1, <2>2, <2>3 DEF DoorKept, Door!ShowsNewest, ClosedIsRead
<1> QED
  BY <1>3, <1>4

\* The request after it left the lock, and what the dashboard, the deadlines
\* and the timers do.
LEMMA DoorOthers ==
  ASSUME DoorInv,
         \/ \E w \in Worker : Door!Fire(w) \/ Door!Reply(w)
         \/ Door!CameraPoll \/ Door!QueueSetting \/ Door!QueueRecalibration \/ Door!Expire
         \/ Door!Restart \/ \E t \in Timer : Door!TimerFires(t) \/ Door!Repeat(t)
  PROVE  DoorKept
<1> USE DEF DoorInv, Door!phone, Door!sensor, Door!sound, Door!history, Door!bounds, Door!Reading
<1>1. ASSUME NEW w \in Worker, Door!Fire(w) PROVE DoorKept
  <2>1. /\ ticking' \cup fired' \subseteq Timer /\ ticking' \cap fired' = {}
        /\ registered' \in ticking' \cup fired' \cup {None}
    BY <1>1 DEF Door!TypeOK, Door!Fire, Door!CancelSound, Door!Schedule
  <2>2. work' \in [Worker -> Door!Reading \cup {"idle", "reply"}] /\ Door!ClosedSeen
    BY <1>1, DoorWork DEF Door!Fire, Door!ClosedSeen
  <2> QED
    BY <1>1, <2>1, <2>2 DEF Door!Fire, DoorKept, Door!TypeOK, Door!ShowsNewest, ClosedIsRead
<1>2. ASSUME NEW w \in Worker, Door!Reply(w) PROVE DoorKept
  <2>1. work' \in [Worker -> Door!Reading \cup {"idle", "reply"}] /\ Door!ClosedSeen
    BY <1>2, DoorWork DEF Door!Reply, Door!ClosedSeen
  <2>2. doorTold' \in BOOLEAN
    BY <1>2 DEF Door!Reply, Door!TypeOK
  <2> QED
    BY <1>2, <2>1, <2>2 DEF Door!Reply, DoorKept, Door!TypeOK, Door!ShowsNewest, ClosedIsRead
<1>3. CASE Door!CameraPoll \/ Door!QueueSetting
  BY <1>3 DEF Door!CameraPoll, Door!LeftBehind, Door!QueueSetting, DoorKept, Door!TypeOK,
              Door!ShowsNewest, ClosedIsRead, Door!ClosedSeen
<1>4. CASE Door!QueueRecalibration
  <2>1. /\ ticking' \cup fired' \subseteq Timer /\ ticking' \cap fired' = {}
        /\ registered' \in ticking' \cup fired' \cup {None}
    BY <1>4 DEF Door!TypeOK, Door!QueueRecalibration, Door!CancelSound
  <2> QED
    BY <1>4, <2>1 DEF Door!QueueRecalibration, DoorKept, Door!TypeOK, Door!ShowsNewest,
                      ClosedIsRead, Door!ClosedSeen
<1>5. CASE Door!Expire
  BY <1>5 DEF Door!Expire, DoorKept, Door!TypeOK, Door!ShowsNewest, ClosedIsRead, Door!ClosedSeen
<1>6. CASE Door!Restart
  <2>1. <<>> \in Seq(Door!Message) /\ Len(<<>>) <= MaxNet
    OBVIOUS
  <2> QED
    BY <1>6, <2>1 DEF Door!Restart, DoorKept, Door!TypeOK, Door!ShowsNewest, ClosedIsRead, Door!ClosedSeen
<1>7. ASSUME NEW t \in Timer, Door!TimerFires(t) \/ Door!Repeat(t) PROVE DoorKept
  <2>1. /\ ticking' \cup fired' \subseteq Timer /\ ticking' \cap fired' = {}
        /\ registered' \in ticking' \cup fired' \cup {None}
    BY <1>7 DEF Door!TypeOK, Door!TimerFires, Door!Repeat
  <2>2. UNCHANGED <<door, calibrates, doorTold, net, status, phase, due, ignore, calibrating, pending,
                    work, newest, rest>>
    BY <1>7 DEF Door!TimerFires, Door!Repeat
  <2> QED
    BY <2>1, <2>2 DEF DoorKept, Door!TypeOK, Door!ShowsNewest, ClosedIsRead, Door!ClosedSeen
<1> QED
  BY <1>1, <1>2, <1>3, <1>4, <1>5, <1>6, <1>7

\* No step of the door breaks the invariant, nor fires an opening that was none.
LEMMA DoorNext == DoorInv /\ [Door!Next]_(Door!vars) => DoorKept
<1>1. DoorInv /\ UNCHANGED (Door!vars) => DoorKept
  BY DEF Door!vars, Door!phone, Door!sensor, Door!sound, Door!history, Door!bounds, DoorInv, DoorKept,
         Door!TypeOK, Door!ShowsNewest, ClosedIsRead, Door!ClosedSeen
<1> QED
  BY <1>1, DoorPhone, DoorHandle, DoorOthers DEF Door!Next

-----------------------------------------------------------------------------
(* The talk. *)

TalkPhases == Talk!Waits \cup {"unused", "live", "stopped", "over"}

\* What the page holds: a camera's open talk is about that camera, and waits or
\* goes on; who waits or goes on has a camera.
TalkPage ==
  /\ camera \in [Run -> Camera \cup {None}] /\ at \in [Run -> TalkPhases]
  /\ open \in [Camera -> Run \cup {None}]
  /\ \A c \in Camera : open[c] # None => camera[open[c]] = c /\ at[open[c]] \in {"offer", "live"}
  /\ requested \in [Camera -> BOOLEAN] /\ lit \in [Camera -> BOOLEAN] /\ gone \in BOOLEAN
  /\ talkNotices \subseteq Run
  /\ \A r \in Run : at[r] \notin {"unused", "over"} => camera[r] \in Camera

\* What the server and the phone hold: the phone takes part in sessions that
\* were created, and reports only then; a session that was over before stays so.
TalkSessions ==
  /\ state \in [Run -> Talk!Terminal \cup {"none", "requested", "offered", "answered", "connected"}]
  /\ phone \in [Run -> {"none", "talking", "connected", "over"}]
  /\ answered \subseteq Run /\ linked \subseteq answered /\ early \subseteq Run
  /\ push \subseteq Run \X {"request", "end"}
  /\ reports \subseteq Run \X {"answer", "connected", "ended"}
  /\ \A r \in Run : state[r] = "none" => phone[r] = "none"
  /\ \A r \in Run, what \in {"answer", "connected", "ended"} : <<r, what>> \in reports => phone[r] # "none"
  /\ \A r \in early : phone[r] = "none" /\ state[r] \in Talk!Terminal

\* A run that has no session yet has none at the server.
TalkStarts == \A r \in Run : at[r] \in {"unused", "microphone", "session"} => state[r] = "none"

TalkInv == TalkPage /\ TalkSessions /\ TalkStarts

\* At first there is no talk.
LEMMA TalkInit == Talk!Init => TalkInv
BY ZenonT(30) DEF Talk!Init, TalkInv, TalkPage, TalkSessions, TalkStarts, TalkPhases, Talk!Waits

\* Those whose talk is stopped.
LEMMA TalkReleased ==
  ASSUME TalkPage, NEW C \in SUBSET Camera
  PROVE  /\ Talk!Opened(C) \subseteq Run
         /\ Talk!Released(Talk!Opened(C)) \in [Run -> TalkPhases]
         /\ \A q \in Run :
              \/ Talk!Released(Talk!Opened(C))[q] = at[q] /\ q \notin Talk!Opened(C)
              \/ /\ Talk!Released(Talk!Opened(C))[q] = "over" /\ camera[q] \in C
              \/ /\ Talk!Released(Talk!Opened(C))[q] = "stopped" /\ at[q] = "offer" /\ camera[q] \in C
<1>1. Talk!Opened(C) \subseteq Run /\ \A q \in Talk!Opened(C) : camera[q] \in C
  BY DEF TalkPage, Talk!Opened
<1> DEFINE R == Talk!Opened(C)
<1> HIDE DEF R
<1>2. R \subseteq Run /\ \A q \in R : camera[q] \in C
  BY <1>1 DEF R
<1>3. /\ Talk!Released(R) \in [Run -> TalkPhases]
      /\ \A q \in Run :
           \/ Talk!Released(R)[q] = at[q] /\ q \notin R
           \/ /\ Talk!Released(R)[q] = "over" /\ camera[q] \in C
           \/ /\ Talk!Released(R)[q] = "stopped" /\ at[q] = "offer" /\ camera[q] \in C
  BY <1>2 DEF TalkPage, Talk!Released, TalkPhases
<1> QED
  BY <1>1, <1>3 DEF R

\* Stopping the talks of some cameras leaves those of the others.
LEMMA TalkStop ==
  ASSUME TalkPage, TalkStarts, NEW C \in SUBSET Camera, NEW notify \in BOOLEAN, Talk!Stop(C, notify),
         at' \in [Run -> TalkPhases], camera' = camera, gone' \in BOOLEAN, state' = state,
         \A q \in Run :
           \/ at'[q] = at[q]
           \/ at'[q] = "over" /\ (camera[q] \in C \/ C = Camera)
           \/ at'[q] = "stopped" /\ at[q] = "offer" /\ camera[q] \in C
  PROVE  TalkPage' /\ TalkStarts'
<1>1. talkNotices' \subseteq Run
  BY TalkReleased DEF Talk!Stop, TalkPage
<1>2. requested' \in [Camera -> BOOLEAN] /\ lit' \in [Camera -> BOOLEAN]
  BY DEF Talk!Stop, TalkPage
<1>3. open' \in [Camera -> Run \cup {None}]
  BY DEF Talk!Stop, TalkPage
<1>4. ASSUME NEW c \in Camera, open'[c] # None
      PROVE  camera'[open'[c]] = c /\ at'[open'[c]] \in {"offer", "live"}
  <2>1. c \notin C /\ open'[c] = open[c]
    BY <1>4 DEF Talk!Stop
  <2>2. open[c] \in Run /\ camera[open[c]] = c /\ at[open[c]] \in {"offer", "live"}
    BY <1>4, <2>1 DEF TalkPage
  <2> QED
    BY <2>1, <2>2
<1>5. \A r \in Run : at'[r] \notin {"unused", "over"} => camera'[r] \in Camera
  BY DEF TalkPage
<1>6. TalkStarts'
  BY DEF TalkStarts
<1> QED
  BY <1>1, <1>2, <1>3, <1>4, <1>5, <1>6 DEF TalkPage

\* Stopping the talk of one camera, and maybe a run that is over with it.
LEMMA TalkStopOne ==
  ASSUME TalkPage, TalkStarts, NEW c \in Camera, NEW notify \in BOOLEAN, Talk!Stop({c}, notify),
         camera' = camera, gone' = gone, state' = state,
         \/ at' = Talk!Released(Talk!Opened({c}))
         \/ \E r \in Run : /\ camera[r] = c
                          /\ at' = [Talk!Released(Talk!Opened({c})) EXCEPT ![r] = "over"]
  PROVE  TalkPage' /\ TalkStarts'
<1> DEFINE C == {c}
           released == Talk!Released(Talk!Opened(C))
<1>1. C \in SUBSET Camera /\ c \in C /\ Talk!Stop(C, notify) /\ gone' \in BOOLEAN
  BY DEF TalkPage
<1>2. \/ at' = released
      \/ \E r \in Run : camera[r] \in C /\ at' = [released EXCEPT ![r] = "over"]
  OBVIOUS
<1> HIDE DEF C
<1>3. /\ released \in [Run -> TalkPhases]
      /\ \A q \in Run : \/ released[q] = at[q]
                        \/ released[q] = "over" /\ camera[q] \in C
                        \/ released[q] = "stopped" /\ at[q] = "offer" /\ camera[q] \in C
  BY <1>1, TalkReleased
<1> HIDE DEF released
<1>4. /\ at' \in [Run -> TalkPhases]
      /\ \A q \in Run : \/ at'[q] = at[q]
                        \/ at'[q] = "over" /\ camera[q] \in C
                        \/ at'[q] = "stopped" /\ at[q] = "offer" /\ camera[q] \in C
  <2>1. CASE at' = released
    BY <1>3, <2>1
  <2>2. ASSUME NEW r \in Run, camera[r] \in C, at' = [released EXCEPT ![r] = "over"]
        PROVE  /\ at' \in [Run -> TalkPhases]
               /\ \A q \in Run : \/ at'[q] = at[q]
                                 \/ at'[q] = "over" /\ camera[q] \in C
                                 \/ at'[q] = "stopped" /\ at[q] = "offer" /\ camera[q] \in C
    BY <1>3, <2>2 DEF TalkPhases
  <2> QED
    BY <1>2, <2>1, <2>2
<1> QED
  BY <1>1, <1>4, TalkStop

\* The page stops talks: a click, a failure, a poll, a deadline, or it is left.
LEMMA TalkStopSteps ==
  ASSUME TalkInv,
         \/ \E c \in Camera : Talk!ToggleOff(c)
         \/ \E r \in Run : Talk!Fail(r) \/ Talk!Poll(r) \/ Talk!ConnectTimeout(r)
         \/ Talk!PageHide
  PROVE  TalkInv'
<1> USE DEF TalkInv, Talk!server
<1>1. ASSUME NEW c \in Camera, Talk!ToggleOff(c) PROVE TalkInv'
  <2>1. TalkPage' /\ TalkStarts'
    BY <1>1, TalkStopOne DEF Talk!ToggleOff
  <2> QED
    BY <1>1, <2>1 DEF Talk!ToggleOff, TalkSessions
<1>2. ASSUME NEW r \in Run, Talk!Fail(r) PROVE TalkInv'
  <2>1. camera[r] \in Camera
    BY <1>2 DEF Talk!Fail, TalkPage
  <2>2. TalkPage' /\ TalkStarts'
    BY <1>2, <2>1, TalkStopOne DEF Talk!Fail
  <2> QED
    BY <1>2, <2>2 DEF Talk!Fail, TalkSessions
<1>3. ASSUME NEW r \in Run, Talk!ConnectTimeout(r) PROVE TalkInv'
  <2>1. camera[r] \in Camera
    BY <1>3 DEF Talk!ConnectTimeout, TalkPage
  <2>2. TalkPage' /\ TalkStarts'
    BY <1>3, <2>1, TalkStopOne DEF Talk!ConnectTimeout
  <2> QED
    BY <1>3, <2>2 DEF Talk!ConnectTimeout, TalkSessions
<1>4. ASSUME NEW r \in Run, Talk!Poll(r) PROVE TalkInv'
  <2>1. camera[r] \in Camera
    BY <1>4 DEF Talk!Poll, TalkPage
  <2>2. CASE state[r] \in Talk!Terminal
    <3>1. TalkPage' /\ TalkStarts'
      BY <1>4, <2>1, <2>2, TalkStopOne DEF Talk!Poll
    <3> QED
      BY <1>4, <2>2, <3>1 DEF Talk!Poll, TalkSessions
  <2>3. CASE state[r] \notin Talk!Terminal
    BY <1>4, <2>3 DEF Talk!Poll, TalkPage, TalkSessions, TalkStarts
  <2> QED
    BY <2>2, <2>3
<1>5. CASE Talk!PageHide
  <2>1. TalkPage' /\ TalkStarts'
    BY <1>5, TalkStop DEF Talk!PageHide, TalkPage, TalkPhases
  <2> QED
    BY <1>5, <2>1 DEF Talk!PageHide, TalkSessions
<1> QED
  BY <1>1, <1>2, <1>3, <1>4, <1>5

\* A run starts, gets the microphone, a session, and its offer taken.
LEMMA TalkStartSteps ==
  ASSUME TalkInv, NEW r \in Run,
         \/ \E c \in Camera : Talk!ToggleOn(c, r)
         \/ Talk!MicrophoneGranted(r) \/ Talk!SessionCreated(r) \/ Talk!OfferPosted(r)
  PROVE  TalkInv'
<1> USE DEF TalkInv, Talk!server
<1>1. ASSUME NEW c \in Camera, Talk!ToggleOn(c, r) PROVE TalkInv'
  <2> DEFINE released == Talk!Released(Talk!Opened(Camera))
  <2>1. at' = [released EXCEPT ![r] = "microphone"] /\ camera' = [camera EXCEPT ![r] = c]
    BY <1>1 DEF Talk!ToggleOn
  <2>2. /\ released \in [Run -> TalkPhases]
        /\ \A q \in Run : released[q] = at[q] \/ released[q] \in {"over", "stopped"}
        /\ \A q \in Run : released[q] = "stopped" => camera[q] \in Camera
    <3> DEFINE C == Camera
    <3>1. C \in SUBSET Camera /\ released = Talk!Released(Talk!Opened(C))
      OBVIOUS
    <3> HIDE DEF C, released
    <3> QED
      BY <3>1, TalkReleased DEF TalkPage, C
  <2> HIDE DEF released
  <2>3. /\ at' \in [Run -> TalkPhases] /\ camera' \in [Run -> Camera \cup {None}]
        /\ \A q \in Run : at'[q] \notin {"unused", "over"} => camera'[q] \in Camera
        /\ \A q \in Run : q # r => at'[q] = at[q] \/ at'[q] \in {"over", "stopped"}
    BY <2>1, <2>2 DEF TalkPage, TalkPhases, Talk!Waits
  <2>4. talkNotices' \subseteq Run
    BY <1>1, TalkReleased DEF Talk!ToggleOn, TalkPage
  <2>5. TalkPage'
    BY <1>1, <2>3, <2>4 DEF Talk!ToggleOn, TalkPage
  <2>6. TalkStarts'
    BY <1>1, <2>3 DEF Talk!ToggleOn, TalkStarts
  <2> QED
    BY <1>1, <2>5, <2>6 DEF Talk!ToggleOn, TalkSessions
<1>2. CASE Talk!MicrophoneGranted(r)
  <2>1. TalkPage'
    BY <1>2 DEF Talk!MicrophoneGranted, TalkPage, TalkPhases, Talk!Waits
  <2> QED
    BY <1>2, <2>1 DEF Talk!MicrophoneGranted, TalkSessions, TalkStarts, TalkPage
<1>3. CASE Talk!SessionCreated(r)
  <2>1. camera[r] \in Camera /\ state[r] = "none" /\ r \notin early
    BY <1>3 DEF Talk!SessionCreated, TalkPage, TalkStarts, TalkSessions, Talk!Terminal
  <2>2. TalkPage'
    BY <1>3, <2>1 DEF Talk!SessionCreated, TalkPage, TalkPhases, Talk!Waits
  <2>3. TalkSessions'
    BY <1>3, <2>1 DEF Talk!SessionCreated, TalkSessions
  <2>4. TalkStarts'
    BY <1>3 DEF Talk!SessionCreated, TalkPage, TalkStarts, TalkSessions
  <2> QED
    BY <2>2, <2>3, <2>4
<1>4. CASE Talk!OfferPosted(r)
  <2>1. camera[r] \in Camera /\ r \notin early
    BY <1>4 DEF Talk!OfferPosted, TalkPage, TalkSessions
  <2>2. TalkPage'
    BY <1>4, <2>1 DEF Talk!OfferPosted, TalkPage, TalkPhases
  <2>3. TalkSessions'
    BY <1>4, <2>1 DEF Talk!OfferPosted, TalkSessions
  <2>4. TalkStarts'
    BY <1>4 DEF Talk!OfferPosted, TalkPage, TalkStarts, TalkSessions
  <2> QED
    BY <2>2, <2>3, <2>4
<1> QED
  BY <1>1, <1>2, <1>3, <1>4

\* The server ends sessions, the phone takes part and reports, messages are lost.
LEMMA TalkElsewhere ==
  ASSUME TalkInv,
         \/ \E r \in Run : \/ Talk!NoticeArrives(r) \/ Talk!NoticeLost(r) \/ Talk!Expire(r)
                           \/ Talk!Claim(r) \/ Talk!RequestDropped(r) \/ Talk!Connect(r)
                           \/ Talk!HangUp(r) \/ Talk!PhoneFails(r)
         \/ \E r \in Run, what \in {"answer", "connected", "ended"} : Talk!ReportArrives(r, what)
         \/ \E m \in push : Talk!PushLost(m)
  PROVE  TalkInv'
<1> USE DEF TalkInv, Talk!server, Talk!page
<1>1. UNCHANGED <<camera, at, open, requested, lit, gone>> /\ talkNotices' \subseteq Run
  BY DEF TalkPage, Talk!NoticeArrives, Talk!NoticeLost, Talk!Expire, Talk!Claim, Talk!RequestDropped,
         Talk!Connect, Talk!HangUp, Talk!PhoneFails, Talk!ReportArrives, Talk!PushLost
<1>2. TalkPage'
  BY <1>1 DEF TalkPage
<1>3. ASSUME NEW r \in Run, NEW s \in Talk!Terminal, state[r] # "none", Talk!End(r, s)
      PROVE  /\ state' \in [Run -> Talk!Terminal \cup {"none", "requested", "offered", "answered", "connected"}]
             /\ early' \subseteq Run /\ \A q \in early' : phone[q] = "none" /\ state'[q] \in Talk!Terminal
             /\ \A q \in Run : state'[q] = "none" <=> state[q] = "none"
  BY <1>3 DEF Talk!End, TalkSessions, Talk!Terminal
<1>4. ASSUME NEW r \in Run, Talk!NoticeArrives(r) PROVE TalkSessions' /\ TalkStarts'
  <2>1. CASE state[r] = "none"
    BY <1>1, <1>4, <2>1 DEF Talk!NoticeArrives, TalkSessions, TalkStarts
  <2>2. CASE state[r] # "none"
    <3>1. Talk!End(r, "ended")
      BY <1>4, <2>2 DEF Talk!NoticeArrives
    <3>2. push' \subseteq Run \X {"request", "end"} /\ UNCHANGED <<answered, linked, phone, reports>>
      BY <1>4, <2>2 DEF Talk!NoticeArrives, TalkSessions
    <3> QED
      BY <1>1, <1>3, <2>2, <3>1, <3>2 DEF TalkSessions, TalkStarts, Talk!Terminal
  <2> QED
    BY <2>1, <2>2
<1>5. ASSUME NEW r \in Run, Talk!Expire(r) PROVE TalkSessions' /\ TalkStarts'
  <2>1. Talk!End(r, "expired") /\ state[r] # "none"
    BY <1>5 DEF Talk!Expire, Talk!Expires
  <2>2. UNCHANGED <<push, answered, linked, phone, reports>>
    BY <1>5 DEF Talk!Expire
  <2> QED
    BY <1>1, <1>3, <2>1, <2>2 DEF TalkSessions, TalkStarts, Talk!Terminal
<1>6. ASSUME NEW r \in Run, Talk!Claim(r) PROVE TalkSessions' /\ TalkStarts'
  <2>1. state[r] # "none" /\ r \notin early
    BY <1>6 DEF Talk!Claim, Talk!MayClaim, TalkSessions
  <2>2. push' \subseteq push /\ phone' = [phone EXCEPT ![r] = "talking"]
        /\ reports' = reports \cup {<<r, "answer">>} /\ UNCHANGED <<state, answered, early, linked>>
    BY <1>6 DEF Talk!Claim
  <2> QED
    BY <1>1, <2>1, <2>2 DEF TalkSessions, TalkStarts
<1>7. ASSUME NEW r \in Run, Talk!Connect(r) \/ Talk!HangUp(r) \/ Talk!PhoneFails(r)
      PROVE  TalkSessions' /\ TalkStarts'
  <2>1. push' \subseteq push /\ UNCHANGED <<state, answered, early, linked>>
    BY <1>7 DEF Talk!Connect, Talk!HangUp, Talk!PhoneFails
  <2>2. \/ UNCHANGED <<phone, reports>>
        \/ /\ phone[r] # "none"
           /\ \E p \in {"connected", "over"} : phone' = [phone EXCEPT ![r] = p]
           /\ \E what \in {"connected", "ended"} : reports' = reports \cup {<<r, what>>}
    BY <1>7 DEF Talk!Connect, Talk!HangUp, Talk!PhoneFails
  <2> QED
    BY <1>1, <2>1, <2>2 DEF TalkSessions, TalkStarts
<1>8. ASSUME NEW r \in Run, Talk!NoticeLost(r) \/ Talk!RequestDropped(r) \/ \E m \in push : Talk!PushLost(m)
      PROVE  TalkSessions' /\ TalkStarts'
  <2>1. push' \subseteq push /\ UNCHANGED <<state, answered, early, linked, phone, reports>>
    BY <1>8 DEF Talk!NoticeLost, Talk!RequestDropped, Talk!PushLost
  <2> QED
    BY <1>1, <2>1 DEF TalkSessions, TalkStarts
<1>9. ASSUME NEW r \in Run, NEW what \in {"answer", "connected", "ended"}, Talk!ReportArrives(r, what)
      PROVE  TalkSessions' /\ TalkStarts'
  <2>1. <<r, what>> \in reports /\ phone[r] # "none" /\ state[r] # "none" /\ r \notin early
    BY <1>9 DEF Talk!ReportArrives, TalkSessions
  <2>2. reports' \subseteq reports /\ UNCHANGED <<linked, phone, push>>
    BY <1>9 DEF Talk!ReportArrives
  <2>3. \/ UNCHANGED <<state, answered, early>>
        \/ /\ \E s \in {"answered", "connected"} : state' = [state EXCEPT ![r] = s]
           /\ answered \subseteq answered' /\ answered' \subseteq answered \cup {r} /\ UNCHANGED early
        \/ Talk!End(r, "ended") /\ UNCHANGED answered
    BY <1>9 DEF Talk!ReportArrives
  <2>4. CASE UNCHANGED <<state, answered, early>>
    BY <1>1, <2>2, <2>4 DEF TalkSessions, TalkStarts
  <2>5. ASSUME NEW s \in {"answered", "connected"}, state' = [state EXCEPT ![r] = s],
               answered \subseteq answered', answered' \subseteq answered \cup {r}, UNCHANGED early
        PROVE  TalkSessions' /\ TalkStarts'
    BY <1>1, <2>1, <2>2, <2>5 DEF TalkSessions, TalkStarts
  <2>6. CASE Talk!End(r, "ended") /\ UNCHANGED answered
    BY <1>1, <1>3, <2>1, <2>2, <2>6 DEF TalkSessions, TalkStarts, Talk!Terminal
  <2> QED
    BY <2>3, <2>4, <2>5, <2>6
<1>10. ASSUME NEW m \in push, Talk!PushLost(m) PROVE TalkSessions' /\ TalkStarts'
  <2>1. push' \subseteq push /\ UNCHANGED <<state, answered, early, linked, phone, reports>>
    BY <1>10 DEF Talk!PushLost
  <2> QED
    BY <1>1, <2>1 DEF TalkSessions, TalkStarts
<1> QED
  BY <1>2, <1>4, <1>5, <1>6, <1>7, <1>8, <1>9, <1>10

\* No step of the talk breaks the invariant.
LEMMA TalkNext == TalkInv /\ [Talk!Next]_(Talk!vars) => TalkInv'
<1>1. TalkInv /\ UNCHANGED (Talk!vars) => TalkInv'
  BY DEF Talk!vars, Talk!page, Talk!server, TalkInv, TalkPage, TalkSessions, TalkStarts
<1> QED
  BY <1>1, TalkStopSteps, TalkStartSteps, TalkElsewhere DEF Talk!Next

\* What it says of the talk.
LEMMA TalkFacts == TalkInv => Talk!TypeOK /\ Talk!NoTalkAfterEnd
BY DEF TalkInv, TalkPage, TalkSessions, TalkPhases, Talk!TypeOK, Talk!NoTalkAfterEnd, Talk!Waits

-----------------------------------------------------------------------------
(* The motion. *)

\* What was started by hand is recorded, and is not a recording of a motion,
\* unless an automation has recorded since.
ByHand == manual /\ routed = "no"
MotionInv == Motion!TypeOK /\ (ByHand => recording /\ ~byMotion)

\* What the timers hold.
MotionTimers ==
  /\ endTicking \cup endFired \subseteq EndTimer /\ endTicking \cap endFired = {}
  /\ outdated \subseteq endTicking \cup endFired

\* The events still to be fired are counted.
LEMMA MotionCount == Motion!Cardinality(EndTimer) \in Nat
<1>1. Motion!Cardinality(EndTimer) = Cardinality(EndTimer)
  BY DEF Motion!Cardinality, Cardinality
<1> QED
  BY <1>1, FS_CardinalityType

\* The recording and its command, seen together.
MotionRecords ==
  /\ {recording, byMotion} \subseteq BOOLEAN /\ (byMotion => recording)
  /\ pendingRecord \in BOOLEAN \cup {None} /\ (pendingRecord # None => pendingRecord = recording)
  /\ ByHand => recording /\ ~byMotion

\* At first the camera is idle.
LEMMA MotionInit == Motion!Init => MotionInv
<1> SUFFICES ASSUME Motion!Init PROVE MotionInv
  OBVIOUS
<1>1. 0 \in 0 .. Motion!Cardinality(EndTimer)
  BY MotionCount
<1> QED
  BY <1>1 DEF Motion!Init, MotionInv, ByHand, Motion!TypeOK, Motion!Request, Motion!Idle

\* A request goes on to one of its steps.
LEMMA MotionRequest ==
  ASSUME Motion!TypeOK, NEW w \in Worker, NEW q \in Motion!Request, request' = [request EXCEPT ![w] = q]
  PROVE  request' \in [Worker -> Motion!Request]
BY DEF Motion!TypeOK

\* The phone's requests, but for the one that reports.
LEMMA MotionPhone ==
  ASSUME MotionInv, NEW w \in Worker,
         \/ Motion!Post(w) \/ Motion!FireMotion(w) \/ Motion!Reply(w) \/ Motion!Receive(w)
         \/ Motion!Lose(w) \/ Motion!UploadFrame(w)
  PROVE  MotionInv'
<1> USE DEF MotionInv, ByHand, Motion!phone, Motion!camera, Motion!pending, Motion!timers, Motion!history, Motion!bounds
<1>1. UNCHANGED <<detects, recording, byMotion, motionRecent, endTimer, endTicking, endFired, outdated,
                  ended, wanted, manual, routed>>
  BY DEF Motion!Post, Motion!FireMotion, Motion!Reply, Motion!Receive, Motion!Lose, Motion!UploadFrame
<1>2. lamp' \in {"off", "on", "leaving"}
  BY DEF Motion!TypeOK, Motion!Post, Motion!FireMotion, Motion!Reply, Motion!Receive, Motion!Lose,
         Motion!UploadFrame
<1>3. request[w] \in Motion!Request
  BY DEF Motion!TypeOK
<1>4. request' \in [Worker -> Motion!Request] /\ {phoneDetects', phoneRecords'} \subseteq BOOLEAN
  <2>1. CASE Motion!Post(w)
    <3>1. PICK moves \in {FALSE, phoneDetects} :
            request' = [request EXCEPT ![w] = [at |-> "sent", detects |-> phoneDetects, motion |-> moves]]
      BY <2>1 DEF Motion!Post
    <3>2. [at |-> "sent", detects |-> phoneDetects, motion |-> moves] \in Motion!Request
      BY DEF Motion!TypeOK, Motion!Request
    <3> QED
      BY <2>1, <3>1, <3>2, MotionRequest DEF Motion!Post, Motion!TypeOK
  <2>2. CASE Motion!FireMotion(w) \/ Motion!UploadFrame(w)
    <3>1. [at |-> "reply"] \in Motion!Request
      BY DEF Motion!Request
    <3> QED
      BY <2>2, <3>1, MotionRequest DEF Motion!FireMotion, Motion!UploadFrame, Motion!TypeOK
  <2>3. CASE Motion!Reply(w)
    <3>1. [at |-> "answer", detects |-> Motion!DetectsAnswer, record |-> Motion!RecordAnswer] \in Motion!Request
      BY DEF Motion!TypeOK, Motion!Request, Motion!DetectsAnswer, Motion!RecordAnswer
    <3> QED
      BY <2>3, <3>1, MotionRequest DEF Motion!Reply, Motion!TypeOK
  <2>4. CASE Motion!Receive(w) \/ Motion!Lose(w)
    <3>1. Motion!Idle \in Motion!Request
      BY DEF Motion!Request
    <3>2. request' = [request EXCEPT ![w] = Motion!Idle]
      BY <2>4 DEF Motion!Receive, Motion!Lose
    <3>3. request[w].at = "answer" => request[w].detects \in BOOLEAN /\ request[w].record \in BOOLEAN \cup {None}
      BY <1>3 DEF Motion!Request, Motion!Idle
    <3>4. {phoneDetects', phoneRecords'} \subseteq BOOLEAN
      <4>1. CASE Motion!Receive(w)
        BY <3>3, <4>1 DEF Motion!Receive, Motion!TypeOK
      <4>2. CASE Motion!Lose(w)
        BY <4>2 DEF Motion!Lose, Motion!TypeOK
      <4> QED
        BY <2>4, <4>1, <4>2
    <3> QED
      BY <3>1, <3>2, <3>4, MotionRequest
  <2> QED
    BY <2>1, <2>2, <2>3, <2>4
<1>5. /\ pendingDetects' \in BOOLEAN \cup {None} /\ pendingRecord' \in BOOLEAN \cup {None}
      /\ pendingRecord' # None => pendingRecord' = recording
  BY DEF Motion!TypeOK, Motion!Post, Motion!FireMotion, Motion!Reply, Motion!Receive, Motion!Lose,
         Motion!UploadFrame
<1> QED
  BY <1>1, <1>2, <1>4, <1>5 DEF Motion!TypeOK

\* A report: with a motion it starts a recording, if there is none.
LEMMA MotionHandle ==
  ASSUME MotionInv, NEW w \in Worker, Motion!Handle(w)
  PROVE  MotionInv'
<1> USE DEF MotionInv, ByHand, Motion!phone, Motion!bounds
<1>1. request[w] \in Motion!Request
  BY DEF Motion!TypeOK
<1>2. request[w].detects \in BOOLEAN
  BY <1>1 DEF Motion!Handle, Motion!Request, Motion!Idle
<1>3. request' \in [Worker -> Motion!Request]
  <2>1. [at |-> "motion"] \in Motion!Request /\ [at |-> "reply"] \in Motion!Request
    BY DEF Motion!Request
  <2> QED
    BY <2>1, MotionRequest DEF Motion!Handle
<1>4. CASE request[w].motion
  <2>1. MotionTimers'
    BY <1>4 DEF Motion!Handle, Motion!Detected, Motion!ScheduleStop, MotionTimers, Motion!TypeOK
  <2>2. /\ motionRecent' = TRUE
        /\ \/ recording /\ UNCHANGED <<recording, byMotion, pendingRecord>>
           \/ ~recording /\ recording' = TRUE /\ byMotion' = TRUE /\ pendingRecord' = TRUE
        /\ UNCHANGED <<phoneDetects, phoneRecords, pendingDetects, ended, lamp, wanted, manual>>
        /\ detects' \in BOOLEAN
        /\ routed' \in {"no", "timed", "untimed"} /\ (routed' = "no" => routed = "no")
    <3>1. routed' = IF routed = "untimed" THEN "timed" ELSE routed
      BY <1>4 DEF Motion!Handle, Motion!Detected
    <3>2. routed' \in {"no", "timed", "untimed"} /\ (routed' = "no" => routed = "no")
      BY <3>1 DEF Motion!TypeOK
    <3> QED
      BY <1>2, <1>4, <3>2 DEF Motion!Handle, Motion!Detected
  <2>3. MotionRecords'
    <3>1. {recording', byMotion'} \subseteq BOOLEAN
      BY <2>2 DEF Motion!TypeOK
    <3>2. byMotion' => recording'
      <4>1. CASE recording
        BY <2>2, <4>1
      <4>2. CASE ~recording
        BY <2>2, <4>2
      <4> QED
        BY <4>1, <4>2
    <3>3. pendingRecord' \in BOOLEAN \cup {None}
      BY <2>2 DEF Motion!TypeOK
    <3>4. pendingRecord' # None => pendingRecord' = recording'
      BY <2>2 DEF Motion!TypeOK
    <3>5. ByHand' => recording' /\ ~byMotion'
      BY <2>2
    <3> QED
      BY <3>1, <3>2, <3>3, <3>4, <3>5 DEF MotionRecords
  <2> QED
    BY <1>3, <2>1, <2>2, <2>3 DEF Motion!TypeOK, MotionTimers, MotionRecords
<1>5. CASE ~request[w].motion
  <2>1. UNCHANGED <<phoneDetects, phoneRecords, recording, byMotion, motionRecent, pendingDetects,
                    pendingRecord, endTimer, endTicking, endFired, outdated, ended, lamp, wanted, manual,
                    routed>>
        /\ detects' \in BOOLEAN
    BY <1>2, <1>5 DEF Motion!Handle, Motion!timers
  <2> QED
    BY <1>3, <2>1 DEF Motion!TypeOK
<1> QED
  BY <1>4, <1>5

\* The timers, and the events they leave.
LEMMA MotionTimer ==
  ASSUME MotionInv, Motion!FireInactive \/ \E t \in EndTimer : Motion!TimerFires(t) \/ Motion!Finish(t)
  PROVE  MotionInv'
<1> USE DEF MotionInv, ByHand, Motion!phone, Motion!camera, Motion!pending, Motion!timers, Motion!history, Motion!bounds
<1>0. Motion!Cardinality(EndTimer) \in Nat
  BY MotionCount
<1>1. CASE Motion!FireInactive
  <2>1. ended' \in 0 .. Motion!Cardinality(EndTimer) /\ lamp' \in {"off", "on", "leaving"}
    BY <1>0, <1>1 DEF Motion!FireInactive, Motion!TypeOK
  <2> QED
    BY <1>1, <2>1 DEF Motion!FireInactive, Motion!TypeOK
<1>2. ASSUME NEW t \in EndTimer, Motion!TimerFires(t) PROVE MotionInv'
  <2>1. MotionTimers'
    BY <1>2 DEF Motion!TimerFires, MotionTimers, Motion!TypeOK
  <2> QED
    BY <1>2, <2>1 DEF Motion!TimerFires, MotionTimers, Motion!TypeOK
<1>3. ASSUME NEW t \in EndTimer, Motion!Finish(t) PROVE MotionInv'
  <2>1. UNCHANGED <<phoneDetects, phoneRecords, detects, motionRecent, pendingDetects, request, lamp,
                    wanted, manual, routed>>
    BY <1>3 DEF Motion!Finish
  <2>2. MotionTimers'
    BY <1>3 DEF Motion!Finish, Motion!DropTimer, Motion!Reschedule, Motion!ScheduleStop, MotionTimers, Motion!TypeOK
  <2>3. \/ UNCHANGED <<recording, byMotion, pendingRecord, ended>>
        \/ /\ byMotion /\ byMotion' = FALSE /\ recording' = FALSE /\ pendingRecord' = FALSE
           /\ ended' = ended + 1 /\ ended < Motion!Cardinality(EndTimer)
    BY <1>3 DEF Motion!Finish
  <2>4. MotionRecords'
    <3>1. {recording', byMotion'} \subseteq BOOLEAN
      BY <2>1, <2>3 DEF Motion!TypeOK
    <3>2. byMotion' => recording'
      BY <2>1, <2>3 DEF Motion!TypeOK
    <3>3. pendingRecord' \in BOOLEAN \cup {None}
      BY <2>1, <2>3 DEF Motion!TypeOK
    <3>4. pendingRecord' # None => pendingRecord' = recording'
      BY <2>1, <2>3 DEF Motion!TypeOK
    <3>5. ByHand' => recording' /\ ~byMotion'
      BY <2>1, <2>3
    <3> QED
      BY <3>1, <3>2, <3>3, <3>4, <3>5 DEF MotionRecords
  <2>5. ended' \in 0 .. Motion!Cardinality(EndTimer)
    BY <1>0, <2>3 DEF Motion!TypeOK
  <2>6. Motion!TypeOK'
    BY <2>1, <2>2, <2>4, <2>5 DEF Motion!TypeOK, MotionTimers, MotionRecords
  <2> QED
    BY <2>4, <2>6 DEF MotionRecords
<1> QED
  BY <1>1, <1>2, <1>3

\* The dashboard, arming, time and restarts.
LEMMA MotionOthers ==
  ASSUME MotionInv,
         \/ \E on \in BOOLEAN : \/ Motion!SetRecording(on) \/ Motion!SetDetection(on)
                               \/ Motion!Arm(on) \/ Motion!RecordByRoute(on)
         \/ Motion!Quiet \/ Motion!LampOff \/ Motion!Restart
  PROVE  MotionInv'
<1> USE DEF MotionInv, ByHand, Motion!phone, Motion!camera, Motion!pending, Motion!timers, Motion!history, Motion!bounds
<1>1. ASSUME NEW on \in BOOLEAN, Motion!SetRecording(on) PROVE MotionInv'
  <2>1. MotionTimers'
    BY <1>1 DEF Motion!SetRecording, Motion!CancelStop, MotionTimers, Motion!TypeOK
  <2> QED
    BY <1>1, <2>1 DEF Motion!SetRecording, MotionTimers, Motion!TypeOK
<1>2. ASSUME NEW on \in BOOLEAN, Motion!SetDetection(on) PROVE MotionInv'
  <2>1. MotionTimers'
    BY <1>2 DEF Motion!SetDetection, Motion!CancelStop, MotionTimers, Motion!TypeOK
  <2>2. \/ UNCHANGED <<recording, byMotion, pendingRecord>>
        \/ /\ byMotion' = FALSE /\ recording' = (recording /\ ~byMotion)
           /\ pendingRecord' = IF byMotion THEN FALSE ELSE pendingRecord
    BY <1>2 DEF Motion!SetDetection
  <2>3. MotionRecords'
    <3>1. {recording', byMotion'} \subseteq BOOLEAN
      BY <1>2, <2>2 DEF Motion!TypeOK, Motion!SetDetection
    <3>2. byMotion' => recording'
      BY <1>2, <2>2 DEF Motion!TypeOK, Motion!SetDetection
    <3>3. pendingRecord' \in BOOLEAN \cup {None}
      BY <1>2, <2>2 DEF Motion!TypeOK, Motion!SetDetection
    <3>4. pendingRecord' # None => pendingRecord' = recording'
      BY <1>2, <2>2 DEF Motion!TypeOK, Motion!SetDetection
    <3>5. ByHand' => recording' /\ ~byMotion'
      BY <1>2, <2>2 DEF Motion!SetDetection
    <3> QED
      BY <3>1, <3>2, <3>3, <3>4, <3>5 DEF MotionRecords
  <2> QED
    BY <1>2, <2>1, <2>3 DEF Motion!SetDetection, MotionTimers, MotionRecords, Motion!TypeOK
<1>3. ASSUME NEW on \in BOOLEAN, Motion!Arm(on) PROVE MotionInv'
  BY <1>3 DEF Motion!Arm, Motion!TypeOK
<1>4. CASE Motion!Quiet \/ Motion!LampOff
  <2>1. /\ UNCHANGED <<phoneDetects, phoneRecords, detects, recording, byMotion, pendingDetects,
                       pendingRecord, request, endTimer, endTicking, endFired, outdated, ended, wanted,
                       manual, routed>>
        /\ motionRecent' \in BOOLEAN /\ lamp' \in {"off", "on", "leaving"}
    BY <1>4 DEF Motion!Quiet, Motion!LampOff, Motion!TypeOK
  <2> QED
    BY <2>1 DEF Motion!TypeOK
<1>5. CASE Motion!Restart
  <2>1. request' \in [Worker -> Motion!Request]
    BY <1>5 DEF Motion!Restart, Motion!Request
  <2>2. ended' \in 0 .. Motion!Cardinality(EndTimer)
    BY <1>5, MotionCount DEF Motion!Restart
  <2>3. lamp' \in {"off", "on", "leaving"}
    BY <1>5 DEF Motion!Restart, Motion!TypeOK
  <2> QED
    BY <1>5, <2>1, <2>2, <2>3 DEF Motion!Restart, Motion!TypeOK
<1>6. ASSUME NEW on \in BOOLEAN, Motion!RecordByRoute(on) PROVE MotionInv'
  <2>1. UNCHANGED <<phoneDetects, phoneRecords, motionRecent, request, endTimer, endTicking, endFired,
                    outdated, ended, lamp, manual>>
    BY <1>6 DEF Motion!RecordByRoute
  <2>2. /\ recording' = TRUE /\ byMotion' = TRUE /\ pendingRecord' = TRUE
        /\ routed' \in {"timed", "untimed"}
    BY <1>6 DEF Motion!RecordByRoute
  <2>3. {detects', wanted'} \subseteq BOOLEAN /\ pendingDetects' \in BOOLEAN \cup {None}
    BY <1>6 DEF Motion!RecordByRoute, Motion!TypeOK
  <2> QED
    BY <2>1, <2>2, <2>3 DEF Motion!TypeOK
<1> QED
  BY <1>1, <1>2, <1>3, <1>4, <1>5, <1>6

\* No step of the motion breaks the invariant.
LEMMA MotionNext == MotionInv /\ [Motion!Next]_(Motion!vars) => MotionInv'
<1>1. MotionInv /\ UNCHANGED (Motion!vars) => MotionInv'
  BY DEF Motion!vars, Motion!phone, Motion!camera, Motion!pending, Motion!timers, Motion!history,
         Motion!bounds, MotionInv, ByHand, Motion!TypeOK
<1> QED
  BY <1>1, MotionPhone, MotionHandle, MotionTimer, MotionOthers DEF Motion!Next

\* Only an automation ends the time in which a recording is the user's, and it
\* records itself.
LEMMA HandStays ==
  ASSUME MotionInv, routed = "no", [Motion!Next]_(Motion!vars)
  PROVE  routed' = "no" \/ recording'
<1>1. CASE UNCHANGED Motion!vars
  BY <1>1 DEF Motion!vars, Motion!history
<1>2. ASSUME NEW w \in Worker,
             \/ Motion!Post(w) \/ Motion!FireMotion(w) \/ Motion!Reply(w) \/ Motion!Receive(w)
             \/ Motion!Lose(w) \/ Motion!UploadFrame(w)
      PROVE  routed' = "no"
  BY <1>2 DEF Motion!Post, Motion!FireMotion, Motion!Reply, Motion!Receive, Motion!Lose, Motion!UploadFrame,
              Motion!history
<1>3. ASSUME NEW w \in Worker, Motion!Handle(w) PROVE routed' = "no"
  BY <1>3 DEF Motion!Handle, Motion!Detected
<1>4. ASSUME NEW t \in EndTimer, Motion!TimerFires(t) \/ Motion!Finish(t) PROVE routed' = "no"
  BY <1>4 DEF Motion!TimerFires, Motion!Finish, Motion!history
<1>5. ASSUME NEW on \in BOOLEAN, Motion!SetRecording(on) \/ Motion!SetDetection(on) \/ Motion!Arm(on)
      PROVE  routed' = "no"
  BY <1>5 DEF Motion!SetRecording, Motion!SetDetection, Motion!Arm
<1>6. ASSUME NEW on \in BOOLEAN, Motion!RecordByRoute(on) PROVE recording'
  BY <1>6 DEF Motion!RecordByRoute
<1>7. CASE Motion!FireInactive \/ Motion!Quiet \/ Motion!LampOff \/ Motion!Restart
  BY <1>7 DEF Motion!FireInactive, Motion!Quiet, Motion!LampOff, Motion!Restart, Motion!history
<1> QED
  BY <1>1, <1>2, <1>3, <1>4, <1>5, <1>6, <1>7 DEF Motion!Next

-----------------------------------------------------------------------------
(* The cameras together. *)

\* Each component moves on its own, or not at all.
LEMMA CamerasStep ==
  [MCNext]_MCvars => /\ [Next]_vars /\ [Door!Next]_(Door!vars)
                     /\ [Motion!Next]_(Motion!vars) /\ [Talk!Next]_(Talk!vars)
<1> SUFFICES ASSUME [MCNext]_MCvars
             PROVE  /\ [Next]_vars /\ [Door!Next]_(Door!vars)
                    /\ [Motion!Next]_(Motion!vars) /\ [Talk!Next]_(Talk!vars)
  OBVIOUS
<1>1. UNCHANGED doorVars => UNCHANGED Door!vars
  BY DEF doorVars, Door!vars, Door!phone, Door!sensor, Door!sound, Door!history, Door!bounds
<1>2. UNCHANGED motionVars => UNCHANGED Motion!vars
  BY DEF motionVars, Motion!vars, Motion!phone, Motion!camera, Motion!pending, Motion!timers,
         Motion!history, Motion!bounds
<1>3. UNCHANGED talkVars => UNCHANGED Talk!vars
  BY DEF talkVars, Talk!vars, Talk!page, Talk!server
<1> QED
  BY <1>1, <1>2, <1>3 DEF MCNext, RequestsStep, DoorStep, MotionStep, TalkStep, MCvars

CamerasInv == ViewersInv /\ DoorInv /\ MotionInv /\ TalkInv

LEMMA CamerasKept == CamerasInv /\ [MCNext]_MCvars => CamerasInv' /\ Door!ClosedSeen
BY CamerasStep, NextInv, DoorNext, MotionNext, TalkNext DEF CamerasInv, DoorKept

\* Every state of every behaviour satisfies the invariants of the components.
THEOREM CamerasInvariant == MCSpec => []CamerasInv
<1>1. MCInit => CamerasInv
  BY InitInv, DoorInit, MotionInit, TalkInit DEF MCInit, CamerasInv
<1>2. CamerasInv /\ [MCNext]_MCvars => CamerasInv'
  BY CamerasKept
<1> QED
  BY <1>1, <1>2, PTL DEF MCSpec

\* Everything is where the code can leave it.
THEOREM CamerasTypes == MCSpec => []TypesOK
<1>1. CamerasInv => TypesOK
  BY TalkFacts DEF CamerasInv, TypesOK, ViewersInv, DoorInv, MotionInv
<1> QED
  BY <1>1, CamerasInvariant, PTL

\* For any number of requests, timers and messages that overtake each other:
\* the door shows the newest reading, and an opening fires only after the sensor
\* was seen closed (handle_door_telemetry).
THEOREM DoorStaysTrue == MCSpec => DoorIsTrue
<1>1. CamerasInv => (part = "door" => Door!ShowsNewest)
  BY DEF CamerasInv, DoorInv
<1>2. CamerasInv /\ [MCNext]_MCvars => [part = "door" => Door!ClosedSeen]_MCvars
  BY CamerasKept
<1> QED
  BY <1>1, <1>2, CamerasInvariant, PTL DEF MCSpec, DoorIsTrue

\* For any number of talks, requests and timers: a talk that is over before the
\* phone took part stays silent, and a recording made by hand goes on until it is
\* ended by hand, unless an automation has recorded with the camera since.
THEOREM UsersHaveDecided == MCSpec => UsersDecide
<1>1. CamerasInv => (part = "talk" => Talk!NoTalkAfterEnd)
  BY TalkFacts DEF CamerasInv
<1>2. ASSUME MotionInv, [Motion!Next]_(Motion!vars) PROVE Motion!ManualStays
  <2>1. SUFFICES ASSUME manual', recording, routed = "no" PROVE recording'
    BY DEF Motion!ManualStays
  <2>2. CASE routed' = "no"
    BY <1>2, <2>1, <2>2, MotionNext DEF MotionInv, ByHand
  <2> QED
    BY <1>2, <2>1, <2>2, HandStays
<1>3. CamerasInv /\ [MCNext]_MCvars => [(part \in MotionParts) => Motion!ManualStays]_MCvars
  BY <1>2, CamerasStep DEF CamerasInv
<1> QED
  BY <1>1, <1>3, CamerasInvariant, PTL DEF MCSpec, UsersDecide
=============================================================================
