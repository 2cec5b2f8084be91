----------------------------- MODULE CameraMotion -----------------------------
(***************************************************************************)
(* The camera of an Android phone.  The phone reports motion and its own   *)
(* setting; the server records while there is motion, and a timer ends the *)
(* recording 15 s after the last one.  Commands wait for the phone's next  *)
(* request.  A motion automation holds a lamp: on with motion, and off     *)
(* some time after the server says that the motion ended.  Automations     *)
(* may also record with the camera, for whatever another sensor reports.   *)
(***************************************************************************)
EXTENDS Naturals, FiniteSets

CONSTANTS Worker,       \* requests the server handles at a time
          Timer, None,  \* timers that end a recording
          MaxCommands,  \* bound: commands from the dashboard and automations
          MaxLosses,    \* bound: answers that get lost
          MaxRestarts   \* bound

VARIABLES
  phoneDetects, phoneRecords,    \* the settings the phone works with
  detects,                       \* motion_detection_enabled
  recording, byMotion,           \* recording_enabled, motion_recording_active
  recent,                        \* last_motion_at is less than 15 s ago
  pendingDetects, pendingRecord, \* pending_command
  request,                       \* of each worker: what it is about to do
  registered, ticking, fired,    \* motion_recording_stop_timers
  outdated,                      \* timers started for a motion before the last
  ended,                         \* the 'inactive' events still to be fired
  lamp,
  wanted, manual,                \* history: last setting; recording by hand
  routed,                        \* history: whether an automation has recorded since a
                                 \* user did, and found a timer that ends it
  commands, losses, restarts

phone == <<phoneDetects, phoneRecords>>
camera == <<detects, recording, byMotion>>
pending == <<pendingDetects, pendingRecord>>
timers == <<registered, ticking, fired, outdated>>
history == <<wanted, manual, routed>>
bounds == <<commands, losses, restarts>>
vars == <<phone, camera, recent, pending, request, timers, ended, lamp, history, bounds>>

Idle == [at |-> "idle"]
Request ==
  {Idle} \cup [at : {"sent"}, detects : BOOLEAN, motion : BOOLEAN]
         \cup [at : {"motion", "reply"}] \cup [at : {"answer"}, detects : BOOLEAN, record : BOOLEAN \cup {None}]

TypeOK ==
  /\ {phoneDetects, phoneRecords, detects, recording, byMotion, recent, wanted, manual} \subseteq BOOLEAN
  /\ pendingDetects \in BOOLEAN \cup {None} /\ pendingRecord \in BOOLEAN \cup {None}
  /\ pendingRecord # None => pendingRecord = recording
  /\ request \in [Worker -> Request]
  /\ ticking \cup fired \subseteq Timer /\ ticking \cap fired = {} /\ outdated \subseteq ticking \cup fired
  /\ lamp \in {"off", "on", "leaving"} /\ ended \in 0 .. Cardinality(Timer)
  /\ routed \in {"no", "timed", "untimed"} /\ (byMotion => recording)

Init ==
  /\ phoneDetects = FALSE /\ phoneRecords = FALSE
  /\ detects = FALSE /\ recording = FALSE /\ byMotion = FALSE /\ recent = FALSE
  /\ pendingDetects = None /\ pendingRecord = None
  /\ request = [w \in Worker |-> Idle]
  /\ registered = None /\ ticking = {} /\ fired = {} /\ outdated = {}
  /\ ended = 0 /\ lamp = "off" /\ wanted = FALSE /\ manual = FALSE /\ routed = "no"
  /\ commands = 0 /\ losses = 0 /\ restarts = 0

-----------------------------------------------------------------------------
(* The stop timer.                                                         *)

CancelStop ==
  /\ registered' = None /\ ticking' = ticking \ {registered}

\* A running timer is replaced; one that waits for the lock is not.
ScheduleStop(t, left) ==
  /\ t \notin ticking \cup left
  /\ registered' = t /\ ticking' = (ticking \ {registered}) \cup {t}
  /\ fired' = left

TimerFires(t) ==
  /\ t \in ticking
  /\ ticking' = ticking \ {t} /\ fired' = fired \cup {t}
  /\ UNCHANGED <<phone, camera, recent, pending, request, registered, outdated, ended, lamp, history, bounds>>

StillMoving(t) == recent \/ t \in outdated

DropTimer(t) ==
  /\ fired' = fired \ {t} /\ outdated' = outdated \ {t}
  /\ UNCHANGED <<registered, ticking>>

Reschedule(t) ==
  /\ \E n \in Timer : ScheduleStop(n, fired \ {t})
  /\ outdated' = outdated \cap ((ticking' \cup fired') \ {registered'})

Finish(t) ==
  /\ t \in fired
  /\ ended < Cardinality(Timer)
  /\ \/ /\ ~byMotion
        /\ DropTimer(t)
        /\ UNCHANGED <<camera, pendingRecord, ended>>
     \/ /\ byMotion /\ StillMoving(t)
        /\ Reschedule(t)
        /\ UNCHANGED <<camera, pendingRecord, ended>>
     \/ /\ byMotion /\ ~StillMoving(t)
        /\ byMotion' = FALSE /\ recording' = FALSE /\ pendingRecord' = FALSE
        /\ registered' = None /\ fired' = fired \ {t} /\ outdated' = outdated \ {t}
        /\ ended' = ended + 1
        /\ UNCHANGED <<detects, ticking>>
  /\ UNCHANGED <<phone, recent, pendingDetects, request, lamp, history, bounds>>

\* fire_camera_motion_routes(c, 'inactive'), after the lock.
FireInactive ==
  /\ ended > 0 /\ ended' = ended - 1
  /\ lamp' = IF lamp = "on" THEN "leaving" ELSE lamp
  /\ UNCHANGED <<phone, camera, recent, pending, request, timers, history, bounds>>

-----------------------------------------------------------------------------
(* Requests of the phone: telemetry, its route events and its answer.      *)

Post(w) ==
  /\ request[w] = Idle
  /\ \E moves \in {FALSE, phoneDetects} :
       request' = [request EXCEPT ![w] = [at |-> "sent", detects |-> phoneDetects, motion |-> moves]]
  /\ UNCHANGED <<phone, camera, recent, pending, timers, ended, lamp, history, bounds>>

Detected ==
  /\ recent' = TRUE
  /\ IF recording THEN UNCHANGED <<recording, byMotion, pendingRecord>>
     ELSE recording' = TRUE /\ byMotion' = TRUE /\ pendingRecord' = TRUE
  /\ \E t \in Timer : ScheduleStop(t, fired)
  /\ outdated' = (ticking' \cup fired') \ {registered'}
  /\ routed' = IF routed = "untimed" THEN "timed" ELSE routed

Handle(w) ==
  /\ request[w].at = "sent"
  /\ detects' = request[w].detects
  /\ IF request[w].motion
     THEN Detected /\ request' = [request EXCEPT ![w] = [at |-> "motion"]]
     ELSE /\ request' = [request EXCEPT ![w] = [at |-> "reply"]]
          /\ UNCHANGED <<recording, byMotion, recent, pendingRecord, timers, routed>>
  /\ UNCHANGED <<phone, pendingDetects, ended, lamp, wanted, manual, bounds>>

FireMotion(w) ==
  /\ request[w].at = "motion"
  /\ lamp' = "on"
  /\ request' = [request EXCEPT ![w] = [at |-> "reply"]]
  /\ UNCHANGED <<phone, camera, recent, pending, timers, ended, history, bounds>>

RecordAnswer == recording
DetectsAnswer == IF pendingDetects # None THEN pendingDetects ELSE detects

Reply(w) ==
  /\ request[w].at = "reply"
  /\ request' = [request EXCEPT ![w] = [at |-> "answer", detects |-> DetectsAnswer, record |-> RecordAnswer]]
  /\ pendingDetects' = None /\ pendingRecord' = None
  /\ UNCHANGED <<phone, camera, recent, timers, ended, lamp, history, bounds>>

Receive(w) ==
  /\ request[w].at = "answer"
  /\ phoneDetects' = request[w].detects
  /\ phoneRecords' = IF request[w].record = None THEN phoneRecords ELSE request[w].record
  /\ request' = [request EXCEPT ![w] = Idle]
  /\ UNCHANGED <<camera, recent, pending, timers, ended, lamp, history, bounds>>

Lose(w) ==
  /\ request[w].at = "answer" /\ losses < MaxLosses /\ losses' = losses + 1
  /\ request' = [request EXCEPT ![w] = Idle]
  /\ UNCHANGED <<phone, camera, recent, pending, timers, ended, lamp, history, commands, restarts>>

\* upload_frame, for a recording or a preview: it reports no setting and is
\* answered at once.
UploadFrame(w) ==
  /\ request[w] = Idle
  /\ request' = [request EXCEPT ![w] = [at |-> "reply"]]
  /\ UNCHANGED <<phone, camera, recent, pending, timers, ended, lamp, history, bounds>>

-----------------------------------------------------------------------------
(* The dashboard, arming, time and restarts.                               *)

Count == commands < MaxCommands /\ commands' = commands + 1 /\ UNCHANGED <<losses, restarts>>

SetRecordingKeeping(on) ==
  /\ Count
  /\ recording' = on /\ pendingRecord' = on /\ manual' = on /\ routed' = "no"
  /\ byMotion' = (byMotion /\ on)
  /\ CancelStop /\ outdated' = outdated \cap (ticking' \cup fired)
  /\ UNCHANGED <<phone, detects, recent, pendingDetects, request, fired, ended, lamp, wanted>>

SetRecording(on) ==
  /\ Count
  /\ recording' = on /\ pendingRecord' = on /\ manual' = on /\ routed' = "no"
  /\ byMotion' = FALSE
  /\ CancelStop /\ outdated' = outdated \cap (ticking' \cup fired)
  /\ UNCHANGED <<phone, detects, recent, pendingDetects, request, fired, ended, lamp, wanted>>

SetDetection(on) ==
  /\ Count
  /\ detects' = on /\ pendingDetects' = on /\ wanted' = on
  /\ IF on THEN UNCHANGED <<recording, byMotion, pendingRecord, registered, ticking, outdated>>
     ELSE /\ CancelStop /\ outdated' = outdated \cap (ticking' \cup fired)
          /\ byMotion' = FALSE /\ recording' = (recording /\ ~byMotion)
          /\ pendingRecord' = IF byMotion THEN FALSE ELSE pendingRecord
  /\ UNCHANGED <<phone, recent, request, fired, ended, lamp, manual, routed>>

\* sync_arming_motion_detection: automations of the new arm state need motion.
Arm(on) ==
  /\ Count /\ detects # on
  /\ detects' = on /\ pendingDetects' = on /\ wanted' = on
  /\ UNCHANGED <<phone, recording, byMotion, recent, pendingRecord, request, timers, ended, lamp, manual, routed>>

\* An automation of this camera's motion, or of another sensor, records with it,
\* whatever it does already; the server starts no timer that ends the recording.
RecordByRoute(motion) ==
  /\ Count
  /\ recording' = TRUE /\ byMotion' = TRUE /\ pendingRecord' = TRUE
  /\ IF motion THEN detects' = TRUE /\ pendingDetects' = TRUE /\ wanted' = TRUE
               ELSE UNCHANGED <<detects, pendingDetects, wanted>>
  /\ routed' = IF ticking \cup fired = {} THEN "untimed" ELSE "timed"
  /\ UNCHANGED <<phone, recent, request, timers, ended, lamp, manual>>

Quiet ==
  /\ recent /\ recent' = FALSE
  /\ UNCHANGED <<phone, camera, pending, request, timers, ended, lamp, history, bounds>>

LampOff ==
  /\ lamp = "leaving" /\ lamp' = "off"
  /\ UNCHANGED <<phone, camera, recent, pending, request, timers, ended, history, bounds>>

\* The state file keeps the camera's fields; timers and commands are gone.
Restart ==
  /\ restarts < MaxRestarts /\ restarts' = restarts + 1
  /\ pendingDetects' = None /\ pendingRecord' = None
  /\ request' = [w \in Worker |-> Idle] /\ ended' = 0
  /\ registered' = None /\ ticking' = {} /\ fired' = {} /\ outdated' = {}
  /\ lamp' = IF lamp = "leaving" THEN "on" ELSE lamp
  /\ UNCHANGED <<phone, camera, recent, history, commands, losses>>

Next ==
  \/ \E w \in Worker : Post(w) \/ Handle(w) \/ FireMotion(w) \/ Reply(w) \/ Receive(w) \/ Lose(w) \/ UploadFrame(w)
  \/ \E t \in Timer : TimerFires(t) \/ Finish(t)
  \/ \E on \in BOOLEAN : SetRecording(on) \/ SetDetection(on) \/ Arm(on) \/ RecordByRoute(on)
  \/ FireInactive \/ Quiet \/ LampOff \/ Restart

Spec == Init /\ [][Next]_vars

\* The phone posts, requests and timers run, time passes.
Fairness ==
  /\ WF_vars(Quiet) /\ WF_vars(LampOff) /\ WF_vars(FireInactive)
  /\ \A w \in Worker : WF_vars(Post(w) \/ Handle(w) \/ FireMotion(w) \/ Reply(w) \/ Receive(w))
  /\ \A t \in Timer : WF_vars(TimerFires(t)) /\ WF_vars(Finish(t))

FairSpec == Spec /\ Fairness

-----------------------------------------------------------------------------
(* Properties.                                                             *)

\* A recording that someone started by hand ends by hand: not by a timer of
\* an earlier motion that still waits for the lock, nor by new motion, unless an
\* automation has recorded with the camera since, which makes it end with motion.
ManualStays == manual /\ manual' /\ recording /\ routed = "no" => recording'

\* The same whatever automations do.
ManualStaysAlways == manual /\ manual' /\ recording => recording'

\* Once there is no motion any more, a recording that motion or an automation
\* started ends, whatever timers were replaced or out of date, unless the
\* automation found no timer and the camera has seen no motion since.
MotionRecordingEnds == <>[]~recent => <>[](~byMotion \/ routed = "untimed")

\* The same without that exception.
AllRecordingsEnd == <>[]~recent => <>[]~byMotion

\* The phone comes to record as the server says, though answers get lost:
\* every answer repeats the state, not only the command.
RecordingReaches ==
  /\ <>[]recording => <>[]phoneRecords
  /\ <>[]~recording => <>[]~phoneRecords

\* A setting gets to the phone at least once although the phone's report of
\* the old one comes first, unless an answer is lost or it is changed back.
SettingArrives ==
  (wanted /\ pendingDetects = TRUE) ~> (phoneDetects \/ ~wanted \/ losses > 0)

\* The setting made last is the one the camera ends up with.
SettingSticks == <>[](detects = wanted)

\* The lamp of a motion automation goes off after the motion.
LampGoesOff == <>[]~recent => <>[](lamp = "off")
=============================================================================
