--------------------------- MODULE MCWeakFairness ----------------------------
(***************************************************************************)
(* What must happen, for TLC, where weak fairness is enough: automations,  *)
(* Android cameras and sensors, video uploads and scenes, under the        *)
(* fairness that the components state. A behaviour is about one component  *)
(* and one of its promises, as part says; the others stay in their initial *)
(* states.                                                                 *)
(***************************************************************************)
EXTENDS TLC, Naturals

CONSTANTS Parts, None

VARIABLES
  part, \* which component the behaviour is about
  route, enabled, motion, power, shadow, queue, current, timer, reporter,
  user, watcher, used, revoked, drift, excused,
  today, clock, settings, last, active, light, slot, loop, waiting, dayUser,
  dayUsed, wanted, newer, done,
  known, name, battery, fresh, rule, isOn, record, pass, chargeUser, reading,
  chargeNewer, left, chargeUsed,
  door, calibrates, told, net, status, phase, due, ignore, calibrating,
  pending, work, registered, ticking, fired, newest, rest, faults, requests,
  phoneDetects, phoneRecords, detects, recording, byMotion, recent,
  pendingDetects, pendingRecord, request, motionRegistered, motionTicking,
  motionFired, outdated, ended, lamp, motionWanted, manual, routed, commands,
  losses, restarts,
  camera, at, open, requested, lit, gone, state, answered, linked, phone,
  push, reports, notices, early, talkLosses,
  role, step, uploadName, turn, file, staged, beside, uploadLast, crashes,
  clicks, shown, sent, sequences, sceneRequested, sceneQueue, targets,
  sceneLit, home, admitted, saves

Light == INSTANCE AutoOff WITH
  Reporter <- {"r1"}, Timer <- {"t1", "t2", "t3"}, User <- {"u1"},
  MaxReports <- 4, MaxCommands <- 2, MaxEdits <- 0, MaxFailures <- 2,
  MaxLosses <- 0, MaxTimeouts <- 0, MaxSurprises <- 0
Day == INSTANCE DayReset WITH
  Key <- {"room", "key"}, Device <- {"l1", "l2"},
  KeyDevices <- ("room" :> {"l1", "l2"}) @@ ("key" :> {"l1"}), User <- {"u1"},
  LastHour <- 2, MaxDays <- 2, MaxChoices <- 1, MaxSaves <- 0,
  MaxFailures <- 1, user <- dayUser, used <- dayUsed
Charge == INSTANCE Recharge WITH
  Clients <- <<"a">>, Plug <- {"s1"}, Name <- {"nA"}, Ruled <- ("a" :> "s1"),
  MaxCommands <- 1, MaxFailures <- 1, MaxChanges <- 1,
  user <- chargeUser, newer <- chargeNewer, used <- chargeUsed
Door == INSTANCE DoorSensor WITH
  Worker <- {"w1"}, Timer <- {"t1"}, MaxNet <- 1, MaxFaults <- 0,
  MaxRequests <- 1
Timers == INSTANCE DoorSensor WITH
  Worker <- {"w1"}, Timer <- {"t1", "t2"}, MaxNet <- 1, MaxFaults <- 1,
  MaxRequests <- 0
Motion == INSTANCE CameraMotion WITH
  Worker <- {"w1"}, Timer <- {"t1", "t2"}, MaxCommands <- 1, MaxLosses <- 1,
  MaxRestarts <- 0, registered <- motionRegistered, ticking <- motionTicking,
  fired <- motionFired, wanted <- motionWanted
Talk == INSTANCE CameraTalk WITH
  Camera <- {"c1"}, Run <- {"r1"}, MaxLosses <- 2, losses <- talkLosses
Upload == INSTANCE VideoUpload WITH
  Uploads <- {"u1", "u2"}, MaxCrashes <- 1, name <- uploadName,
  last <- uploadLast
Scenes == INSTANCE TapoScenes WITH
  Page <- {"p1", "p2"}, Device <- {"d1", "d2"}, Cap <- 1, Limit <- 2,
  MaxClicks <- 1, MaxSaves <- 0, requested <- sceneRequested,
  queue <- sceneQueue, lit <- sceneLit

lightVars == <<route, enabled, motion, power, shadow, queue, current, timer,
               reporter, user, watcher, used, revoked, drift, excused>>
dayVars == <<today, clock, settings, last, active, light, slot, loop, waiting,
             dayUser, dayUsed, wanted, newer, done>>
chargeVars == <<known, name, battery, fresh, rule, isOn, record, pass,
                chargeUser, reading, chargeNewer, left, chargeUsed>>
doorVars == <<door, calibrates, told, net, status, phase, due, ignore,
              calibrating, pending, work, registered, ticking, fired, newest,
              rest, faults, requests>>
motionVars == <<phoneDetects, phoneRecords, detects, recording, byMotion,
                recent, pendingDetects, pendingRecord, request,
                motionRegistered, motionTicking, motionFired, outdated, ended,
                lamp, motionWanted, manual, routed, commands, losses, restarts>>
talkVars == <<camera, at, open, requested, lit, gone, state, answered, linked,
              phone, push, reports, notices, early, talkLosses>>
uploadVars == <<role, step, uploadName, turn, file, staged, beside,
                uploadLast, crashes>>
scenesVars == <<clicks, shown, sent, sequences, sceneRequested, sceneQueue,
                targets, sceneLit, home, admitted, saves>>
MCvars == <<part, lightVars, dayVars, chargeVars, doorVars, motionVars,
                  talkVars, uploadVars, scenesVars>>

MCInit ==
  /\ part \in Parts
  /\ Light!Init
  /\ Day!Init
  /\ Charge!Init
  /\ CASE part = "door timers" -> Timers!Init
       [] OTHER -> Door!Init
  /\ Motion!Init
  /\ Talk!Init
  /\ Upload!Init
  /\ Scenes!Init

lightOthers == <<part, dayVars, chargeVars, doorVars, motionVars, talkVars,
                 uploadVars, scenesVars>>
dayOthers == <<part, lightVars, chargeVars, doorVars, motionVars, talkVars,
               uploadVars, scenesVars>>
chargeOthers == <<part, lightVars, dayVars, doorVars, motionVars, talkVars,
                  uploadVars, scenesVars>>
doorOthers == <<part, lightVars, dayVars, chargeVars, motionVars, talkVars,
                uploadVars, scenesVars>>
motionOthers == <<part, lightVars, dayVars, chargeVars, doorVars, talkVars,
                  uploadVars, scenesVars>>
talkOthers == <<part, lightVars, dayVars, chargeVars, doorVars, motionVars,
                uploadVars, scenesVars>>
uploadOthers == <<part, lightVars, dayVars, chargeVars, doorVars, motionVars,
                  talkVars, scenesVars>>
scenesOthers == <<part, lightVars, dayVars, chargeVars, doorVars, motionVars,
                  talkVars, uploadVars>>

\* What the others would use stays as it is.
LightStep ==
  /\ part = "light" /\ Light!Next
  /\ UNCHANGED lightOthers
DayStep ==
  /\ part = "day" /\ Day!Next
  /\ UNCHANGED dayOthers
ChargeStep ==
  /\ part \in {"low", "full"} /\ Charge!Next
  /\ UNCHANGED chargeOthers
DoorStep ==
  /\ \/ part \in {"door sound", "door command"} /\ Door!Next
     \/ part = "door timers" /\ Timers!Next
  /\ UNCHANGED doorOthers
MotionStep ==
  /\ \/ part = "motion ends" /\ Motion!Next /\ losses' = 0
     \/ /\ part \in {"phone records", "phone stops", "setting"} /\ Motion!Next
        /\ (motionTicking \cup motionFired)' \subseteq {"t1"}
  /\ UNCHANGED motionOthers
TalkStep ==
  /\ part \in {"talk", "hang up"} /\ Talk!Next
  /\ UNCHANGED talkOthers
UploadStep ==
  /\ part = "upload" /\ Upload!Next
  /\ UNCHANGED uploadOthers
ScenesStep ==
  /\ part = "scene" /\ Scenes!Next
  /\ UNCHANGED scenesOthers

MCNext == LightStep \/ DayStep \/ ChargeStep \/ DoorStep \/ MotionStep \/
          TalkStep \/ UploadStep \/ ScenesStep

\* The actions that the fairness of each component names, numbered.
LightWeak(i) ==
  \/ i = 1 /\ Light!ReporterStep("r1")
  \/ i = 2 /\ Light!TimerStep("t1")
  \/ i = 3 /\ Light!TimerStep("t2")
  \/ i = 4 /\ Light!TimerStep("t3")
  \/ i = 5 /\ Light!UserStep("u1")
  \/ i = 6 /\ Light!WatcherStep
DayWeak(i) ==
  \/ i = 1 /\ Day!RunStep
  \/ i = 2 /\ Day!Retry
  \/ i = 3 /\ Day!UserStep("u1")
ChargeWeak(i) ==
  \/ i = 1 /\ Charge!Prepare
  \/ i = 2 /\ Charge!Record
  \/ i = 3 /\ Charge!Turn("a")
  \/ i = 4 /\ Charge!Obey("s1")
  \/ i = 5 /\ Charge!Read("s1")
  \/ i = 6 /\ Charge!Refresh("s1")
DoorWeak(i) ==
  \/ i = 1 /\ Door!Post
  \/ i = 2 /\ Door!Obey
  \/ i = 3 /\ Door!Settle
  \/ i = 4 /\ Door!Expire
  \/ i = 5 /\ Door!Fire("w1")
  \/ i = 6 /\ Door!Reply("w1")
  \/ i = 7 /\ 1 \in DOMAIN net /\ Door!Handle("w1", 1)
  \/ i = 8 /\ Door!TimerFires("t1")
  \/ i = 9 /\ Door!Repeat("t1")
TimersWeak(i) ==
  \/ i = 1 /\ Timers!Post
  \/ i = 2 /\ Timers!Obey
  \/ i = 3 /\ Timers!Settle
  \/ i = 4 /\ Timers!Expire
  \/ i = 5 /\ Timers!Fire("w1")
  \/ i = 6 /\ Timers!Reply("w1")
  \/ i = 7 /\ 1 \in DOMAIN net /\ Timers!Handle("w1", 1)
  \/ i = 8 /\ Timers!TimerFires("t1")
  \/ i = 9 /\ Timers!Repeat("t1")
  \/ i = 10 /\ Timers!TimerFires("t2")
  \/ i = 11 /\ Timers!Repeat("t2")
MotionWeak(i) ==
  \/ i = 1 /\ Motion!Quiet
  \/ i = 2 /\ Motion!LampOff
  \/ i = 3 /\ Motion!FireInactive
  \/ i = 4 /\ (Motion!Post("w1") \/ Motion!Handle("w1") \/ Motion!FireMotion("w1") \/ Motion!Reply("w1") \/ Motion!Receive("w1"))
  \/ i = 5 /\ Motion!TimerFires("t1")
  \/ i = 6 /\ Motion!Finish("t1")
  \/ i = 7 /\ Motion!TimerFires("t2")
  \/ i = 8 /\ Motion!Finish("t2")
TalkWeak(i) ==
  \/ i = 1 /\ Talk!MicrophoneGranted("r1")
  \/ i = 2 /\ Talk!SessionCreated("r1")
  \/ i = 3 /\ (Talk!OfferPosted("r1") \/ Talk!Fail("r1"))
  \/ i = 4 /\ Talk!Poll("r1")
  \/ i = 5 /\ Talk!NoticeArrives("r1")
  \/ i = 6 /\ Talk!Expire("r1")
  \/ i = 7 /\ Talk!HangUp("r1")
  \/ i = 8 /\ Talk!RequestDropped("r1")
  \/ i = 9 /\ Talk!ReportArrives("r1", "answer")
  \/ i = 10 /\ Talk!ReportArrives("r1", "connected")
  \/ i = 11 /\ Talk!ReportArrives("r1", "ended")
UploadWeak(i) ==
  \/ i = 1 /\ Upload!Handler("u1")
  \/ i = 2 /\ Upload!Handler("u2")
ScenesWeak(i) ==
  \/ i = 1 /\ Scenes!Finish(<<"p1", 1>>)
  \/ i = 2 /\ Scenes!Finish(<<"p2", 1>>)
  \/ i = 3 /\ Scenes!Send(<<"p1", 1>>, "d1")
  \/ i = 4 /\ Scenes!Send(<<"p1", 1>>, "d2")
  \/ i = 5 /\ Scenes!Send(<<"p2", 1>>, "d1")
  \/ i = 6 /\ Scenes!Send(<<"p2", 1>>, "d2")
Weak(i) ==
  \/ part = "light" /\ LightWeak(i) /\ UNCHANGED lightOthers
  \/ part = "day" /\ DayWeak(i) /\ UNCHANGED dayOthers
  \/ part \in {"low", "full"} /\ ChargeWeak(i) /\ UNCHANGED chargeOthers
  \/ part \in {"door sound", "door command"} /\ DoorWeak(i) /\ UNCHANGED doorOthers
  \/ part = "door timers" /\ TimersWeak(i) /\ UNCHANGED doorOthers
  \/ part \in {"motion ends", "phone records", "phone stops", "setting"} /\ MotionWeak(i) /\ UNCHANGED motionOthers
  \/ part \in {"talk", "hang up"} /\ TalkWeak(i) /\ UNCHANGED talkOthers
  \/ part = "upload" /\ UploadWeak(i) /\ UNCHANGED uploadOthers
  \/ part = "scene" /\ ScenesWeak(i) /\ UNCHANGED scenesOthers

MCSpec == MCInit /\ [][MCNext]_MCvars /\
          (\A i \in 1 .. 11 : WF_MCvars(Weak(i)))

------------------------------------------------------------------------------
\* Once it is over for good, it ends for good, whatever was lost, repeated or
\* replaced: the sound of a closed door, a recording that motion or an automation
\* started (unless the automation found no timer and there was no motion since),
\* the phone's part of a recording, and a talk.
Over ==
  CASE part \in {"door sound", "door timers"} -> status # "open"
    [] part = "motion ends" -> ~recent
    [] part = "phone records" -> recording
    [] part = "phone stops" -> ~recording
    [] OTHER -> part = "talk"
Ended ==
  CASE part \in {"door sound", "door timers"} -> ticking \cup fired = {}
    [] part = "motion ends" -> ~byMotion \/ routed = "untimed"
    [] part = "phone records" -> phoneRecords
    [] part = "phone stops" -> ~phoneRecords
    [] part = "talk" -> \A r \in {"r1"} : state[r] \in Talk!Terminal \cup {"none"}
    [] OTHER -> TRUE
AllEnds == <>[]Over => <>[]Ended

\* What was asked for arrives although answers are lost or taken by others: a
\* light goes off or there is motion, the day is reset, a phone is charged and
\* not overcharged, commands reach door and camera, the end of a talk reaches
\* the page, an upload and a scene end.
Asked ==
  CASE part \in {"light", "day"} -> TRUE
    [] part = "low" -> Charge!Owed("a", "s1") /\ battery["a"] = "low"
    [] part = "full" -> Charge!Owed("a", "s1") /\ battery["a"] = "full"
    [] part = "door command" -> "recalibrate" \in pending
    [] part = "setting" -> motionWanted /\ pendingDetects = TRUE
    [] part = "hang up" -> phone["r1"] = "over"
    [] part = "upload" -> step["u1"] = "admitted"
    [] part = "scene" -> <<"p1", 1>> \in Scenes!Running
    [] OTHER -> FALSE
Arrived ==
  CASE part = "light" -> motion \/ ~power
    [] part = "day" -> ~settings.enabled \/ clock < settings.hour \/ last = today
    [] part = "low" -> isOn["s1"] \/ ~Asked
    [] part = "full" -> ~isOn["s1"] \/ ~Asked
    [] part = "door command" -> told \/ faults > 0
    [] part = "setting" -> phoneDetects \/ ~motionWanted \/ losses > 0
    [] part = "hang up" -> at["r1"] # "live"
    [] part = "upload" -> step["u1"] \in Upload!Ends
    [] part = "scene" -> <<"p1", 1>> \notin Scenes!Running
    [] OTHER -> TRUE
AllArrives == Asked ~> Arrived
==============================================================================
