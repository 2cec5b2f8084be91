------------------------------ MODULE MCCameras ------------------------------
(***************************************************************************)
(* The Android cameras and sensors for TLC: the door sensor, motion, talk  *)
(* and the preview a phone serves. They share no state: a behaviour is     *)
(* about one of them, as part says, and the others stay in their initial   *)
(* states.                                                                 *)
(***************************************************************************)
EXTENDS PreviewRequests, FiniteSets, TLC

CONSTANTS
  Parts, Worker, Camera, Run,
  Timer,       \* timers of the repeated sound
  EndTimer,    \* timers that end a recording
  MaxNet, MaxFaults, MaxRequests,  \* bounds of the door
  MaxCommands, MaxRestarts,        \* bounds of the motion
  MaxLosses                        \* bound: what gets lost of motion and talk

ASSUME CamerasAssumption ==
  /\ None \notin Timer \cup EndTimer /\ IsFiniteSet(Timer) /\ IsFiniteSet(EndTimer)
  /\ None \notin Run /\ None \notin Camera
  /\ MaxNet \in Nat

VARIABLES
  part, \* which component the behaviour is about
  door, calibrates, doorTold, net, status, phase, due, ignore, calibrating,
  pending, work, registered, ticking, fired, newest, rest, faults, requests,
  phoneDetects, phoneRecords, detects, recording, byMotion, motionRecent,
  pendingDetects, pendingRecord, request, endTimer, endTicking, endFired,
  outdated, ended, lamp, wanted, manual, routed, commands, losses, restarts,
  camera, at, open, requested, lit, gone, state, answered, linked, phone,
  push, reports, talkNotices, early, talkLosses

Door == INSTANCE DoorSensor WITH told <- doorTold
Motion == INSTANCE CameraMotion WITH
  Timer <- EndTimer, recent <- motionRecent, registered <- endTimer, ticking <- endTicking,
  fired <- endFired
Talk == INSTANCE CameraTalk WITH notices <- talkNotices, losses <- talkLosses

doorVars == <<door, calibrates, doorTold, net, status, phase, due, ignore,
              calibrating, pending, work, registered, ticking, fired, newest,
              rest, faults, requests>>
motionVars == <<phoneDetects, phoneRecords, detects, recording, byMotion,
                motionRecent, pendingDetects, pendingRecord, request,
                endTimer, endTicking, endFired, outdated, ended, lamp, wanted,
                manual, routed, commands, losses, restarts>>
talkVars == <<camera, at, open, requested, lit, gone, state, answered, linked,
              phone, push, reports, talkNotices, early, talkLosses>>
MCvars == <<part, vars, doorVars, motionVars, talkVars>>

MCInit ==
  /\ part \in Parts
  /\ Init
  /\ Door!Init
  /\ Motion!Init
  /\ Talk!Init

MotionParts == {"motion", "motion timers"}

\* One timer is enough, or one request of the phone at a time.
OneTimer == endTicking \cup endFired \subseteq {CHOOSE t \in EndTimer : TRUE}
OneRequest == \A w, v \in Worker :
  request[w] # Motion!Idle /\ request[v] # Motion!Idle => w = v

\* What the others would use stays as it is.
RequestsStep ==
  /\ part = "requests" /\ Next
  /\ UNCHANGED <<part, doorVars, motionVars, talkVars>>
DoorStep ==
  /\ part = "door" /\ Door!Next
  /\ UNCHANGED <<part, vars, motionVars, talkVars>>
MotionStep ==
  /\ part \in MotionParts /\ Motion!Next
  /\ \/ part = "motion" /\ OneTimer'
     \/ part = "motion timers" /\ OneRequest' /\ restarts' = 0
  /\ UNCHANGED <<part, vars, doorVars, talkVars>>
TalkStep ==
  /\ part = "talk" /\ Talk!Next
  /\ UNCHANGED <<part, vars, doorVars, motionVars>>

MCNext == RequestsStep \/ DoorStep \/ MotionStep \/ TalkStep

MCSpec == MCInit /\ [][MCNext]_MCvars

\* The two members of every set change places at once: only one component moves.
Places == {p @@ w @@ c @@ r : p \in Permutations(Page), w \in Permutations(Worker),
                              c \in Permutations(Camera), r \in Permutations(Run)}
Symmetric == {f \in Places : \A x, y \in DOMAIN f : f[x] = x <=> f[y] = y}

------------------------------------------------------------------------------
\* The types of the components.
TypesOK ==
  /\ TypeOK
  /\ part = "door" => Door!TypeOK
  /\ part \in MotionParts => Motion!TypeOK
  /\ part = "talk" => Talk!TypeOK

\* The door: messages that overtake each other leave the newest reading, and
\* an opening fires only after the sensor was seen closed (set_door_status).
DoorIsTrue ==
  /\ [](part = "door" => Door!ShowsNewest)
  /\ [][part = "door" => Door!ClosedSeen]_MCvars

\* What a user started stays: a recording made by hand is not ended by the
\* timers of a motion, unless an automation has recorded with the camera since,
\* and a talk that is over never makes the phone talk.
UsersDecide ==
  /\ [](part = "talk" => Talk!NoTalkAfterEnd)
  /\ [][(part \in MotionParts) => Motion!ManualStays]_MCvars
==============================================================================
