-------------------------- MODULE MCStrongFairness ---------------------------
(***************************************************************************)
(* What must happen, for TLC, where something has to get through again and *)
(* again: recordings, previews, the keys of a device, Tapo commands and    *)
(* sessions, status streams, Matter and the tools an operator repeats,     *)
(* under the fairness that the components state or less. A behaviour is    *)
(* about one component and one of its promises, as part says; the others   *)
(* stay in their initial states.                                           *)
(***************************************************************************)
EXTENDS Naturals

CONSTANTS Parts, None, PhonePoll, Refresher

VARIABLES
  part, \* which component the behaviour is about
  client, shown, until, process, routes, slot, current, timer, runner, user,
  used, excused,
  active, post, recent, viewers, notices, told, prefs, talk, left,
  mem, disk, keysClient, queued, stored, req, lock, checked, resetting, held,
  claim, keys, tokens, faults, crashes, proven, keysOf, calm,
  queue, owner, version, resolved, at, expected, targets, reading, noted, got,
  recover, commandClient, shadow, power, wrote, surprises, born, issued,
  stamp, lastWrite, drift,
  up, session, on, cache, auth, connecting, sessionAt, dev, wish, keep, seen,
  again, clean, known, applied, result, sessionUsed,
  streamVersion, streamLock, writer, listeners, streamQueue, free, lease,
  step, hand, streamShown, streamFirst, revoked, gone, streamOvertaken,
  loop, monitor, event, sync, matterGot, repair, syncLock, subscriptionLock,
  maintenanceLock, restart, matterActive, maintenance, started, sensor,
  matterStored, matterUsed,
  tree, staging, service, run, outcome, storageUsed, first, touched,
  tool, legacy, dest, copiesService, handoff, copiesRun, copiesUsed,
  cred, cand, kept, rotationLegacy, rotationService, snapshot,
  rotationHandoff, op, read, cleanup, base, mixed, rotationUsed,
  src, doc, live, rotated, archive, copy, residueService, residueHandoff,
  removing, verified, residueUsed

Recording == INSTANCE CameraRecording WITH
  Source <- {"s1", "s2"}, Retriggers <- {"s1"}, Timer <- {"t1", "t2", "t3"},
  User <- {"u1"}, Runner <- {"r1"}, MaxRuns <- 2, MaxRequests <- 0,
  MaxClients <- 0, MaxRemovals <- 0, MaxEdits <- 2, MaxFailures <- 1,
  MaxTimeouts <- 0
Preview == INSTANCE PreviewRequests WITH
  Page <- {"p1"}, Upload <- {}, ViewerTTL <- 0, MaxNotices <- 1, MaxLeft <- 0
Keys == INSTANCE DeviceKeys WITH
  Request <- {"r1"}, MaxKeys <- 2, MaxTokens <- 1, MaxFaults <- 0,
  MaxCrashes <- 1, client <- keysClient
Commands == INSTANCE TapoCommands WITH
  Device <- {"d1"}, Command <- {"c1"}, Scene <- {"s1", "s2"}, Watcher <- {},
  Limit <- 3, MaxIssued <- 3, MaxSurprises <- 0, MaxClients <- 1,
  client <- commandClient
Sessions == INSTANCE TapoSessions WITH
  Refresh <- Refresher,
  Scenes <- {"s1"}, Plain <- {}, MaxSessions <- 2, MaxAway <- 1, MaxLost <- 0,
  MaxFlips <- 0, at <- sessionAt, used <- sessionUsed
Streams == INSTANCE StatusStream WITH
  Streams <- {"s1"}, Writers <- {"w1"}, Limit <- 1,
  MaxVersion <- 2, version <- streamVersion, lock <- streamLock,
  queue <- streamQueue, shown <- streamShown, first <- streamFirst, overtaken <- streamOvertaken
Matter == INSTANCE MatterSync WITH
  Node <- {"n1"}, Sync <- {"s0", "s1"}, Startup <- "s0", Repair <- {"r1"},
  Loop <- "loop", MaxChanges <- 1, MaxSyncs <- 2, MaxRepairs <- 1,
  MaxBreaks <- 1, got <- matterGot, active <- matterActive,
  stored <- matterStored, used <- matterUsed
Storage == INSTANCE MatterStorage WITH
  MaxWrites <- 0, MaxStarts <- 2, MaxCrashes <- 0, MaxFailures <- 1,
  MayFail <- {"rename"}, Written <- {}, used <- storageUsed
Copies == INSTANCE FileCopies WITH
  Runs <- {"p", "q"}, Files <- {"a"},
  Tools <- {"recordings", "packages", "state"}, MaxWrites <- 0,
  MaxStarts <- 2, MaxCrashes <- 2, service <- copiesService, run <- copiesRun,
  used <- copiesUsed
Rotation == INSTANCE CredentialRotation WITH
  Names <- {"user", "pass"}, Changes <- {"pass"}, MaxRotations <- 1,
  MaxStops <- 1, MaxFaults <- 0, legacy <- rotationLegacy,
  service <- rotationService, handoff <- rotationHandoff, used <- rotationUsed
Residue == INSTANCE SourceResidue WITH
  State <- {"s"}, History <- {"h"}, Copied <- {"c"}, Other <- {},
  Blockers <- {"b"}, MaxTouches <- 0, MaxKills <- 1, MaxFaults <- 1,
  service <- residueService, handoff <- residueHandoff, used <- residueUsed

recordingVars == <<client, shown, until, process, routes, slot, current,
                   timer, runner, user, used, excused>>
previewVars == <<active, post, recent, viewers, notices, told, prefs, talk,
                 left>>
keysVars == <<mem, disk, keysClient, queued, stored, req, lock, checked,
              resetting, held, claim, keys, tokens, faults, crashes, proven,
              keysOf, calm>>
commandsVars == <<queue, owner, version, resolved, at, expected, targets,
                  reading, noted, got, recover, commandClient, shadow, power,
                  wrote, surprises, born, issued, stamp, lastWrite, drift>>
sessionsVars == <<up, session, on, cache, auth, connecting, sessionAt, dev,
                  wish, keep, seen, again, clean, known, applied, result,
                  sessionUsed>>
streamsVars == <<streamVersion, streamLock, writer, listeners, streamQueue,
                 free, lease, step, hand, streamShown, streamFirst, revoked, gone, streamOvertaken>>
matterVars == <<loop, monitor, event, sync, matterGot, repair, syncLock,
                subscriptionLock, maintenanceLock, restart, matterActive,
                maintenance, started, sensor, matterStored, matterUsed>>
storageVars == <<tree, staging, service, run, outcome, storageUsed, first,
                 touched>>
copiesVars == <<tool, legacy, dest, copiesService, handoff, copiesRun,
                copiesUsed>>
rotationVars == <<cred, cand, kept, rotationLegacy, rotationService, snapshot,
                  rotationHandoff, op, read, cleanup, base, mixed, rotationUsed>>
residueVars == <<src, doc, live, rotated, archive, copy, residueService,
                 residueHandoff, removing, verified, residueUsed>>
MCvars == <<part, recordingVars, previewVars, keysVars, commandsVars,
                  sessionsVars, streamsVars, matterVars, storageVars,
                  copiesVars, rotationVars, residueVars>>

MCInit ==
  /\ part \in Parts
  /\ Recording!Init
  /\ Preview!Init
  /\ Keys!Init
  /\ Commands!Init
  /\ CASE part = "session" -> Sessions!Init
       [] OTHER -> Sessions!Init /\ on = FALSE
  /\ Streams!Init
  /\ Matter!Init
  /\ Storage!Init
  /\ CASE part = "copies" -> Copies!Init
       [] OTHER -> Copies!Init /\ tool = "state"
  /\ Rotation!Init
  /\ CASE part = "residue" -> Residue!Init
       [] OTHER -> Residue!Init /\ src = [t \in DOMAIN src |-> 0]

recordingOthers == <<part, previewVars, keysVars, commandsVars, sessionsVars,
                     streamsVars, matterVars, storageVars, copiesVars,
                     rotationVars, residueVars>>
previewOthers == <<part, recordingVars, keysVars, commandsVars, sessionsVars,
                   streamsVars, matterVars, storageVars, copiesVars,
                   rotationVars, residueVars>>
keysOthers == <<part, recordingVars, previewVars, commandsVars, sessionsVars,
                streamsVars, matterVars, storageVars, copiesVars,
                rotationVars, residueVars>>
commandsOthers == <<part, recordingVars, previewVars, keysVars, sessionsVars,
                    streamsVars, matterVars, storageVars, copiesVars,
                    rotationVars, residueVars>>
sessionsOthers == <<part, recordingVars, previewVars, keysVars, commandsVars,
                    streamsVars, matterVars, storageVars, copiesVars,
                    rotationVars, residueVars>>
streamsOthers == <<part, recordingVars, previewVars, keysVars, commandsVars,
                   sessionsVars, matterVars, storageVars, copiesVars,
                   rotationVars, residueVars>>
matterOthers == <<part, recordingVars, previewVars, keysVars, commandsVars,
                  sessionsVars, streamsVars, storageVars, copiesVars,
                  rotationVars, residueVars>>
storageOthers == <<part, recordingVars, previewVars, keysVars, commandsVars,
                   sessionsVars, streamsVars, matterVars, copiesVars,
                   rotationVars, residueVars>>
copiesOthers == <<part, recordingVars, previewVars, keysVars, commandsVars,
                  sessionsVars, streamsVars, matterVars, storageVars,
                  rotationVars, residueVars>>
rotationOthers == <<part, recordingVars, previewVars, keysVars, commandsVars,
                    sessionsVars, streamsVars, matterVars, storageVars,
                    copiesVars, residueVars>>
residueOthers == <<part, recordingVars, previewVars, keysVars, commandsVars,
                   sessionsVars, streamsVars, matterVars, storageVars,
                   copiesVars, rotationVars>>

\* What the others would use stays as it is.
RecordingStep ==
  /\ part = "recording" /\ Recording!Next
  /\ UNCHANGED recordingOthers
PreviewStep ==
  /\ \/ part = "sleep" /\ Preview!Next
     \/ part = "wake" /\ Preview!Next
  /\ UNCHANGED previewOthers
KeysStep ==
  /\ part = "hand-off" /\ Keys!Next /\ calm'
  /\ UNCHANGED keysOthers
CommandsStep ==
  /\ part = "scene" /\ Commands!Next
  /\ UNCHANGED commandsOthers
SessionsStep ==
  /\ part = "session" /\ Sessions!Next
  /\ UNCHANGED sessionsOthers
StreamsStep ==
  /\ part = "stream" /\ Streams!Next
  /\ UNCHANGED streamsOthers
MatterStep ==
  /\ part \in {"monitoring", "reports", "sync", "repair"} /\ Matter!Next
  /\ UNCHANGED matterOthers
StorageStep ==
  /\ part = "relocation" /\ Storage!Next
  /\ UNCHANGED storageOthers
CopiesStep ==
  /\ part = "copies" /\ Copies!Next
  /\ UNCHANGED copiesOthers
RotationStep ==
  /\ part = "rotation" /\ Rotation!Next
  /\ UNCHANGED rotationOthers
ResidueStep ==
  /\ part = "residue" /\ Residue!Next
  /\ UNCHANGED residueOthers

MCNext == RecordingStep \/ PreviewStep \/ KeysStep \/ CommandsStep \/
          SessionsStep \/ StreamsStep \/ MatterStep \/ StorageStep \/
          CopiesStep \/ RotationStep \/ ResidueStep

\* The actions that the fairness of each component names, numbered.
RecordingWeak(i) ==
  \/ i = 1 /\ Recording!Fire("t1")
  \/ i = 2 /\ Recording!Fire("t2")
  \/ i = 3 /\ Recording!Fire("t3")
PreviewWeak(i) ==
  \/ i = 1 /\ Preview!Tick
  \/ i = 2 /\ Preview!Beat("p1")
  \/ i = 3 /\ Preview!Settle("p1")
  \/ i = 4 /\ (Preview!Serve("p1", TRUE) \/ Preview!Done("p1", TRUE))
  \/ i = 5 /\ (Preview!Serve("p1", FALSE) \/ Preview!Done("p1", FALSE))
  \/ i = 6 /\ Preview!Ask(PhonePoll)
  \/ i = 7 /\ (Preview!PushEnds(TRUE, TRUE) \/ Preview!PushEnds(TRUE, FALSE))
  \/ i = 8 /\ (Preview!PushEnds(FALSE, TRUE) \/ Preview!PushEnds(FALSE, FALSE))
WakeWeak(i) ==
  \/ i = 1 /\ Preview!Tick
  \/ i = 2 /\ Preview!Beat("p1")
  \/ i = 3 /\ Preview!Settle("p1")
  \/ i = 4 /\ (Preview!Serve("p1", TRUE) \/ Preview!Done("p1", TRUE))
  \/ i = 5 /\ (Preview!Serve("p1", FALSE) \/ Preview!Done("p1", FALSE))
  \/ i = 6 /\ Preview!Ask(PhonePoll)
  \/ i = 7 /\ (Preview!PushEnds(TRUE, TRUE) \/ Preview!PushEnds(TRUE, FALSE))
  \/ i = 8 /\ (Preview!PushEnds(FALSE, TRUE) \/ Preview!PushEnds(FALSE, FALSE))
KeysWeak(i) ==
  \/ i = 1 /\ Keys!ServerStep("r1") /\ calm'
  \/ i = 2 /\ Keys!Lose("r1") /\ calm'
CommandsWeak(i) ==
  \/ i = 1 /\ Commands!CommandStep("c1", "d1")
  \/ i = 2 /\ Commands!SceneStep("s1", "d1")
  \/ i = 3 /\ Commands!SceneStep("s2", "d1")
SessionsWeak(i) ==
  \/ i = 1 /\ Sessions!BeginRefresh
  \/ i = 2 /\ Sessions!Publish
  \/ i = 3 /\ Sessions!Act("s1")
  \/ i = 4 /\ Sessions!Act(Refresher)
  \/ i = 5 /\ Sessions!CommandStep("s1")
StreamsWeak(i) ==
  \/ i = 1 /\ Streams!Broadcast("w1")
  \/ i = 2 /\ Streams!Stream("s1")
  \/ i = 3 /\ Streams!Admit("s1")
MatterWeak(i) ==
  \/ i = 1 /\ (Matter!WaitForStartup \/ Matter!CheckTurn \/ Matter!StartMonitors \/ Matter!Join \/ Matter!NextRound)
  \/ i = 2 /\ Matter!MonitorStep("n1")
  \/ i = 3 /\ Matter!Receive("n1")
  \/ i = 4 /\ Matter!Begin("s0")
  \/ i = 5 /\ Matter!SyncStep("s0")
  \/ i = 6 /\ Matter!SyncStep("s1")
  \/ i = 7 /\ Matter!RepairStep("r1")
StorageWeak(i) ==
  \/ i = 1 /\ Storage!Steps
  \/ i = 2 /\ Storage!StopService
CopiesWeak(i) ==
  \/ i = 1 /\ Copies!Steps("p")
  \/ i = 2 /\ Copies!Steps("q")
  \/ i = 3 /\ Copies!StopService /\ (tool = "state" => handoff # None)
  \/ i = 4 /\ Copies!StartService /\ tool = "state" /\ handoff = None
RotationWeak(i) ==
  \/ i = 1 /\ Rotation!Continuing
  \/ i = 2 /\ Rotation!Removing
  \/ i = 3 /\ Rotation!BeginCopy
  \/ i = 4 /\ Rotation!BeginStage
  \/ i = 5 /\ Rotation!BeginActivate
  \/ i = 6 /\ Rotation!Preflight
  \/ i = 7 /\ Rotation!Stop /\ Rotation!Wanted
  \/ i = 8 /\ Rotation!Start /\ ~(rotationHandoff /\ Rotation!Finalizable)
ResidueWeak(i) ==
  \/ i = 1 /\ Residue!Stop
  \/ i = 2 /\ Residue!Start
  \/ i = 3 /\ Residue!EndCleanup
  \/ i = 4 /\ Residue!Remove("s")
  \/ i = 5 /\ Residue!Remove("h")
  \/ i = 6 /\ (Residue!Remove("c") \/ Residue!Discard("c"))
Weak(i) ==
  \/ part = "recording" /\ RecordingWeak(i) /\ UNCHANGED recordingOthers
  \/ part = "sleep" /\ PreviewWeak(i) /\ UNCHANGED previewOthers
  \/ part = "wake" /\ WakeWeak(i) /\ UNCHANGED previewOthers
  \/ part = "hand-off" /\ KeysWeak(i) /\ UNCHANGED keysOthers
  \/ part = "scene" /\ CommandsWeak(i) /\ UNCHANGED commandsOthers
  \/ part = "session" /\ SessionsWeak(i) /\ UNCHANGED sessionsOthers
  \/ part = "stream" /\ StreamsWeak(i) /\ UNCHANGED streamsOthers
  \/ part \in {"monitoring", "reports", "sync", "repair"} /\ MatterWeak(i) /\ UNCHANGED matterOthers
  \/ part = "relocation" /\ StorageWeak(i) /\ UNCHANGED storageOthers
  \/ part = "copies" /\ CopiesWeak(i) /\ UNCHANGED copiesOthers
  \/ part = "rotation" /\ RotationWeak(i) /\ UNCHANGED rotationOthers
  \/ part = "residue" /\ ResidueWeak(i) /\ UNCHANGED residueOthers

RecordingStrong(i) ==
  \/ i = 1 /\ \E t \in {"t1", "t2", "t3"} : Recording!TimerStep(t)
  \/ i = 2 /\ (Recording!RunnerStep("r1") \/ Recording!UserStep("u1"))
PreviewStrong(i) ==
  \/ i = 1 /\ Preview!Serve("p1", TRUE)
  \/ i = 2 /\ Preview!Answer(PhonePoll)
  \/ i = 3 /\ Preview!Apply(PhonePoll)
WakeStrong(i) ==
  \/ i = 1 /\ Preview!Serve("p1", TRUE)
  \/ i = 2 /\ Preview!PushEnds(TRUE, TRUE)
  \/ i = 3 /\ Preview!Apply(PhonePoll)
KeysStrong(i) ==
  \/ i = 1 /\ Keys!Send("r1", "signed") /\ calm'
  \/ i = 2 /\ Keys!MatchKey("r1") /\ calm'
  \/ i = 3 /\ Keys!Receive("r1") /\ calm'
CommandsStrong(i) ==
  \/ i = 1 /\ Commands!HoldStep("c1", "d1")
  \/ i = 2 /\ Commands!HoldStep("s1", "d1")
  \/ i = 3 /\ Commands!HoldStep("s2", "d1")
SessionsStrong(i) ==
  \/ i = 1 /\ Sessions!Enter("s1")
  \/ i = 2 /\ Sessions!Enter(Refresher)
StreamsStrong(i) ==
  \/ i = 1 /\ Streams!Snapshot("s1")
MatterStrong(i) ==
  \/ i = 1 /\ Matter!TakeTurn
  \/ i = 2 /\ \E s \in {"s0", "s1"} : Matter!Drain(s)
  \/ i = 3 /\ (Matter!LockSync("r1") \/ Matter!DrainForRepair("r1"))
StorageStrong(i) ==
  \/ i = 1 /\ Storage!Start("controller")
  \/ i = 2 /\ Storage!Start("subscription")
  \/ i = 3 /\ Storage!Start("cutover")
CopiesStrong(i) ==
  \/ i = 1 /\ \E r \in {"p", "q"} : Copies!Begin(r) /\ \A q \in {"p", "q"} : copiesRun[q].phase \in Copies!Ended
  \/ i = 2 /\ Copies!Preflight
RotationStrong(i) ==
  \/ i = 1 /\ Rotation!BeginCleanup
ResidueStrong(i) ==
  \/ i = 1 /\ Residue!Preflight
  \/ i = 2 /\ Residue!BeginCleanup
  \/ i = 3 /\ (Residue!Verify \/ Residue!Archive("h") \/ Residue!SaveDocument("s") \/ Residue!Recopy("c") \/ Residue!Resolve("b"))
Strong(i) ==
  \/ part = "recording" /\ RecordingStrong(i) /\ UNCHANGED recordingOthers
  \/ part = "sleep" /\ PreviewStrong(i) /\ UNCHANGED previewOthers
  \/ part = "wake" /\ WakeStrong(i) /\ UNCHANGED previewOthers
  \/ part = "hand-off" /\ KeysStrong(i) /\ UNCHANGED keysOthers
  \/ part = "scene" /\ CommandsStrong(i) /\ UNCHANGED commandsOthers
  \/ part = "session" /\ SessionsStrong(i) /\ UNCHANGED sessionsOthers
  \/ part = "stream" /\ StreamsStrong(i) /\ UNCHANGED streamsOthers
  \/ part \in {"monitoring", "reports", "sync", "repair"} /\ MatterStrong(i) /\ UNCHANGED matterOthers
  \/ part = "relocation" /\ StorageStrong(i) /\ UNCHANGED storageOthers
  \/ part = "copies" /\ CopiesStrong(i) /\ UNCHANGED copiesOthers
  \/ part = "rotation" /\ RotationStrong(i) /\ UNCHANGED rotationOthers
  \/ part = "residue" /\ ResidueStrong(i) /\ UNCHANGED residueOthers

MCSpec == MCInit /\ [][MCNext]_MCvars /\
          (\A i \in 1 .. 8 : WF_MCvars(Weak(i))) /\
          (\A i \in 1 .. 3 : SF_MCvars(Strong(i)))

------------------------------------------------------------------------------
\* What was asked for comes true however often answers are lost, locks are
\* taken by others, devices vanish and steps are killed: a recording stops, a
\* phone wakes and sleeps, a key hand-off completes, commands and scenes end, a
\* dead session is dropped, a stream's slot returns, Matter is monitored again
\* after every sync and repair, and the operator who repeats the tools gets
\* storage and files moved, a credential rotated (or rolled back, also beside
\* the removal) and the residue removed.
Asked ==
  CASE part = "hand-off" -> mem.pending # None /\ Keys!IsCurrent(held) /\ calm
    [] part = "scene" -> at["s1"]["d1"] \in Commands!Waiting
    [] part = "session" -> cache # None /\ auth[cache] # session
    [] part = "stream" -> "s1" \in gone \/ ~Streams!Authorized("s1")
    [] OTHER -> TRUE
ComesTrue ==
  CASE part = "recording" -> ~process
    [] part = "sleep" -> ~prefs \/ active["p1"]
    [] part = "wake" -> prefs \/ ~active["p1"]
    [] part = "hand-off" -> mem.pending = None \/ ~calm
    [] part = "scene" -> at["s1"]["d1"] = "idle"
    [] part = "session" -> cache = None \/ auth[cache] = session
    [] part = "stream" -> "s1" \notin lease
    [] part = "monitoring" -> monitor["n1"] = "live"
    [] part = "reports" -> matterStored["n1"] = sensor["n1"]
    [] part = "sync" -> sync["s1"] = "idle"
    [] part = "repair" -> repair["r1"] = "idle"
    [] part = "relocation" -> Storage!Archived = Storage!Tree
    [] part = "copies" -> \A f \in {"a"} : Copies!Same(f, legacy)
    [] part = "rotation" ->
         \/ rotationService /\ snapshot = cred /\ cand = None /\ ~kept.dir /\ rotationLegacy = {}
         \/ kept.manifest \in {"rolled-back", "rolled-back-after-failure"}
         \/ mixed
    [] part = "residue" -> verified
    [] OTHER -> TRUE
AllComesTrue == Asked ~> ComesTrue
==============================================================================
