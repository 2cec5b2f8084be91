---------------------------- MODULE MCAutomations ----------------------------
(***************************************************************************)
(* The automations for TLC: the timers of motion lights and of recordings, *)
(* the return to Day, the recharging of phones and the routes pages edit.  *)
(* The components share no state: a behaviour is about one of them, as     *)
(* part says, and the others stay in their initial states.                 *)
(***************************************************************************)
EXTENDS AutoOff

CONSTANTS
  Parts,
  Viewer,                                  \* the users of recordings and of modes
  Source, Retriggers, Runner,              \* recordings
  MaxRuns, MaxRequests, MaxClients, MaxRemovals, MaxSourceEdits,
  Key, Rooms, Device, Lamps, LastHour,     \* the return to Day
  MaxDays, MaxChoices, MaxSaves

VARIABLES
  part, \* which component the behaviour is about
  client, shown, until, process, routes, slot, recCurrent, recTimer, runner,
  recUser, recUsed, recExcused,
  today, clock, settings, last, active, light, daySlot, loop, waiting,
  dayUser, dayUsed, wanted, newer, done,
  known, name, battery, fresh, rule, isOn, record, pass, chargeUser, reading,
  chargeNewer, left, chargeUsed,
  pageRoutes, file, view, next, pageUsed, pageLast, gone, behind, unsaved

\* The motion lights are AutoOff itself.
Recording == INSTANCE CameraRecording WITH
  User <- Viewer, MaxEdits <- MaxSourceEdits, current <- recCurrent,
  timer <- recTimer, user <- recUser, used <- recUsed, excused <- recExcused
Day == INSTANCE DayReset WITH
  KeyDevices <- [k \in Key |-> IF k \in Rooms THEN Device ELSE Lamps],
  User <- Viewer, slot <- daySlot, user <- dayUser, used <- dayUsed
Charging == INSTANCE Recharge WITH
  Clients <- <<"a", "b">>, Plug <- {"s1"}, Name <- {"n1", "n2"},
  Ruled <- [p \in {"a", "b"} |-> IF p = "b" THEN "s1" ELSE None],
  MaxCommands <- 0, MaxFailures <- 0, MaxChanges <- 2, user <- chargeUser,
  newer <- chargeNewer, used <- chargeUsed
OnePage == INSTANCE AutomationRoutes WITH
  Value <- {"v", "w"}, Device <- {"d", "e"},
  SourceOf <- [x \in {"v", "w"} |-> IF x = "v" THEN "d" ELSE "e"],
  Page <- {"p"}, MaxRoutes <- 3, MaxFailures <- 1, MaxRestarts <- 1,
  MaxPrunes <- 1, routes <- pageRoutes, used <- pageUsed, last <- pageLast
TwoPages == INSTANCE AutomationRoutes WITH
  Value <- {"v", "w"}, Device <- {"d", "e"},
  SourceOf <- [x \in {"v", "w"} |-> IF x = "v" THEN "d" ELSE "e"],
  Page <- {"p", "q"}, MaxRoutes <- 2, MaxFailures <- 1, MaxRestarts <- 1,
  MaxPrunes <- 1, routes <- pageRoutes, used <- pageUsed, last <- pageLast

\* Nobody is two of those who take the slot of a camera, and a day has hours.
ASSUME AutomationsAssumption ==
  /\ Timer \cap Runner = {} /\ Timer \cap Viewer = {} /\ Runner \cap Viewer = {}
  /\ None \notin Timer \cup Runner \cup Viewer \cup {"start", "stop", "remove"}
  /\ LastHour \in Nat \ {0}

motionVars == <<route, enabled, motion, power, shadow, queue, current, timer,
                reporter, user, watcher, used, revoked, drift, excused>>
recordingVars == <<client, shown, until, process, routes, slot, recCurrent,
                   recTimer, runner, recUser, recUsed, recExcused>>
dayVars == <<today, clock, settings, last, active, light, daySlot, loop,
             waiting, dayUser, dayUsed, wanted, newer, done>>
chargingVars == <<known, name, battery, fresh, rule, isOn, record, pass,
                  chargeUser, reading, chargeNewer, left, chargeUsed>>
routesVars == <<pageRoutes, file, view, next, pageUsed, pageLast, gone,
                behind, unsaved>>
MCvars == <<part, motionVars, recordingVars, dayVars, chargingVars,
                  routesVars>>

MCInit ==
  /\ part \in Parts
  /\ Init /\ Recording!Init /\ Day!Init
  /\ CASE part = "charging" -> Charging!Init
       [] OTHER -> Charging!Init /\ name = [p \in {"a", "b"} |-> "n1"]
  /\ CASE part = "two pages" -> TwoPages!Init
       [] OTHER -> OnePage!Init

\* One thread takes all reports, and one all commands.
OneReporter == \A r \in Reporter : reporter[r].at # "idle" => r = CHOOSE q \in Reporter : TRUE
OneUser     == \A u \in User : user[u].at # "idle" => u = CHOOSE v \in User : TRUE

\* What the others would use stays as it is.
MotionStep ==
  /\ \/ /\ part = "motion" /\ Next /\ OneReporter' /\ OneUser'
        /\ used'.commands <= 1 /\ used'.timeouts = 0
     \/ /\ part = "motion races" /\ Next
        /\ used'.edits = 0 /\ used'.losses = 0 /\ used'.surprises = 0
  /\ UNCHANGED <<part, recordingVars, dayVars, chargingVars, routesVars>>
RecordingStep ==
  /\ part = "recording" /\ Recording!Next
  /\ UNCHANGED <<part, motionVars, dayVars, chargingVars, routesVars>>
DayStep ==
  /\ part = "day" /\ Day!Next
  /\ UNCHANGED <<part, motionVars, recordingVars, chargingVars, routesVars>>
ChargingStep ==
  /\ part = "charging" /\ Charging!Next
  /\ UNCHANGED <<part, motionVars, recordingVars, dayVars, routesVars>>
RoutesStep ==
  /\ \/ part = "page" /\ OnePage!Next
     \/ part = "two pages" /\ TwoPages!Next
  /\ UNCHANGED <<part, motionVars, recordingVars, dayVars, chargingVars>>

MCNext == MotionStep \/ RecordingStep \/ DayStep \/ ChargingStep \/ RoutesStep

MCSpec == MCInit /\ [][MCNext]_MCvars

------------------------------------------------------------------------------
\* The types of the components.
TypesOK ==
  /\ part \in {"motion", "motion races"} => TypeOK
  /\ part = "recording" => Recording!TypeOK
  /\ part = "day" => Day!TypeOK
  /\ part = "charging" => Charging!TypeOK
  /\ part = "page" => OnePage!TypeOK
  /\ part = "two pages" => TwoPages!TypeOK

\* Devices do what their automations say: a light is on during motion; a
\* recording shows what the phone does, keeps no dead timer and is not ended by
\* a timer that was replaced; the lights return to Day once a date, and Day is
\* stored when they show it or a user changed them since (run_tapo_day_reset).
ActionsAreTrue ==
  /\ [](part = "motion" => LightDuringMotion)
  /\ [](part = "recording" => Recording!NoDeadTimer /\ Recording!InSync)
  /\ [][/\ part = "recording" => Recording!RevokedIsSilent
        /\ part = "day" => Day!OncePerDate /\ Day!MarkedWhenShown]_MCvars

\* Rules and routes name what a user meant: no rule of a client that was removed
\* otherwise than by a command or with its add-on, none lost or doubled by a pass;
\* a page changes the automation that it shows, unless an automation was deleted
\* or edited since by another page, with its client or by a request whose save was
\* rejected; a security action exists once and stays deleted.
RulesAreKept ==
  /\ [](part = "charging" => Charging!NoDanglingRule)
  /\ [][part = "charging" => Charging!RulesKept]_MCvars
  /\ [](part \in {"page", "two pages"} => OnePage!ChangesWhatIsShown)
  /\ [](part = "two pages" => TwoPages!OneOfEach /\ TwoPages!StaysDeleted)
==============================================================================
