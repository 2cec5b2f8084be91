------------------------------- MODULE AutoOff -------------------------------
(***************************************************************************)
(* A motion automation that turns a Tapo device on and off again some time *)
(* after the sensor is clear (subsystems/automations/trigger_routes.py).   *)
(* One sensor, one device and one automation with auto_off.  Threads that  *)
(* report motion, timer threads, ordered user commands and the watcher     *)
(* share STATE_LOCK for each short step and the slot of the device for     *)
(* each command; the slot is the first place of a queue (TapoCommands).    *)
(*                                                                         *)
(* Time is left out: a timer may fire at any moment after it was started.  *)
(* The key of the timer is the same for every version of the automation,   *)
(* so route_timers is one entry; armed_device_off_timers has the key       *)
(* exactly when route_timers has it, and is left out.                      *)
(***************************************************************************)
EXTENDS Naturals, Sequences, SequencesExt

CONSTANTS
  Reporter,    \* threads that take reports of the sensor
  Timer,       \* threading.Timer objects; a finished one is reused
  User,        \* threads that serve ordered power commands
  None,
  MaxReports, MaxCommands, MaxEdits, MaxFailures, MaxLosses,
  MaxTimeouts, MaxSurprises  \* bounds

ASSUME AutoOffAssumption ==
  /\ Reporter \cap Timer = {} /\ Reporter \cap User = {} /\ Timer \cap User = {}
  /\ None \notin Timer
  /\ {MaxReports, MaxCommands, MaxEdits, MaxFailures, MaxLosses,
      MaxTimeouts, MaxSurprises} \subseteq Nat

VARIABLES
  route,      \* the version of the automation in get_routes(), 0 when deleted
  enabled,    \* _route_enabled_for_current_state of it
  motion,     \* motion_active of the sensor
  power,      \* the device
  shadow,     \* tapo_is_on of its client
  queue,      \* those who hold (first) or wait for the slot of the device
  current,    \* route_timers[key]
  timer,      \* each timer: its thread and the automation it was made for
  reporter,   \* each report in progress
  user,       \* each user command in progress
  watcher,    \* a power change the watcher has stored and not published yet
  used,       \* bounds: how much of each of them is used
  revoked,    \* history: timers that were cancelled or replaced
  drift,      \* history: shadow may be wrong for a reason other than the order of steps
  excused     \* history: there was a reason for the device to be off during motion

automation == <<route, enabled>>
device == <<power, shadow, queue>>
vars == <<automation, motion, device, current, timer, reporter, user, watcher,
          used, revoked, drift, excused>>

Bounds == [reports |-> MaxReports, commands |-> MaxCommands, edits |-> MaxEdits,
           failures |-> MaxFailures, losses |-> MaxLosses,
           timeouts |-> MaxTimeouts, surprises |-> MaxSurprises]
Actor == Reporter \cup Timer \cup User

TypeOK ==
  /\ route \in Nat /\ {enabled, motion, power, shadow, drift, excused} \subseteq BOOLEAN
  /\ queue \in Seq(Actor) /\ IsInjective(queue)
  /\ current \in Timer \cup {None} /\ revoked \subseteq Timer
  /\ timer \in [Timer -> [at : {"done", "pending", "waiting", "sending", "sent", "failed"}, route : Nat]]
  /\ reporter \in [Reporter -> [at : {"idle", "reported", "matched", "cancelled", "waiting",
                                      "sending", "sent"}, active : BOOLEAN, route : Nat]]
  /\ user \in [User -> [at : {"idle", "waiting", "stored"}, on : BOOLEAN]]
  /\ watcher \in {"idle", "on", "off"}
  /\ used \in [DOMAIN Bounds -> Nat] /\ \A b \in DOMAIN Bounds : used[b] <= Bounds[b]

Finished == [at |-> "done", route |-> 0]
NoReport == [at |-> "idle", active |-> FALSE, route |-> 0]
NoCommand == [at |-> "idle", on |-> FALSE]

Init ==
  /\ route = 1 /\ enabled = TRUE /\ motion = FALSE /\ power = FALSE /\ shadow = FALSE
  /\ queue = <<>> /\ current = None /\ timer = [t \in Timer |-> Finished]
  /\ reporter = [r \in Reporter |-> NoReport] /\ user = [u \in User |-> NoCommand]
  /\ watcher = "idle" /\ used = [b \in DOMAIN Bounds |-> 0]
  /\ revoked = {} /\ drift = FALSE /\ excused = TRUE

Spend(b) == used[b] < Bounds[b] /\ used' = [used EXCEPT ![b] = @ + 1]
Ask(a)   == queue' = Append(queue, a)
First(a) == queue # <<>> /\ Head(queue) = a
Leave    == queue' = Tail(queue)
IsCurrent(r) == r = route /\ r # 0 /\ enabled

-----------------------------------------------------------------------------
(* Starting and cancelling the timer, under STATE_LOCK.                    *)

\* Timer.cancel only stops a thread that still waits for its time.
Stopped(t) == IF timer[t].at = "pending" THEN Finished ELSE timer[t]
Alive == current # None /\ timer[current].at # "done"

\* _cancel_tapo_device_off_action
CancelOff ==
  /\ current' = None
  /\ IF current = None THEN UNCHANGED <<timer, revoked>>
     ELSE /\ timer' = [timer EXCEPT ![current] = Stopped(current)]
          /\ revoked' = revoked \cup {current}

Spare == {t \in Timer : timer[t].at = "done" /\ t # current}
HasSpare == Spare # {}  \* bound: timer objects alive at once

\* _schedule_tapo_device_off_action
ScheduleOff(r, restart) ==
  IF Alive /\ ~restart THEN UNCHANGED <<current, timer, revoked>>
  ELSE LET t == CHOOSE s \in Spare : TRUE
           old == IF current = None THEN {} ELSE {current}
       IN /\ HasSpare
          /\ current' = t
          /\ timer' = [s \in Timer |-> IF s = t THEN [at |-> "pending", route |-> r]
                                       ELSE IF s \in old THEN Stopped(s) ELSE timer[s]]
          /\ revoked' = (revoked \cup old) \ {t}

\* sync_device_automation_target_power
SyncPower(on) ==
  IF ~IsCurrent(route) THEN UNCHANGED <<current, timer, revoked>>
  ELSE IF ~on \/ motion THEN CancelOff ELSE ScheduleOff(route, TRUE)

-----------------------------------------------------------------------------
(* A report of the sensor: stored under the lock, its automations run      *)
(* after it (fire_camera_motion_routes).                                   *)

ReporterAt(r, place) == reporter' = [reporter EXCEPT ![r].at = place]
ReportDone(r) == reporter' = [reporter EXCEPT ![r] = NoReport]

Report(r) ==
  /\ reporter[r].at = "idle" /\ Spend("reports")
  /\ motion' = ~motion
  /\ reporter' = [reporter EXCEPT ![r] = [at |-> "reported", active |-> ~motion, route |-> 0]]
  /\ UNCHANGED <<automation, device, current, timer, user, watcher, revoked, drift, excused>>

\* _matching_routes
Match(r) ==
  /\ reporter[r].at = "reported"
  /\ IF IsCurrent(route)
     THEN reporter' = [reporter EXCEPT ![r].at = "matched", ![r].route = route]
     ELSE ReportDone(r)
  /\ UNCHANGED <<automation, motion, device, current, timer, user, watcher, used, revoked, drift, excused>>

Clear(r) ==
  /\ reporter[r].at = "matched" /\ ~reporter[r].active
  /\ ScheduleOff(reporter[r].route, FALSE)
  /\ ReportDone(r)
  /\ UNCHANGED <<automation, motion, device, user, watcher, used, drift, excused>>

Detected(r) ==
  /\ reporter[r].at = "matched" /\ reporter[r].active
  /\ CancelOff /\ ReporterAt(r, "cancelled")
  /\ UNCHANGED <<automation, motion, device, user, watcher, used, drift, excused>>

\* _apply_tapo_device_on_action, with schedule_auto_off=False
AskOn(r) ==
  /\ reporter[r].at = "cancelled"
  /\ Ask(r) /\ ReporterAt(r, "waiting")
  /\ UNCHANGED <<automation, motion, power, shadow, current, timer, user, watcher, used, revoked, drift, excused>>

CheckOn(r) ==
  /\ reporter[r].at = "waiting" /\ First(r)
  /\ excused' = IF IsCurrent(reporter[r].route) THEN drift ELSE excused
  /\ IF IsCurrent(reporter[r].route) /\ ~shadow
     THEN ReporterAt(r, "sending") /\ UNCHANGED queue
     ELSE ReportDone(r) /\ Leave
  /\ UNCHANGED <<automation, motion, power, shadow, current, timer, user, watcher, used, revoked, drift>>

SendOn(r) ==
  /\ reporter[r].at = "sending"
  /\ power' = TRUE /\ ReporterAt(r, "sent")
  /\ UNCHANGED <<automation, motion, shadow, queue, current, timer, user, watcher, used, revoked, drift, excused>>

\* The command fails before the device obeyed, or its answer is lost.
Fails(place) == (place = "sending" /\ Spend("failures")) \/ (place = "sent" /\ Spend("losses"))

FailOn(r) ==
  /\ Fails(reporter[r].at)
  /\ ReportDone(r) /\ Leave
  /\ drift' = (drift \/ power # shadow) /\ excused' = TRUE
  /\ UNCHANGED <<automation, motion, power, shadow, current, timer, user, watcher, revoked>>

StoreOn(r) ==
  /\ reporter[r].at = "sent"
  /\ IF IsCurrent(reporter[r].route) THEN shadow' = TRUE /\ UNCHANGED drift
     ELSE UNCHANGED shadow /\ drift' = (drift \/ power # shadow)
  /\ ReportDone(r) /\ Leave
  /\ UNCHANGED <<automation, motion, power, current, timer, user, watcher, used, revoked, excused>>

-----------------------------------------------------------------------------
(* The timer thread: fire_off.                                             *)

TimerAt(t, place) == timer' = [timer EXCEPT ![t].at = place]
TimerDone(t) == timer' = [timer EXCEPT ![t] = Finished]
Forget(t) == current' = IF current = t THEN None ELSE current

Fire(t) ==
  /\ timer[t].at = "pending"
  /\ Ask(t) /\ TimerAt(t, "waiting")
  /\ UNCHANGED <<automation, motion, power, shadow, current, reporter, user, watcher, used, revoked, drift, excused>>

MayTurnOffAnyTimer(t) == IsCurrent(timer[t].route)
MayTurnOff(t) == current = t /\ IsCurrent(timer[t].route)

CheckOff(t) ==
  /\ timer[t].at = "waiting" /\ First(t)
  /\ IF MayTurnOff(t)
     THEN TimerAt(t, "sending") /\ UNCHANGED <<queue, current>>
     ELSE TimerDone(t) /\ Leave /\ Forget(t)
  /\ UNCHANGED <<automation, motion, power, shadow, reporter, user, watcher, used, revoked, drift, excused>>

SendOff(t) ==
  /\ timer[t].at = "sending"
  /\ power' = FALSE /\ TimerAt(t, "sent")
  /\ UNCHANGED <<automation, motion, shadow, queue, current, reporter, user, watcher, used, revoked, drift, excused>>

FailOff(t) ==
  /\ Fails(timer[t].at)
  /\ TimerAt(t, "failed")
  /\ drift' = (drift \/ power # shadow)
  /\ UNCHANGED <<automation, motion, device, current, reporter, user, watcher, revoked, excused>>

RetryOff(t) ==
  /\ timer[t].at = "failed" /\ Leave
  /\ IF MayTurnOff(t)
     THEN LET s == CHOOSE x \in Spare : TRUE
          IN /\ HasSpare /\ current' = s
             /\ timer' = [timer EXCEPT ![t] = Finished, ![s] = [at |-> "pending", route |-> timer[t].route]]
             /\ revoked' = revoked \ {s}
     ELSE Forget(t) /\ TimerDone(t) /\ UNCHANGED revoked
  /\ UNCHANGED <<automation, motion, power, shadow, reporter, user, watcher, used, drift, excused>>

Published(t) == FALSE

StoreOff(t) ==
  /\ timer[t].at = "sent"
  /\ shadow' = Published(t)
  /\ Forget(t) /\ TimerDone(t) /\ Leave
  /\ UNCHANGED <<automation, motion, power, reporter, user, watcher, used, revoked, drift, excused>>

-----------------------------------------------------------------------------
(* Waiting for the slot for too long (TimeoutError of hold).               *)

TimedOutTimer(t) == Forget(t)

SlotTimeout(a) ==
  /\ Spend("timeouts") /\ excused' = TRUE
  /\ \E i \in 2 .. Len(queue) : queue[i] = a /\ queue' = RemoveAt(queue, i)
  /\ \/ a \in Timer /\ TimedOutTimer(a) /\ TimerDone(a) /\ UNCHANGED <<reporter, user>>
     \/ a \in Reporter /\ ReportDone(a) /\ UNCHANGED <<current, timer, user>>
     \/ a \in User /\ user' = [user EXCEPT ![a] = NoCommand] /\ UNCHANGED <<current, timer, reporter>>
  /\ UNCHANGED <<automation, motion, power, shadow, watcher, revoked, drift>>

-----------------------------------------------------------------------------
(* Power changes that are not the automation's.                            *)

Order(u, on) ==
  /\ user[u].at = "idle" /\ Spend("commands")
  /\ Ask(u) /\ user' = [user EXCEPT ![u] = [at |-> "waiting", on |-> on]]
  /\ UNCHANGED <<automation, motion, power, shadow, current, timer, reporter, watcher, revoked, drift, excused>>

\* The command and its result, with the slot.
Obey(u) ==
  /\ user[u].at = "waiting" /\ First(u)
  /\ power' = user[u].on /\ shadow' = user[u].on
  /\ user' = [user EXCEPT ![u].at = "stored"]
  /\ excused' = (excused \/ ~user[u].on) /\ drift' = FALSE
  /\ UNCHANGED <<automation, motion, queue, current, timer, reporter, watcher, used, revoked>>

\* device_power_changed, still with the slot.
Publish(u) ==
  /\ user[u].at = "stored"
  /\ SyncPower(user[u].on)
  /\ user' = [user EXCEPT ![u] = NoCommand] /\ Leave
  /\ UNCHANGED <<automation, motion, power, shadow, reporter, watcher, used, drift, excused>>

\* Somebody presses the switch of the device.
Surprise ==
  /\ Spend("surprises") /\ power' = ~power /\ drift' = TRUE /\ excused' = TRUE
  /\ UNCHANGED <<automation, motion, shadow, queue, current, timer, reporter, user, watcher, revoked>>

\* refresh_tapo_clients stores a reading of a device nobody commands.
Refresh ==
  /\ watcher = "idle" /\ queue = <<>> /\ power # shadow
  /\ shadow' = power /\ drift' = FALSE
  /\ watcher' = IF power THEN "on" ELSE "off"
  /\ UNCHANGED <<automation, motion, power, queue, current, timer, reporter, user, used, revoked, excused>>

\* tapo_publish_power_changes, after the lock and without the slot.
PublishRefresh ==
  /\ watcher # "idle" /\ watcher' = "idle"
  /\ SyncPower(watcher = "on")
  /\ UNCHANGED <<automation, motion, device, reporter, user, used, drift, excused>>

-----------------------------------------------------------------------------
(* The automation is edited or deleted, the arm state changes.             *)

Save ==
  /\ Spend("edits") /\ excused' = TRUE
  /\ \/ route # 0 /\ route' = used.edits + 2 /\ CancelOff
     \/ route # 0 /\ route' = 0 /\ CancelOff
     \/ route = 0 /\ route' = used.edits + 2 /\ UNCHANGED <<current, timer, revoked>>
  /\ UNCHANGED <<enabled, motion, device, reporter, user, watcher, drift>>

Arm ==
  /\ Spend("edits") /\ enabled' = ~enabled /\ excused' = TRUE
  /\ UNCHANGED <<route, motion, device, current, timer, reporter, user, watcher, revoked, drift>>

-----------------------------------------------------------------------------
ReporterStep(r) == Match(r) \/ Clear(r) \/ Detected(r) \/ AskOn(r) \/ CheckOn(r) \/ SendOn(r) \/ StoreOn(r)
TimerStep(t) == Fire(t) \/ CheckOff(t) \/ SendOff(t) \/ RetryOff(t) \/ StoreOff(t)
UserStep(u) == Obey(u) \/ Publish(u)
WatcherStep == Refresh \/ PublishRefresh

Next ==
  \/ \E r \in Reporter : Report(r) \/ ReporterStep(r) \/ FailOn(r)
  \/ \E t \in Timer : TimerStep(t) \/ FailOff(t)
  \/ \E u \in User : UserStep(u) \/ \E on \in BOOLEAN : Order(u, on)
  \/ \E a \in Actor : SlotTimeout(a)
  \/ WatcherStep \/ Surprise \/ Save \/ Arm

Spec == Init /\ [][Next]_vars

\* Threads run, commands return and timers fire.
Fairness ==
  /\ \A r \in Reporter : WF_vars(ReporterStep(r))
  /\ \A t \in Timer : WF_vars(TimerStep(t))
  /\ \A u \in User : WF_vars(UserStep(u))
  /\ WF_vars(WatcherStep)
LiveSpec == Spec /\ Fairness

-----------------------------------------------------------------------------
Quiet ==
  /\ queue = <<>> /\ watcher = "idle" /\ current = None
  /\ \A r \in Reporter : reporter[r].at = "idle"
  /\ \A t \in Timer : timer[t].at = "done"

\* The entry of route_timers is a timer whose thread is still to do its work: a
\* timer that ended on any of its ways out has removed itself.  A dead entry
\* would be harmless to schedule, but is never collected.
NoDeadTimer == current # None => timer[current].at # "done"

\* Between commands the client shows the power of the device, also when the OFF
\* was on its way while motion cancelled its timer (the comment at
\* trigger_routes.py:932); otherwise the ON that follows is skipped.
InSync == queue = <<>> /\ ~drift => shadow = power

\* With one thread of reports, the light is on during motion once everything has
\* come to rest, whatever timers were firing or cancelled when motion began.
LightDuringMotion == Quiet /\ motion /\ ~excused /\ ~drift => power

\* A timer that was cancelled or replaced, by motion, by a power command or by
\* an edit of its automation, sends no OFF from then on, even if its thread was
\* already waiting for the device.
RevokedIsSilent ==
  \A t \in Timer : timer[t].at # "sending" /\ timer'[t].at = "sending" => t \notin revoked

\* Together: what is shown is what the device does, no dead timer is kept, and a
\* timer that was cancelled or replaced switches nothing off (trigger_routes.py).
TimersAreTrue ==
  /\ [](NoDeadTimer /\ InSync)
  /\ [][RevokedIsSilent]_vars

\* "Off after" (the label of the automation, dashboard-actions.js:5196): the
\* device does not stay on for ever after the sensor is clear, although commands
\* fail.  It does when a refresh publishes late, and after edits and timeouts.
GoesOff == ~<>[](~motion /\ power)
=============================================================================
