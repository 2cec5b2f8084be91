--------------------------- MODULE CameraRecording ----------------------------
(***************************************************************************)
(* Recordings of one Tapo camera (subsystems/automations/trigger_routes.py *)
(* and subsystems/client-tapo): automations start them for some time, the  *)
(* dashboard starts and stops them, and the camera can be removed and      *)
(* discovered again meanwhile.  The ffmpeg process is started and stopped  *)
(* outside STATE_LOCK, in the command slot of the camera.                  *)
(*                                                                         *)
(* Time is left out: a timer fires, and route_recording_until passes, at   *)
(* any moment.  A process that ends by itself is left out.                 *)
(***************************************************************************)
EXTENDS Naturals

CONSTANTS
  Source,       \* sensors with a recording automation for the camera
  Retriggers,   \* those whose automation starts its timer again
  Runner,       \* threads that run an automation
  User,         \* threads that serve requests of the dashboard
  Timer,        \* threading.Timer objects; a finished one is reused
  None,
  MaxRuns, MaxRequests, MaxClients, MaxRemovals, MaxEdits, MaxFailures, MaxTimeouts \* bounds

VARIABLES
  client,    \* which client object is registered for the camera, 0 for none
  shown,     \* tapo_recording of it
  until,     \* route_recording_until of it lies ahead
  process,   \* ffmpeg records
  routes,    \* the sources whose automation exists
  slot,      \* who holds the slot of the camera
  current,   \* route_timers of each source
  timer, runner, user, \* each actor: where it is, and what for
  used,      \* bounds
  excused    \* history: a client was removed while its camera recorded, or a stop failed

camera == <<client, shown, until>>
actors == <<timer, runner, user>>
vars == <<camera, process, routes, slot, current, actors, used, excused>>

Bounds == [runs |-> MaxRuns, requests |-> MaxRequests, clients |-> MaxClients, removals |-> MaxRemovals,
           edits |-> MaxEdits, failures |-> MaxFailures, timeouts |-> MaxTimeouts]
Actor == Timer \cup Runner \cup User

TypeOK ==
  /\ client \in 0 .. MaxClients + 1 /\ {shown, until, process, excused} \subseteq BOOLEAN
  /\ routes \subseteq Source /\ slot \in Actor \cup {None}
  /\ current \in [Source -> Timer \cup {None}]
  /\ timer \in [Timer -> [at : {"done", "pending", "waiting", "stopping", "stopped"},
                          source : Source \cup {None}, client : 0 .. MaxClients + 1]]
  /\ runner \in [Runner -> [at : {"idle", "waiting", "starting", "started", "undo"},
                            source : Source \cup {None}, client : 0 .. MaxClients + 1]]
  /\ user \in [User -> [at : {"idle", "waiting", "acting", "acted"},
                        action : {"start", "stop", "remove", None}, client : 0 .. MaxClients + 1]]
  /\ \A b \in DOMAIN Bounds : used[b] \in 0 .. Bounds[b]
  /\ \A t \in Timer : slot = t <=> timer[t].at \in {"stopping", "stopped"}
  /\ \A r \in Runner : slot = r <=> runner[r].at \in {"starting", "started", "undo"}
  /\ \A u \in User : slot = u <=> user[u].at \in {"acting", "acted"}

Finished == [at |-> "done", source |-> None, client |-> 0]
NoRun == [at |-> "idle", source |-> None, client |-> 0]
NoRequest == [at |-> "idle", action |-> None, client |-> 0]

Init ==
  /\ client = 1 /\ shown = FALSE /\ until = FALSE /\ process = FALSE
  /\ routes = Source /\ slot = None /\ current = [s \in Source |-> None]
  /\ timer = [t \in Timer |-> Finished] /\ runner = [r \in Runner |-> NoRun]
  /\ user = [u \in User |-> NoRequest]
  /\ used = [b \in DOMAIN Bounds |-> 0] /\ excused = FALSE

Spend(b) == used[b] < Bounds[b] /\ used' = [used EXCEPT ![b] = @ + 1]
Take(a) == slot = None /\ slot' = a
Leave(a) == slot = a /\ slot' = None

-----------------------------------------------------------------------------
(* Timers.                                                                 *)

Stopped(t) == IF timer[t].at = "pending" THEN Finished ELSE timer[t]
Alive(s) == current[s] # None /\ timer[current[s]].at # "done"
Spare == {t \in Timer : timer[t].at = "done" /\ \A s \in Source : current[s] # t}

Schedule(s) ==
  IF Alive(s) /\ s \notin Retriggers THEN UNCHANGED <<current, timer>>
  ELSE \E t \in Spare :
         /\ current' = [current EXCEPT ![s] = t]
         /\ timer' = [x \in Timer |->
              IF x = t THEN [at |-> "pending", source |-> s, client |-> 0]
              ELSE IF x = current[s] THEN Stopped(x) ELSE timer[x]]

TimerAt(t, place) == timer' = [timer EXCEPT ![t].at = place]
IsCurrent(t) == current[timer[t].source] = t
Forget(t) ==
  /\ timer' = [timer EXCEPT ![t] = Finished]
  /\ current' = IF IsCurrent(t) THEN [current EXCEPT ![timer[t].source] = None] ELSE current

Fire(t) ==
  /\ timer[t].at = "pending" /\ TimerAt(t, "waiting")
  /\ UNCHANGED <<camera, process, routes, slot, current, runner, user, used, excused>>

MayStop(t) == IsCurrent(t) /\ client # 0
CheckStop(t) ==
  /\ timer[t].at = "waiting"
  /\ IF MayStop(t)
     THEN Take(t) /\ timer' = [timer EXCEPT ![t].at = "stopping", ![t].client = client]
          /\ UNCHANGED current
     ELSE slot = None /\ Forget(t) /\ UNCHANGED slot
  /\ UNCHANGED <<camera, process, routes, runner, user, used, excused>>

StopByTimer(t) ==
  /\ timer[t].at = "stopping" /\ process' = FALSE /\ TimerAt(t, "stopped")
  /\ UNCHANGED <<camera, routes, slot, current, runner, user, used, excused>>

\* The process does not end after it was killed.
StopFails(t) ==
  /\ timer[t].at = "stopping" /\ Spend("failures") /\ excused' = TRUE
  /\ process' = FALSE /\ Forget(t) /\ Leave(t)
  /\ UNCHANGED <<camera, routes, runner, user>>

StoreStop(t) ==
  /\ timer[t].at = "stopped" /\ Forget(t) /\ Leave(t)
  /\ shown' = (shown /\ client # timer[t].client)
  /\ UNCHANGED <<client, until, process, routes, runner, user, used, excused>>

\* The slot was busy for too long (_tapo_timer_callback).
TimerGivesUp(t) ==
  /\ timer[t].at = "waiting" /\ slot # None /\ Spend("timeouts")
  /\ Forget(t)
  /\ UNCHANGED <<camera, process, routes, slot, runner, user, excused>>

-----------------------------------------------------------------------------
(* _apply_camera_recording_action.                                         *)

RunnerAt(r, place) == runner' = [runner EXCEPT ![r].at = place]
RunDone(r) == runner' = [runner EXCEPT ![r] = NoRun]

Trigger(r, s) ==
  /\ runner[r].at = "idle" /\ s \in routes /\ client # 0 /\ Spend("runs")
  /\ runner' = [runner EXCEPT ![r] = [at |-> "waiting", source |-> s, client |-> client]]
  /\ UNCHANGED <<camera, process, routes, slot, current, timer, user, excused>>

MayStart(r) ==
  /\ client = runner[r].client /\ runner[r].source \in routes
  /\ ~until \/ runner[r].source \in Retriggers
CheckStart(r) ==
  /\ runner[r].at = "waiting"
  /\ IF MayStart(r) THEN Take(r) /\ RunnerAt(r, "starting")
     ELSE slot = None /\ RunDone(r) /\ UNCHANGED slot
  /\ UNCHANGED <<camera, process, routes, current, timer, user, used, excused>>

StartProcess(r) ==
  /\ runner[r].at = "starting" /\ process' = TRUE /\ RunnerAt(r, "started")
  /\ UNCHANGED <<camera, routes, slot, current, timer, user, used, excused>>

StartFails(r) ==
  /\ runner[r].at = "starting" /\ ~process /\ Spend("failures")
  /\ RunDone(r) /\ Leave(r)
  /\ UNCHANGED <<camera, process, routes, current, timer, user, excused>>

AfterRemoval(r) == IF client = 0 THEN RunnerAt(r, "undo") /\ UNCHANGED slot ELSE RunDone(r) /\ Leave(r)
StoreStart(r) ==
  /\ runner[r].at = "started"
  /\ IF client = runner[r].client
     THEN /\ shown' = TRUE /\ until' = TRUE
          /\ Schedule(runner[r].source) /\ RunDone(r) /\ Leave(r)
     ELSE AfterRemoval(r) /\ UNCHANGED <<shown, until, current, timer>>
  /\ UNCHANGED <<client, process, routes, user, used, excused>>

UndoStart(r) ==
  /\ runner[r].at = "undo" /\ process' = FALSE /\ RunDone(r) /\ Leave(r)
  /\ UNCHANGED <<camera, routes, current, timer, user, used, excused>>

RunnerGivesUp(r) ==
  /\ runner[r].at = "waiting" /\ slot # None /\ Spend("timeouts") /\ RunDone(r)
  /\ UNCHANGED <<camera, process, routes, slot, current, timer, user, excused>>

-----------------------------------------------------------------------------
(* Requests of the dashboard: ordered_client_request takes the slot,       *)
(* tapo_camera_command starts or stops, api_tapo_remove_client removes.    *)

UserAt(u, place) == user' = [user EXCEPT ![u].at = place]
Answer(u) == user' = [user EXCEPT ![u] = NoRequest]

Request(u, a) ==
  /\ user[u].at = "idle" /\ client # 0 /\ Spend("requests")
  /\ user' = [user EXCEPT ![u] = [at |-> "waiting", action |-> a, client |-> client]]
  /\ UNCHANGED <<camera, process, routes, slot, current, timer, runner, excused>>

CheckRequest(u) ==
  /\ user[u].at = "waiting"
  /\ IF client = user[u].client THEN Take(u) /\ UserAt(u, "acting")
     ELSE slot = None /\ Answer(u) /\ UNCHANGED slot
  /\ UNCHANGED <<camera, process, routes, current, timer, runner, used, excused>>

Command(u) ==
  /\ user[u].at = "acting" /\ user[u].action # "remove"
  /\ process' = (user[u].action = "start") /\ UserAt(u, "acted")
  /\ UNCHANGED <<camera, routes, slot, current, timer, runner, used, excused>>

\* When the client has changed, a process that was started is stopped again.
StoreCommand(u) ==
  /\ user[u].at = "acted" /\ user[u].action # "remove"
  /\ IF client = user[u].client
     THEN shown' = (user[u].action = "start") /\ UNCHANGED process
     ELSE process' = (process /\ user[u].action = "stop") /\ UNCHANGED shown
  /\ Answer(u) /\ Leave(u)
  /\ UNCHANGED <<client, until, routes, current, timer, runner, used, excused>>

RemoveOrdered(u) ==
  /\ user[u].at = "acting" /\ user[u].action = "remove" /\ UserAt(u, "acted")
  /\ client' = (IF client = user[u].client THEN 0 ELSE client)
  /\ shown' = (shown /\ client' # 0) /\ until' = (until /\ client' # 0)
  /\ routes' = (IF client' = 0 THEN {} ELSE routes)
  /\ UNCHANGED <<process, slot, current, timer, runner, used, excused>>

StopRemoved(u) ==
  /\ user[u].at = "acted" /\ user[u].action = "remove"
  /\ process' = FALSE /\ Answer(u) /\ Leave(u)
  /\ UNCHANGED <<camera, routes, current, timer, runner, used, excused>>

-----------------------------------------------------------------------------
Starting == \/ \E r \in Runner : runner[r].at \in {"starting", "started", "undo"}
            \/ \E u \in User : user[u].at \in {"acting", "acted"} /\ user[u].action = "start"

\* /api/remove-client, which takes no slot and knows no recordings.
RemoveClient ==
  /\ client # 0 /\ Spend("removals")
  /\ client' = 0 /\ shown' = FALSE /\ until' = FALSE /\ routes' = {}
  /\ excused' = (excused \/ (process /\ ~Starting))
  /\ UNCHANGED <<process, slot, current, actors>>

\* Discovery registers the camera again, with a new client object.
Register ==
  /\ client = 0 /\ Spend("clients")
  /\ client' = used.clients + 2 /\ shown' = FALSE /\ until' = FALSE
  /\ excused' = (excused \/ slot # None)
  /\ UNCHANGED <<process, routes, slot, current, actors>>

Expire ==
  /\ until /\ until' = FALSE
  /\ UNCHANGED <<client, shown, process, routes, slot, current, actors, used, excused>>

\* An automation is added or deleted; a recording automation has no runtime
\* work that _cancel_route_runtime knows of.
Edit(s) ==
  /\ client # 0 /\ Spend("edits")
  /\ routes' = (routes \ {s}) \cup ({s} \ routes)
  /\ UNCHANGED <<camera, process, slot, current, actors, excused>>

TimerStep(t) == CheckStop(t) \/ StopByTimer(t) \/ StoreStop(t)
RunnerStep(r) == CheckStart(r) \/ StartProcess(r) \/ StoreStart(r) \/ UndoStart(r)
UserStep(u) == CheckRequest(u) \/ Command(u) \/ StoreCommand(u) \/ RemoveOrdered(u) \/ StopRemoved(u)

Next ==
  \/ \E t \in Timer : Fire(t) \/ TimerStep(t) \/ StopFails(t) \/ TimerGivesUp(t)
  \/ \E r \in Runner : RunnerStep(r) \/ StartFails(r) \/ RunnerGivesUp(r)
                       \/ \E s \in Source : Trigger(r, s)
  \/ \E u \in User : UserStep(u) \/ \E a \in {"start", "stop", "remove"} : Request(u, a)
  \/ RemoveClient \/ Register \/ Expire \/ \E s \in Source : Edit(s)

Spec == Init /\ [][Next]_vars

\* Timers fire, threads run, and the slot is handed to each who waits.
Fairness ==
  /\ \A t \in Timer : WF_vars(Fire(t)) /\ SF_vars(TimerStep(t))
  /\ \A r \in Runner : SF_vars(RunnerStep(r))
  /\ \A u \in User : SF_vars(UserStep(u))
LiveSpec == Spec /\ Fairness

-----------------------------------------------------------------------------
\* With no command under way the dashboard shows whether the camera records,
\* and a camera that is not registered does not record (test_camera_removed_
\* during_start_is_stopped_without_state_resurrection), unless the client was
\* removed under a recording.
InSync == slot = None /\ ~excused => (process <=> client # 0 /\ shown)

\* A timer that was replaced never stops the recording it was replaced for.
RevokedIsSilent ==
  \A t \in Timer : timer[t].at = "stopping" /\ timer'[t].at = "stopped" => IsCurrent(t)

\* route_timers never keeps a timer that has run.
NoDeadTimer == \A s \in Source : current[s] # None => timer[current[s]].at # "done"

\* A recording that an automation started ends by itself, whatever happens to
\* the automation meanwhile.
RecordingEnds == []<>~process

\* "Do not leave its recording running orphaned." (trigger_routes.py:634): when
\* the camera is not registered and nothing is under way, it does not record.
NoOrphan == client = 0 /\ slot = None => ~process
=============================================================================
