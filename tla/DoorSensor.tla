------------------------------ MODULE DoorSensor ------------------------------
(***************************************************************************)
(* A phone that watches a door.  It posts readings, some of which overtake *)
(* others; handle_door_telemetry turns them into the door's status and     *)
(* into route events, which a request fires after it left the state lock.  *)
(* An opening starts a sound that timers repeat.  A recalibration is a     *)
(* command that waits for the phone's next door message, and a phase the   *)
(* server holds the door closed in.                                        *)
(***************************************************************************)
EXTENDS Naturals, Sequences, SequencesExt, FiniteSets

CONSTANTS Worker,      \* requests the server handles at a time
          Timer, None, \* timer objects of the repeated sound
          MaxNet,      \* bound: door messages on their way
          MaxFaults,   \* bound: lost messages and answers, and restarts
          MaxRequests  \* bound: recalibrations asked for

VARIABLES
  door, calibrates, \* the phone: the door it sees, whether it calibrates
  told,             \* the phone has a recalibration command to act on
  net,              \* door messages in the order sent; stale: a newer one was handled
  status, phase,    \* door_status, recalibration_phase
  due,              \* the time is past recalibration_ignore_until
  ignore,           \* ignore_door_open_until_closed
  calibrating,      \* the flag the dashboard shows
  pending,          \* pending_command: the recalibration, or a setting of the camera role
  work,             \* of each request: the event to fire, then the reply
  registered,       \* _DOOR_SOUND_REPEAT_TIMERS
  ticking, fired,   \* timers that run, and those that wait for the lock
  newest, rest,     \* history: newest reading; a closed one since the last reset
  faults, requests

phone == <<door, calibrates, told>>
sensor == <<status, phase, due, ignore, calibrating>>
sound == <<registered, ticking, fired>>
history == <<newest, rest>>
bounds == <<faults, requests>>
vars == <<phone, net, sensor, pending, work, sound, history, bounds>>

Reading == {"open", "closed"}
Message == [door : Reading, calibrates : BOOLEAN, stale : BOOLEAN]

TypeOK ==
  /\ door \in Reading /\ {calibrates, told, due, ignore, calibrating, rest} \subseteq BOOLEAN
  /\ net \in Seq(Message) /\ Len(net) <= MaxNet
  /\ status \in Reading \cup {"unknown"} /\ newest \in Reading \cup {"unknown"}
  /\ phase \in {"none", "requested", "calibrating"}
  /\ phase # "none" => calibrating /\ status = "closed"
  /\ pending \subseteq {"recalibrate", "setting"}
  /\ work \in [Worker -> Reading \cup {"idle", "reply"}]
  /\ ticking \cup fired \subseteq Timer /\ ticking \cap fired = {}
  /\ registered \in ticking \cup fired \cup {None}

Init ==
  /\ door = "closed" /\ calibrates = FALSE /\ told = FALSE /\ net = <<>>
  /\ status = "unknown" /\ phase = "none" /\ due = FALSE
  /\ ignore = FALSE /\ calibrating = FALSE /\ pending = {}
  /\ work = [w \in Worker |-> "idle"]
  /\ registered = None /\ ticking = {} /\ fired = {}
  /\ newest = "unknown" /\ rest = FALSE /\ faults = 0 /\ requests = 0

-----------------------------------------------------------------------------
(* The phone.                                                              *)

Move ==
  /\ door' \in Reading \ {door}
  /\ UNCHANGED <<calibrates, told, net, sensor, pending, work, sound, history, bounds>>

Post ==
  /\ Len(net) < MaxNet
  /\ net' = Append(net, [door |-> door, calibrates |-> calibrates, stale |-> FALSE])
  /\ UNCHANGED <<phone, sensor, pending, work, sound, history, bounds>>

Obey ==
  /\ told /\ told' = FALSE /\ calibrates' = TRUE
  /\ UNCHANGED <<door, net, sensor, pending, work, sound, history, bounds>>

Settle ==
  /\ calibrates /\ calibrates' = FALSE
  /\ UNCHANGED <<door, told, net, sensor, pending, work, sound, history, bounds>>

Lose(i) ==
  /\ faults < MaxFaults /\ faults' = faults + 1
  /\ net' = RemoveAt(net, i)
  /\ UNCHANGED <<phone, sensor, pending, work, sound, history, requests>>

-----------------------------------------------------------------------------
(* handle_door_telemetry, under the state lock.                            *)

Lapsed == phase # "none" /\ due

\* Messages sent before the one handled are stale from now on.
Received(i) ==
  net' = [j \in 1 .. Len(net) - 1 |->
            IF j < i THEN [net[j] EXCEPT !.stale = TRUE] ELSE net[j + 1]]

Hold(p, renew) ==
  /\ phase' = p /\ due' = (due /\ ~renew)
  /\ status' = "closed" /\ calibrating' = TRUE
  /\ UNCHANGED <<ignore, registered, ticking>>

ClearPhase ==
  /\ phase' = "none" /\ due' = FALSE /\ ignore' = TRUE
  /\ status' = "closed" /\ calibrating' = FALSE

CancelSound ==
  /\ registered' = None
  /\ ticking' = ticking \ {registered}

\* The event a new status fires: an opening or a closing, once it is known.
Transition(previous, now) == IF previous \in Reading \ {now} THEN now ELSE "reply"

Previous == IF Lapsed THEN "unknown" ELSE status

\* What a message does to the sensor, and the event it leaves to fire.
Accept(m, w) ==
  \/ /\ Lapsed /\ phase = "calibrating"
     /\ ClearPhase /\ UNCHANGED <<registered, ticking>>
     /\ work' = [work EXCEPT ![w] = "reply"]
  \/ /\ phase = "requested" /\ ~Lapsed
     /\ IF m.calibrates THEN Hold("calibrating", TRUE) ELSE Hold("requested", FALSE)
     /\ work' = [work EXCEPT ![w] = "reply"]
  \/ /\ ~(phase = "requested" /\ ~Lapsed) /\ ~(phase = "calibrating" /\ Lapsed)
     /\ m.calibrates /\ Hold("calibrating", TRUE)
     /\ work' = [work EXCEPT ![w] = "reply"]
  \/ /\ phase = "calibrating" /\ ~Lapsed /\ ~m.calibrates
     /\ ClearPhase /\ CancelSound
     /\ work' = [work EXCEPT ![w] = "reply"]
  \/ /\ phase = "none" \/ (phase = "requested" /\ Lapsed)
     /\ ~m.calibrates /\ phase' = "none" /\ due' = FALSE
     /\ UNCHANGED calibrating
     /\ IF ignore /\ m.door = "open"
        THEN /\ status' = "closed" /\ UNCHANGED <<ignore, registered, ticking>>
             /\ work' = [work EXCEPT ![w] = "reply"]
        ELSE /\ status' = m.door /\ ignore' = FALSE
             /\ IF m.door = "closed" /\ Previous # "closed" THEN CancelSound
                ELSE UNCHANGED <<registered, ticking>>
             /\ work' = [work EXCEPT ![w] = Transition(Previous, m.door)]

OrderedAny(m) == TRUE
Ordered(m) == ~m.stale

\* History: a reset of the phase or a restart forgets the closed readings.
Witness(m) ==
  /\ newest' = IF m.stale THEN newest ELSE m.door
  /\ rest' = /\ phase' = "none"
             /\ \/ rest /\ phase = "none"
                \/ (m.door = "closed" /\ phase # "calibrating")

Handle(w, i) ==
  /\ work[w] = "idle"
  /\ Received(i)
  /\ IF Ordered(net[i])
     THEN Accept(net[i], w) /\ Witness(net[i])
     ELSE work' = [work EXCEPT ![w] = "reply"] /\ UNCHANGED <<sensor, registered, ticking, history>>
  /\ UNCHANGED <<phone, pending, fired, bounds>>

-----------------------------------------------------------------------------
(* The same request after it left the lock: fire_door_routes with a sound  *)
(* route, then the answer, which takes the pending command along.          *)

Schedule(t) ==
  /\ t \notin ticking \cup fired
  /\ ticking' = (ticking \ {registered}) \cup {t}
  /\ registered' = t

Fire(w) ==
  /\ work[w] \in Reading
  /\ IF work[w] = "closed" THEN CancelSound ELSE \E t \in Timer : Schedule(t)
  /\ work' = [work EXCEPT ![w] = "reply"]
  /\ UNCHANGED <<phone, net, sensor, pending, fired, history, bounds>>

Reply(w) ==
  /\ work[w] = "reply"
  /\ work' = [work EXCEPT ![w] = "idle"]
  /\ pending' = {}
  /\ \/ told' = (told \/ "recalibrate" \in pending) /\ UNCHANGED faults
     \/ "recalibrate" \in pending /\ faults < MaxFaults /\ faults' = faults + 1 /\ UNCHANGED told
  /\ UNCHANGED <<door, calibrates, net, sensor, sound, history, requests>>

LeftBehind == pending \cap {"recalibrate"}

\* An answer to the same device's camera: it leaves the door's command alone.
CameraPoll ==
  /\ "setting" \in pending
  /\ pending' = LeftBehind
  /\ UNCHANGED <<phone, net, sensor, work, sound, history, bounds>>

-----------------------------------------------------------------------------
(* The dashboard's request, deadlines, timers and restarts.                *)

QueueRecalibration ==
  /\ requests < MaxRequests /\ requests' = requests + 1
  /\ CancelSound
  /\ phase' = "requested" /\ due' = FALSE /\ status' = "closed"
  /\ ignore' = FALSE /\ calibrating' = TRUE
  /\ pending' = pending \cup {"recalibrate"}
  /\ rest' = FALSE
  /\ UNCHANGED <<phone, net, work, fired, newest, faults>>

QueueSetting ==
  /\ "setting" \notin pending /\ pending' = pending \cup {"setting"}
  /\ UNCHANGED <<phone, net, sensor, work, sound, history, bounds>>

Expire ==
  /\ phase # "none" /\ ~due /\ due' = TRUE
  /\ UNCHANGED <<phone, net, status, phase, ignore, calibrating, pending, work, sound, history, bounds>>

TimerFires(t) ==
  /\ t \in ticking
  /\ ticking' = ticking \ {t} /\ fired' = fired \cup {t}
  /\ UNCHANGED <<phone, net, sensor, pending, work, registered, history, bounds>>

RepeatAllowed == status = "open" /\ ~calibrating

\* _repeat: what it starts or forgets is not compared with what is registered.
Repeat(t) ==
  /\ t \in fired
  /\ fired' = fired \ {t}
  /\ IF RepeatAllowed
     THEN registered' = t /\ ticking' = ticking \cup {t}
     ELSE registered' = None /\ UNCHANGED ticking
  /\ UNCHANGED <<phone, net, sensor, pending, work, history, bounds>>

Restart ==
  /\ faults < MaxFaults /\ faults' = faults + 1
  /\ net' = <<>> /\ status' = "unknown" /\ phase' = "none" /\ due' = FALSE
  /\ pending' = {} /\ work' = [w \in Worker |-> "idle"]
  /\ registered' = None /\ ticking' = {} /\ fired' = {}
  /\ newest' = "unknown" /\ rest' = FALSE
  /\ UNCHANGED <<phone, ignore, calibrating, requests>>

Next ==
  \/ Move \/ Post \/ Obey \/ Settle \/ \E i \in DOMAIN net : Lose(i)
  \/ \E w \in Worker : Fire(w) \/ Reply(w) \/ \E i \in DOMAIN net : Handle(w, i)
  \/ CameraPoll \/ QueueSetting \/ QueueRecalibration \/ Expire \/ Restart
  \/ \E t \in Timer : TimerFires(t) \/ Repeat(t)

Spec == Init /\ [][Next]_vars

\* The phone posts and its messages arrive; requests, deadlines and timers run.
Fairness ==
  /\ WF_vars(Post) /\ WF_vars(Obey) /\ WF_vars(Settle) /\ WF_vars(Expire)
  /\ \A w \in Worker : WF_vars(Fire(w)) /\ WF_vars(Reply(w))
  /\ WF_vars(\E w \in Worker : 1 \in DOMAIN net /\ Handle(w, 1))
  /\ \A t \in Timer : WF_vars(TimerFires(t)) /\ WF_vars(Repeat(t))

FairSpec == Spec /\ Fairness

-----------------------------------------------------------------------------
(* Properties.                                                             *)

\* An opening fires the routes only when the sensor was seen closed since
\* the server started, since a calibration ended and since the last request
\* for one: the status the server forces meanwhile is no reading.
ClosedSeen ==
  \A w \in Worker : work[w] # "open" /\ work'[w] = "open" => rest'

\* Outside a recalibration the status shows the newest reading, though
\* messages overtake each other.
ShowsNewest ==
  phase = "none" /\ ~ignore /\ status # "unknown" => status = newest

\* Once the door stays closed the sound falls silent for good, also when a
\* timer was scheduled by a late event or is no longer registered.
SoundEnds == <>[](status # "open") => <>[](ticking \cup fired = {})

\* The phone gets a recalibration that was asked for, though answers to its
\* camera take the pending commands in between.
CommandArrives == "recalibrate" \in pending ~> (told \/ faults > 0)

\* The dashboard's "Door sensor is calibrating" comes to an end.
CalibratingEnds == calibrating ~> ~calibrating

\* While a door that was seen closed is open, its sound repeats.
AlarmContinues ==
  /\ status = "open" /\ rest /\ ~calibrating
  /\ \A w \in Worker : work[w] \notin Reading
  => ticking \cup fired # {}
=============================================================================
