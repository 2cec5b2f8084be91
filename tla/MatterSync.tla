----------------------------- MODULE MatterSync ------------------------------
(***************************************************************************)
(* Subscriptions to Matter nodes and the syncs that read the same nodes    *)
(* (subsystems/matter/matter_routes.py).  The subscription loop starts one *)
(* monitor thread per node and joins them under matter_subscription_lock;  *)
(* a sync and the replacement of the controller make the monitors stop,    *)
(* wait for that lock, work, and let the loop start them again.            *)
(*                                                                         *)
(* A sensor is abstracted to the number of changes it has gone through.    *)
(* Shutdown (matter_sync_stop) is left out.                                *)
(***************************************************************************)
EXTENDS Naturals, FiniteSets

CONSTANTS
  Node,
  Sync,         \* threads that run _try_sync_matter_clients
  Startup,      \* the one of them that runs _matter_sync_loop
  Repair,       \* threads that run _recommission_matter_connection
  Loop,         \* _matter_sensor_subscribe_loop
  None,
  MaxChanges,   \* bound: changes of each sensor
  MaxSyncs, MaxRepairs, MaxBreaks  \* bounds: syncs, replacements, subscriptions that end by themselves

Thread == Sync \cup Repair \cup {Loop}

VARIABLES
  loop,       \* where the subscription loop is
  monitor,    \* the thread of each node
  event,      \* a report a monitor has read and not stored yet, None when there is none
  sync, got,  \* each sync, and the values it has read
  repair,     \* each replacement
  syncLock, subscriptionLock, maintenanceLock,
  restart, active, maintenance, started,  \* the threading.Events
  sensor, stored, \* the sensors and what their clients show
  used        \* bounds

events == <<restart, active, maintenance, started>>
locks == <<syncLock, subscriptionLock, maintenanceLock>>
monitors == <<monitor, event>>
syncs == <<sync, got>>
vars == <<loop, monitors, syncs, repair, locks, events, sensor, stored, used>>

TypeOK ==
  /\ loop \in {"startup", "top", "locked", "starting", "joining", "waiting"}
  /\ monitor \in [Node -> {"none", "check", "opening", "live", "broken", "delay"}]
  /\ event \in [Node -> 0 .. MaxChanges \cup {None}]
  /\ sync \in [Sync -> {"idle", "begun", "announced", "draining", "reading", "applying", "ending"}]
  /\ got \in [Sync -> [Node -> 0 .. MaxChanges]]
  /\ repair \in [Repair -> {"idle", "begun", "announced", "locked", "repairing"}]
  /\ syncLock \in Sync \cup Repair \cup {None} /\ subscriptionLock \in Thread \cup {None}
  /\ maintenanceLock \in Repair \cup {None}
  /\ {restart, active, maintenance, started} \subseteq BOOLEAN
  /\ {sensor, stored} \subseteq [Node -> 0 .. MaxChanges]
  /\ \A s \in Sync : sync[s] # "idle" => syncLock = s
  /\ subscriptionLock = Loop <=> loop \in {"locked", "starting", "joining"}

Init ==
  /\ loop = "startup" /\ monitor = [n \in Node |-> "none"] /\ event = [n \in Node |-> None]
  /\ sync = [s \in Sync |-> "idle"] /\ got = [s \in Sync |-> [n \in Node |-> 0]]
  /\ repair = [r \in Repair |-> "idle"]
  /\ syncLock = None /\ subscriptionLock = None /\ maintenanceLock = None
  /\ restart = FALSE /\ active = FALSE /\ maintenance = FALSE /\ started = FALSE
  /\ sensor = [n \in Node |-> 0] /\ stored = [n \in Node |-> 0]
  /\ used = [syncs |-> 0, repairs |-> 0, breaks |-> 0]

Spend(b, max) == used[b] < max /\ used' = [used EXCEPT ![b] = @ + 1]

Stops == maintenance \/ active \/ restart

-----------------------------------------------------------------------------
(* The subscription loop.                                                  *)

LoopAt(place) == loop' = place

WaitForStartup ==
  /\ loop = "startup" /\ started /\ LoopAt("top")
  /\ UNCHANGED <<monitors, syncs, repair, locks, events, sensor, stored, used>>

\* While somebody works on the nodes the loop sleeps for a second and looks again.
TakeTurn ==
  /\ loop = "top" /\ ~maintenance /\ ~active
  /\ subscriptionLock = None /\ subscriptionLock' = Loop
  /\ LoopAt("locked")
  /\ UNCHANGED <<monitors, syncs, repair, syncLock, maintenanceLock, events, sensor, stored, used>>

\* The flags are read again under the lock.
CheckTurn ==
  /\ loop = "locked"
  /\ IF maintenance \/ active THEN subscriptionLock' = None /\ LoopAt("top")
     ELSE UNCHANGED subscriptionLock /\ LoopAt("starting")
  /\ UNCHANGED <<monitors, syncs, repair, syncLock, maintenanceLock, events, sensor, stored, used>>

\* restart is cleared before the monitors start, so that they do not stop for
\* a request that was served already.
ClearRestart == restart' = FALSE

StartMonitors ==
  /\ loop = "starting" /\ ClearRestart /\ LoopAt("joining")
  /\ monitor' = [n \in Node |-> "check"]
  /\ UNCHANGED <<event, syncs, repair, locks, active, maintenance, started, sensor, stored, used>>

Join ==
  /\ loop = "joining" /\ \A n \in Node : monitor[n] = "none"
  /\ subscriptionLock' = None /\ LoopAt("waiting")
  /\ UNCHANGED <<monitors, syncs, repair, syncLock, maintenanceLock, events, sensor, stored, used>>

\* restart ends the wait early; without it the wait ends after retry_delay.
NextRound ==
  /\ loop = "waiting" /\ LoopAt("top") /\ ClearRestart
  /\ UNCHANGED <<monitors, syncs, repair, locks, active, maintenance, started, sensor, stored, used>>

-----------------------------------------------------------------------------
(* monitor_node and subscribe_sensor_states.                               *)

MonitorAt(n, place) == monitor' = [monitor EXCEPT ![n] = place]

Check(n) ==
  /\ monitor[n] = "check"
  /\ MonitorAt(n, IF Stops THEN "none" ELSE "opening")
  /\ UNCHANGED <<loop, event, syncs, repair, locks, events, sensor, stored, used>>

Open(n) ==
  /\ monitor[n] = "opening" /\ MonitorAt(n, "live")
  /\ UNCHANGED <<loop, event, syncs, repair, locks, events, sensor, stored, used>>

\* A line of the subscription's output that carries a value.
Receive(n) ==
  /\ monitor[n] = "live" /\ event[n] = None /\ ~Stops
  /\ event' = [event EXCEPT ![n] = sensor[n]]
  /\ UNCHANGED <<loop, monitor, syncs, repair, locks, events, sensor, stored, used>>

\* _apply_matter_sensor_event, in the thread of the monitor.
Handle(n) ==
  /\ event[n] # None
  /\ stored' = [stored EXCEPT ![n] = event[n]]
  /\ event' = [event EXCEPT ![n] = None]
  /\ UNCHANGED <<loop, monitor, syncs, repair, locks, events, sensor, used>>

\* The loop that reads the output sees a stop within a second.
StopMonitor(n) ==
  /\ monitor[n] = "live" /\ event[n] = None /\ Stops
  /\ MonitorAt(n, "none")
  /\ UNCHANGED <<loop, event, syncs, repair, locks, events, sensor, stored, used>>

\* The process exits, fails or falls silent for the time of the watchdog.
Break(n) ==
  /\ monitor[n] \in {"opening", "live"} /\ event[n] = None /\ Spend("breaks", MaxBreaks)
  /\ MonitorAt(n, "broken")
  /\ UNCHANGED <<loop, event, syncs, repair, locks, events, sensor, stored>>

Recover(n) ==
  /\ monitor[n] = "broken"
  /\ MonitorAt(n, IF Stops THEN "none" ELSE "delay")
  /\ UNCHANGED <<loop, event, syncs, repair, locks, events, sensor, stored, used>>

Retry(n) ==
  /\ monitor[n] = "delay"
  /\ MonitorAt(n, IF restart THEN "none" ELSE "check")
  /\ UNCHANGED <<loop, event, syncs, repair, locks, events, sensor, stored, used>>

-----------------------------------------------------------------------------
(* _try_sync_matter_clients; the startup sync is the first.                *)

SyncAt(s, place) == sync' = [sync EXCEPT ![s] = place]

\* Whoever finds the lock taken answers busy.  The startup thread reports
\* completion even then.
Begin(s) ==
  /\ sync[s] = "idle"
  /\ IF s = Startup THEN ~started /\ ~maintenance /\ UNCHANGED used ELSE Spend("syncs", MaxSyncs)
  /\ IF syncLock = None THEN syncLock' = s /\ SyncAt(s, "begun") /\ UNCHANGED started
     ELSE UNCHANGED <<syncLock, sync>> /\ started' = (started \/ s = Startup)
  /\ UNCHANGED <<loop, monitors, got, repair, subscriptionLock, maintenanceLock, restart, active,
                 maintenance, sensor, stored>>

Announce(s) ==
  /\ sync[s] = "begun" /\ SyncAt(s, "announced") /\ active' = TRUE
  /\ UNCHANGED <<loop, monitors, got, repair, locks, restart, maintenance, started, sensor, stored, used>>

RequestRestart(s) ==
  /\ sync[s] = "announced" /\ SyncAt(s, "draining") /\ restart' = TRUE
  /\ UNCHANGED <<loop, monitors, got, repair, locks, active, maintenance, started, sensor, stored, used>>

\* with matter_subscription_lock: the monitors have been joined.
LockNotNeeded(s) == UNCHANGED subscriptionLock
LockSubscriptions(s) == subscriptionLock = None /\ subscriptionLock' = s

Drain(s) ==
  /\ sync[s] = "draining" /\ LockSubscriptions(s) /\ SyncAt(s, "reading")
  /\ UNCHANGED <<loop, monitors, got, repair, syncLock, maintenanceLock, events, sensor, stored, used>>

\* snapshot_all reads the nodes one after the other; any of them may fail.
Read(s) ==
  /\ sync[s] = "reading" /\ SyncAt(s, "applying")
  /\ \E ok \in SUBSET Node :
       got' = [got EXCEPT ![s] = [n \in Node |-> IF n \in ok THEN sensor[n] ELSE stored[n]]]
  /\ UNCHANGED <<loop, monitors, repair, locks, events, sensor, stored, used>>

Apply(s) ==
  /\ sync[s] = "applying" /\ SyncAt(s, "ending")
  /\ stored' = got[s] /\ got' = [got EXCEPT ![s] = [n \in Node |-> 0]]
  /\ subscriptionLock' = None
  /\ UNCHANGED <<loop, monitors, repair, syncLock, maintenanceLock, events, sensor, used>>

\* The finally block; the startup thread reports completion after it.
Finish(s) ==
  /\ sync[s] = "ending" /\ SyncAt(s, "idle")
  /\ active' = FALSE /\ restart' = TRUE /\ syncLock' = None
  /\ started' = (started \/ s = Startup)
  /\ UNCHANGED <<loop, monitors, got, repair, subscriptionLock, maintenanceLock, maintenance,
                 sensor, stored, used>>

-----------------------------------------------------------------------------
(* _recommission_matter_connection.  The replacement itself does not       *)
(* succeed (see MatterController), so the sync that would follow it does   *)
(* not run.                                                                *)

RepairAt(r, place) == repair' = [repair EXCEPT ![r] = place]

BeginRepair(r) ==
  /\ repair[r] = "idle" /\ Spend("repairs", MaxRepairs)
  /\ maintenanceLock = None /\ maintenanceLock' = r
  /\ maintenance' = TRUE /\ RepairAt(r, "begun")
  /\ UNCHANGED <<loop, monitors, syncs, syncLock, subscriptionLock, restart, active, started, sensor, stored>>

AnnounceRepair(r) ==
  /\ repair[r] = "begun" /\ restart' = TRUE /\ RepairAt(r, "announced")
  /\ UNCHANGED <<loop, monitors, syncs, locks, active, maintenance, started, sensor, stored, used>>

LockSync(r) ==
  /\ repair[r] = "announced" /\ syncLock = None /\ syncLock' = r /\ RepairAt(r, "locked")
  /\ UNCHANGED <<loop, monitors, syncs, subscriptionLock, maintenanceLock, events, sensor, stored, used>>

DrainForRepair(r) ==
  /\ repair[r] = "locked" /\ subscriptionLock = None /\ subscriptionLock' = r
  /\ RepairAt(r, "repairing")
  /\ UNCHANGED <<loop, monitors, syncs, syncLock, maintenanceLock, events, sensor, stored, used>>

FinishRepair(r) ==
  /\ repair[r] = "repairing" /\ RepairAt(r, "idle")
  /\ subscriptionLock' = None /\ syncLock' = None /\ maintenanceLock' = None
  /\ maintenance' = FALSE
  /\ UNCHANGED <<loop, monitors, syncs, restart, active, started, sensor, stored, used>>

-----------------------------------------------------------------------------
Change(n) ==
  /\ sensor[n] < MaxChanges /\ sensor' = [sensor EXCEPT ![n] = @ + 1]
  /\ UNCHANGED <<loop, monitors, syncs, repair, locks, events, stored, used>>

LoopStep == WaitForStartup \/ TakeTurn \/ CheckTurn \/ StartMonitors \/ Join \/ NextRound
MonitorStep(n) == Check(n) \/ Open(n) \/ Handle(n) \/ StopMonitor(n) \/ Recover(n) \/ Retry(n)
SyncStep(s) ==
  Announce(s) \/ RequestRestart(s) \/ Drain(s) \/ Read(s) \/ Apply(s) \/ Finish(s)
RepairStep(r) == AnnounceRepair(r) \/ LockSync(r) \/ DrainForRepair(r) \/ FinishRepair(r)

Next ==
  \/ LoopStep
  \/ \E n \in Node : MonitorStep(n) \/ Receive(n) \/ Break(n) \/ Change(n)
  \/ \E s \in Sync : Begin(s) \/ SyncStep(s)
  \/ \E r \in Repair : BeginRepair(r) \/ RepairStep(r)

Spec == Init /\ [][Next]_vars

\* Threads run; the lock the loop, a sync and a repair wait for is handed to
\* each of them in the end (the loop sleeps while others announce themselves);
\* values of a live subscription are delivered; the startup sync is run.
Fairness ==
  /\ WF_vars(WaitForStartup \/ CheckTurn \/ StartMonitors \/ Join \/ NextRound) /\ SF_vars(TakeTurn)
  /\ \A n \in Node : WF_vars(MonitorStep(n)) /\ WF_vars(Receive(n))
  /\ WF_vars(Begin(Startup))
  /\ \A s \in Sync : WF_vars(SyncStep(s)) /\ SF_vars(Drain(s))
  /\ \A r \in Repair : WF_vars(RepairStep(r)) /\ SF_vars(LockSync(r) \/ DrainForRepair(r))
LiveSpec == Spec /\ Fairness

-----------------------------------------------------------------------------
\* While a sync reads and stores, no monitor runs: no report can come between
\* the reading of a sensor and its storing (test_nodes_run_concurrently_and_
\* sync_drains_them).
Drained ==
  (\E s \in Sync : sync[s] \in {"reading", "applying"})
    => \A n \in Node : monitor[n] = "none" /\ event[n] = None

\* What a client shows never goes back to an older value of its sensor, whether
\* it comes from a report or from a sync.
NeverOlder == \A n \in Node : stored'[n] >= stored[n]

\* Monitoring resumes after any number of syncs, replacements and broken
\* subscriptions ("Verify Matter monitoring resumes after manual sync",
\* 2026-09-25_KotiBot_Issues_TODO.md:9).
Resumes == []<>(\A n \in Node : monitor[n] = "live")

\* Every value of a sensor reaches its client, or a newer one does.
CatchesUp == \A n \in Node : []<>(stored[n] = sensor[n])

\* A sync that was accepted ends, and so does a replacement: neither waits for
\* ever for monitors that wait before their next attempt.
SyncEnds == \A s \in Sync : []<>(sync[s] = "idle")
RepairEnds == \A r \in Repair : []<>(repair[r] = "idle")
=============================================================================
