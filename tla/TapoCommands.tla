---------------------------- MODULE TapoCommands -----------------------------
(***************************************************************************)
(* Commands to Tapo devices: the per-device ticket queue of                *)
(* subsystems/tapo_commands.py and those who use it in client-tapo.  A     *)
(* request thread holds one device; a scene reserves several devices at    *)
(* once and waits for each with a future; the watcher (whoever holds       *)
(* tapo_refresh_lock) reads devices without a ticket and recovers lighting *)
(* only where nobody waits.                                                *)
(*                                                                         *)
(* The state of a device is abstracted to the number of changes it has     *)
(* gone through, so that what the server believes can be compared with it, *)
(* and a client with its identity to the number of its registration.       *)
(***************************************************************************)
EXTENDS Naturals, Sequences, SequencesExt, FiniteSets

CONSTANTS
  Device,
  Command,      \* threads that serve ordered client requests
  Scene,        \* home scene requests
  Watcher,      \* the holder of tapo_refresh_lock (at most one)
  None,
  Limit,        \* TapoCommandQueue.limit
  MaxIssued,    \* bound: tickets issued per device
  MaxSurprises, \* bound: changes of a device that no command made
  MaxClients    \* bound: registrations per device

Agent == Command \cup Scene \cup Watcher

ASSUME AgentsAssumption ==
  /\ Command \cap Scene = {} /\ Command \cap Watcher = {} /\ Scene \cap Watcher = {}
  /\ None \notin Agent
  /\ {Limit, MaxIssued, MaxSurprises, MaxClients} \subseteq Nat

VARIABLES
  queue,     \* entry['queue']: the agents with a ticket, first come first
  owner,     \* entry['owner']
  version,   \* entry['version'], 0 when there is no entry
  resolved,  \* scenes whose future in entry['async_waiters'] has a result
  at,        \* where each agent is with each device
  expected,  \* the client an agent found before it asked for the device
  targets,   \* what an admitted scene, holding STATE_LOCK, has yet to reserve
  reading,   \* the watcher: idle, refresh, detect or recover
  noted,     \* what observe() noted of a device
  got,       \* the reading of a device, 0 for none
  recover,   \* devices whose lighting the watcher will restore
  client,    \* the registration of each device in CLIENTS, 0 for none
  shadow,    \* the state of the device according to its client
  power,     \* the state of the device itself
  wrote,     \* the state the command of the slot owner has set
  surprises, \* changes of the device behind the server's back so far
  born,      \* registrations so far
  issued,    \* tickets so far
  stamp,     \* history: the number of an agent's ticket
  lastWrite, \* history: the ticket of the newest command sent
  drift      \* history: the device may differ from its client for a reason
             \* other than the order of commands and readings

slots    == <<queue, owner, version, resolved>>
reader   == <<reading, noted, got, recover>>
registry == <<client, shadow, born>>
world    == <<power, wrote, surprises>>
tickets  == <<issued, stamp>>
ghost    == <<lastWrite, drift>>
vars == <<slots, at, expected, targets, reader, registry, world, tickets, ghost>>

Outside == {"idle", "captured"}
Waiting == {"reserved", "waiting", "parked"}
InSlot  == {"holding", "planning", "ready", "written", "leaving"}
Nothing == [client |-> 0, version |-> 0, busy |-> FALSE]
Note    == [client : Nat, version : Nat, busy : BOOLEAN]

TypeOK ==
  /\ queue \in [Device -> Seq(Agent)]
  /\ owner \in [Device -> Agent \cup {None}]
  /\ resolved \in [Device -> SUBSET Scene]
  /\ at \in [Agent -> [Device -> Outside \cup Waiting \cup InSlot]]
  /\ expected \in [Agent -> [Device -> Nat]]
  /\ targets \in [Scene -> SUBSET Device]
  /\ reading \in {"idle", "refresh", "detect", "recover"}
  /\ noted \in [Device -> Note]
  /\ recover \in SUBSET Device
  /\ version \in [Device -> Nat] /\ got \in [Device -> Nat] /\ client \in [Device -> Nat]
  /\ shadow \in [Device -> Nat] /\ power \in [Device -> Nat] /\ wrote \in [Device -> Nat]
  /\ surprises \in [Device -> Nat] /\ born \in [Device -> Nat]
  /\ issued \in [Device -> Nat] /\ lastWrite \in [Device -> Nat]
  /\ stamp \in [Agent -> [Device -> Nat]]
  /\ drift \in [Device -> BOOLEAN]

Zero == [d \in Device |-> 0]
One  == [d \in Device |-> 1]

\* Every device is registered and its client is up to date.
Init ==
  /\ queue = [d \in Device |-> <<>>] /\ owner = [d \in Device |-> None]
  /\ version = Zero /\ resolved = [d \in Device |-> {}]
  /\ at = [a \in Agent |-> [d \in Device |-> "idle"]]
  /\ expected = [a \in Agent |-> Zero]
  /\ targets = [s \in Scene |-> {}]
  /\ reading = "idle" /\ noted = [d \in Device |-> Nothing] /\ got = Zero /\ recover = {}
  /\ client = One /\ born = One /\ shadow = One /\ power = One /\ wrote = Zero
  /\ surprises = Zero /\ issued = Zero /\ stamp = [a \in Agent |-> Zero]
  /\ lastWrite = Zero /\ drift = [d \in Device |-> FALSE]

-----------------------------------------------------------------------------
(* The queue of one device.                                                *)

\* STATE_LOCK is free for a short critical section: no scene is being admitted.
StateLockFree == \A s \in Scene : targets[s] = {}

Move(a, d, place) == at' = [at EXCEPT ![a][d] = place]
Observed(d) == noted[d] # Nothing

\* The request is over: its local variables are gone.
Forget(a, d) ==
  /\ Move(a, d, "idle")
  /\ expected' = [expected EXCEPT ![a][d] = 0]
  /\ stamp' = [stamp EXCEPT ![a][d] = 0]

\* reserve: a ticket at the end of the queue.
Full(d) == Len(queue[d]) >= Limit \/ issued[d] = MaxIssued
Reserve(a, d) ==
  /\ ~Full(d)
  /\ queue' = [queue EXCEPT ![d] = Append(@, a)]
  /\ version' = [version EXCEPT ![d] = @ + 1]
  /\ issued' = [issued EXCEPT ![d] = @ + 1]
  /\ stamp' = [stamp EXCEPT ![a][d] = issued[d] + 1]
  /\ UNCHANGED <<owner, resolved>>

\* wait_for in __enter__, and the first test of __aenter__.
MayEnter(a, d) == Head(queue[d]) = a /\ owner[d] = None

Enter(a, d) ==
  /\ owner' = [owner EXCEPT ![d] = a]
  /\ Move(a, d, "holding")
  /\ UNCHANGED <<queue, version>>

Without(a, d) == RemoveAt(queue[d], CHOOSE i \in DOMAIN queue[d] : queue[d][i] = a)

\* Mutant: only an owner hands the slot on, not a waiter that gives up.
ResolvedByOwner(a, d) ==
  (resolved[d] \ {a}) \cup
    {s \in Scene : /\ owner[d] = a
                   /\ Without(a, d) # <<>> /\ Head(Without(a, d)) = s
                   /\ at[s][d] = "parked"}

\* The future of the ticket now at the head of an unowned queue gets a result.
Resolved(a, d) ==
  (resolved[d] \ {a}) \cup
    {s \in Scene : /\ owner[d] \in {a, None}
                   /\ Without(a, d) # <<>> /\ Head(Without(a, d)) = s
                   /\ at[s][d] = "parked"}

\* cancel: the ticket leaves, wherever its agent has got to, and an entry that
\* nobody needs any more is pruned with its version.
Cancel(a, d) ==
  /\ queue' = [queue EXCEPT ![d] = Without(a, d)]
  /\ owner' = [owner EXCEPT ![d] = IF @ = a THEN None ELSE @]
  /\ version' = [version EXCEPT ![d] =
       IF queue'[d] = <<>> /\ ~Observed(d) THEN 0 ELSE @ + 1]
  /\ resolved' = [resolved EXCEPT ![d] = Resolved(a, d)]
  /\ Forget(a, d)

-----------------------------------------------------------------------------
(* Request threads.                                                        *)

\* ordered_client_request and remove-addon note the client first.
Request(c, d) ==
  /\ StateLockFree
  /\ \A e \in Device : at[c][e] = "idle"
  /\ client[d] # 0
  /\ expected' = [expected EXCEPT ![c][d] = client[d]]
  /\ Move(c, d, "captured")
  /\ UNCHANGED <<slots, targets, reader, registry, world, tickets, ghost>>

\* hold: a ticket, or an error when the queue is full.
Hold(c, d) ==
  /\ at[c][d] = "captured"
  /\ \/ Reserve(c, d) /\ Move(c, d, "waiting") /\ UNCHANGED expected
     \/ Full(d) /\ Forget(c, d) /\ UNCHANGED <<slots, issued>>
  /\ UNCHANGED <<targets, reader, registry, world, ghost>>

\* __enter__, for a request and for a recovery.
EnterThread(a, d) ==
  /\ at[a][d] = "waiting"
  /\ MayEnter(a, d)
  /\ Enter(a, d)
  /\ UNCHANGED <<resolved, expected, targets, reader, registry, world, tickets, ghost>>

\* Any wait may reach its deadline, even one whose turn has just come.
TimeOut(a, d) ==
  /\ at[a][d] \in {"waiting", "parked"}
  /\ Cancel(a, d)
  /\ UNCHANGED <<targets, reader, registry, world, issued, ghost>>

-----------------------------------------------------------------------------
(* Scenes.                                                                 *)

\* execute_home_scene takes STATE_LOCK and reserves one device after another.
AdmitScene(s, D) ==
  /\ StateLockFree
  /\ D # {}
  /\ \A d \in Device : at[s][d] = "idle"
  /\ targets' = [targets EXCEPT ![s] = D]
  /\ UNCHANGED <<slots, at, expected, reader, registry, world, tickets, ghost>>

\* An unknown client and a full queue are reported, not reserved.
ReserveTarget(s, d) ==
  /\ d \in targets[s]
  /\ targets' = [targets EXCEPT ![s] = @ \ {d}]
  /\ \/ /\ client[d] # 0
        /\ Reserve(s, d)
        /\ expected' = [expected EXCEPT ![s][d] = client[d]]
        /\ Move(s, d, "reserved")
     \/ /\ client[d] = 0 \/ Full(d)
        /\ UNCHANGED <<slots, tickets, expected, at>>
  /\ UNCHANGED <<reader, registry, world, ghost>>

\* __aenter__: the slot is free, or the scene parks on a future.  The coroutines
\* of a scene start when its admission is over.
EnterScene(s, d) ==
  /\ at[s][d] = "reserved" /\ targets[s] = {}
  /\ IF MayEnter(s, d) THEN Enter(s, d)
     ELSE Move(s, d, "parked") /\ UNCHANGED <<queue, owner, version>>
  /\ UNCHANGED <<resolved, expected, targets, reader, registry, world, tickets, ghost>>

\* The future has a result and the coroutine runs again.
ResumeScene(s, d) ==
  /\ at[s][d] = "parked" /\ s \in resolved[d]
  /\ resolved' = [resolved EXCEPT ![d] = @ \ {s}]
  /\ Enter(s, d)
  /\ UNCHANGED <<expected, targets, reader, registry, world, tickets, ghost>>

-----------------------------------------------------------------------------
(* Holding the device.                                                     *)

\* The client found before the wait must still be the one registered.
CheckClient(a, d) ==
  /\ StateLockFree
  /\ at[a][d] = "holding"
  /\ Move(a, d, IF client[d] # expected[a][d] THEN "leaving"
                ELSE IF a \in Watcher THEN "planning" ELSE "ready")
  /\ UNCHANGED <<slots, expected, targets, reader, registry, world, tickets, ghost>>

\* A recovery looks the client up again and gives way to a waiter.
PlanRecovery(w, d) ==
  /\ StateLockFree
  /\ at[w][d] = "planning"
  /\ IF client[d] = 0 \/ Len(queue[d]) > 1
     THEN Move(w, d, "leaving") /\ UNCHANGED expected
     ELSE Move(w, d, "ready") /\ expected' = [expected EXCEPT ![w][d] = client[d]]
  /\ UNCHANGED <<slots, targets, reader, registry, world, tickets, ghost>>

\* The network call, without any lock.  It fails, with or without an effect on
\* the device, or succeeds.
SendCommand(a, d) ==
  /\ at[a][d] = "ready"
  /\ lastWrite' = [lastWrite EXCEPT ![d] = stamp[a][d]]
  /\ \/ Move(a, d, "leaving") /\ UNCHANGED <<power, wrote, drift>>
     \/ /\ power' = [power EXCEPT ![d] = @ + 1]
        /\ drift' = [drift EXCEPT ![d] = TRUE]
        /\ Move(a, d, "leaving")
        /\ UNCHANGED wrote
     \/ /\ power' = [power EXCEPT ![d] = @ + 1]
        /\ wrote' = [wrote EXCEPT ![d] = power[d] + 1]
        /\ Move(a, d, "written")
        /\ UNCHANGED drift
  /\ UNCHANGED <<slots, expected, targets, reader, registry, surprises, tickets>>

\* update_tapo_client_from_command_result: only into the client it was sent for.
Reconcile(a, d) ==
  /\ StateLockFree
  /\ at[a][d] = "written"
  /\ IF client[d] = expected[a][d]
     THEN shadow' = [shadow EXCEPT ![d] = wrote[d]] /\ UNCHANGED drift
     ELSE drift' = [drift EXCEPT ![d] = TRUE] /\ UNCHANGED shadow
  /\ wrote' = [wrote EXCEPT ![d] = 0]
  /\ Move(a, d, "leaving")
  /\ UNCHANGED <<slots, expected, targets, reader, client, born, power, surprises,
                 tickets, lastWrite>>

Unregister(d) ==
  /\ client' = [client EXCEPT ![d] = 0]
  /\ shadow' = [shadow EXCEPT ![d] = 0]
  /\ UNCHANGED born

\* The removal routes pop the client inside its slot.
RemoveInSlot(c, d) ==
  /\ StateLockFree
  /\ at[c][d] = "ready" /\ client[d] = expected[c][d]
  /\ Unregister(d)
  /\ Move(c, d, "leaving")
  /\ UNCHANGED <<slots, expected, targets, reader, world, tickets, ghost>>

\* __exit__ and __aexit__.
Leave(a, d) ==
  /\ at[a][d] = "leaving"
  /\ Cancel(a, d)
  /\ UNCHANGED <<targets, reader, registry, world, issued, ghost>>

-----------------------------------------------------------------------------
(* The watcher.                                                            *)

\* Under tapo_refresh_lock and STATE_LOCK: the known clients are observed.
BeginRead(mode) ==
  /\ Watcher # {} /\ StateLockFree
  /\ reading = "idle"
  /\ reading' = mode
  /\ noted' = [d \in Device |->
       IF client[d] = 0 THEN Nothing
       ELSE [client |-> client[d], version |-> version[d], busy |-> queue[d] # <<>>]]
  /\ UNCHANGED <<slots, at, expected, targets, got, recover, registry, world, tickets, ghost>>

\* The network read of one device; discovery also finds unregistered ones.
ReadDevice(d) ==
  /\ \/ reading = "refresh" /\ Observed(d)
     \/ reading = "detect"
  /\ got[d] = 0
  /\ got' = [got EXCEPT ![d] = power[d]]
  /\ UNCHANGED <<slots, at, expected, targets, reading, noted, recover, registry, world,
                 tickets, ghost>>

\* Mutant: unchanged() looks at the queue only.
UnchangedIgnoringVersion(d) == ~noted[d].busy /\ queue[d] = <<>>

\* The closure that observe() yields.
Unchanged(d) == ~noted[d].busy /\ queue[d] = <<>> /\ version[d] = noted[d].version

\* A reading of an observed client, nothing having happened in between.
Fresh(d) == got[d] # 0 /\ Observed(d) /\ Unchanged(d) /\ client[d] = noted[d].client

\* A device that discovery alone knows is registered.
Discovered(d) ==
  /\ got[d] # 0 /\ ~Observed(d) /\ client[d] = 0
  /\ reading = "detect" /\ born[d] < MaxClients

\* Under STATE_LOCK; a refresh may also choose lighting to restore.
ApplyReadings ==
  LET fresh == {d \in Device : Fresh(d)}
      found == {d \in Device : Discovered(d)}
  IN
  /\ StateLockFree
  /\ reading \in {"refresh", "detect"}
  /\ shadow' = [d \in Device |-> IF d \in fresh \cup found THEN got[d] ELSE shadow[d]]
  /\ client' = [d \in Device |-> IF d \in found THEN born[d] + 1 ELSE client[d]]
  /\ born' = [d \in Device |-> IF d \in found THEN born[d] + 1 ELSE born[d]]
  /\ drift' = [d \in Device |-> IF d \in fresh THEN drift[d] /\ got[d] # power[d]
                                ELSE IF d \in found THEN got[d] # power[d] ELSE drift[d]]
  /\ recover' \in (IF reading = "refresh" THEN SUBSET fresh ELSE {{}})
  /\ reading' = "recover"
  /\ got' = Zero
  /\ UNCHANGED <<slots, at, expected, targets, noted, world, tickets, lastWrite>>

\* try_hold: a ticket only where nobody has one.
TryHold(w, d) ==
  /\ reading = "recover" /\ d \in recover
  /\ \A e \in Device : at[w][e] = "idle"
  /\ recover' = recover \ {d}
  /\ IF queue[d] = <<>> /\ ~Full(d)
     THEN /\ Reserve(w, d)
          /\ Move(w, d, "waiting")
          /\ expected' = [expected EXCEPT ![w][d] = noted[d].client]
     ELSE UNCHANGED <<slots, tickets, at, expected>>
  /\ UNCHANGED <<targets, reading, noted, got, registry, world, ghost>>

\* The observations close, the entries nobody needs are pruned.
EndRead(w) ==
  /\ reading = "recover" /\ recover = {}
  /\ \A e \in Device : at[w][e] = "idle"
  /\ reading' = "idle"
  /\ noted' = [d \in Device |-> Nothing]
  /\ version' = [d \in Device |->
       IF Observed(d) /\ queue[d] = <<>> THEN 0 ELSE version[d]]
  /\ UNCHANGED <<queue, owner, resolved, at, expected, targets, got, recover, registry,
                 world, tickets, ghost>>

-----------------------------------------------------------------------------
(* The rest of the program and the world.                                  *)

\* /api/remove-client pops a client without its slot.
RemoveClient(d) ==
  /\ StateLockFree
  /\ client[d] # 0
  /\ Unregister(d)
  /\ UNCHANGED <<slots, at, expected, targets, reader, world, tickets, ghost>>

\* Somebody uses the switch on the wall.
ExternalChange(d) ==
  /\ surprises[d] < MaxSurprises
  /\ surprises' = [surprises EXCEPT ![d] = @ + 1]
  /\ power' = [power EXCEPT ![d] = @ + 1]
  /\ drift' = [drift EXCEPT ![d] = TRUE]
  /\ UNCHANGED <<slots, at, expected, targets, reader, registry, wrote, tickets, lastWrite>>

HoldStep(a, d) ==
  \/ CheckClient(a, d) \/ SendCommand(a, d) \/ Reconcile(a, d) \/ Leave(a, d)

CommandStep(c, d) == Hold(c, d) \/ EnterThread(c, d) \/ HoldStep(c, d)
SceneStep(s, d) == ReserveTarget(s, d) \/ EnterScene(s, d) \/ ResumeScene(s, d) \/ HoldStep(s, d)
WatcherStep(w, d) == TryHold(w, d) \/ EnterThread(w, d) \/ PlanRecovery(w, d) \/ HoldStep(w, d)

Next ==
  \/ \E c \in Command, d \in Device : Request(c, d) \/ CommandStep(c, d) \/ RemoveInSlot(c, d)
  \/ \E s \in Scene, D \in SUBSET Device : AdmitScene(s, D)
  \/ \E s \in Scene, d \in Device : SceneStep(s, d)
  \/ \E mode \in {"refresh", "detect"} : BeginRead(mode)
  \/ \E d \in Device : ReadDevice(d)
  \/ ApplyReadings
  \/ \E w \in Watcher, d \in Device : WatcherStep(w, d)
  \/ \E w \in Watcher : EndRead(w)
  \/ \E a \in Agent, d \in Device : TimeOut(a, d)
  \/ \E d \in Device : RemoveClient(d) \/ ExternalChange(d)

Spec == Init /\ [][Next]_vars

\* A thread or coroutine that can go on does so, a network call ends (it has a
\* deadline of its own), and who asks for STATE_LOCK gets it some time.  No
\* deadline of the queue is needed.
Fairness ==
  /\ \A c \in Command, d \in Device : WF_vars(CommandStep(c, d))
  /\ \A s \in Scene, d \in Device : WF_vars(SceneStep(s, d))
  /\ \A w \in Watcher, d \in Device : SF_vars(WatcherStep(w, d))
  /\ \A a \in Agent, d \in Device : SF_vars(HoldStep(a, d))

FairSpec == Spec /\ Fairness

-----------------------------------------------------------------------------
(* Properties.                                                             *)

\* A slot is used by its owner alone, and the owner is the oldest ticket: no
\* two commands talk to one device at the same time, whatever mix of threads,
\* futures, deadlines and recoveries asked for it.
SlotIsExclusive ==
  \A d \in Device, a \in Agent :
    at[a][d] \in InSlot => owner[d] = a /\ Head(queue[d]) = a

\* The hand-over between threads, which are notified, and futures, which must
\* be resolved one by one, never loses a wake-up: a parked scene at the head of
\* a free queue has its result.
NoLostWakeup ==
  \A d \in Device :
    (owner[d] = None /\ queue[d] # <<>> /\ at[Head(queue[d])][d] = "parked")
    => Head(queue[d]) \in resolved[d]

\* A recovery never stands behind a command of the user (try_hold: "Optional
\* recovery never queues behind user commands").
BackgroundNeverWaits ==
  \A w \in Watcher, d \in Device :
    at[w][d] # "idle" => Head(queue[d]) = w

\* Two scenes that share devices stand in the same order at each of them, so
\* the later scene wins everywhere and the home is never left half in one
\* scene and half in the other.
NoSceneInversion ==
  \A d, e \in Device, s, t \in Scene :
    (/\ s # t
     /\ {s, t} \subseteq ToSet(queue[d]) /\ {s, t} \subseteq ToSet(queue[e])
     /\ stamp[s][d] < stamp[t][d])
    => stamp[s][e] < stamp[t][e]

\* An idle device and its client agree, unless the device changed on its own,
\* a command failed halfway, or the client was replaced under a command.
IdleDeviceInSync ==
  \A d \in Device :
    (queue[d] = <<>> /\ client[d] # 0 /\ ~drift[d]) => shadow[d] = power[d]

\* Together: one command at a time talks to a device, nobody who waits for it is
\* forgotten, a recovery never waits in front of a command, two scenes stand in
\* one order, and a device at rest agrees with its client (TapoCommandQueue and
\* its users).
OneAtATime ==
  /\ SlotIsExclusive /\ NoLostWakeup /\ BackgroundNeverWaits
  /\ NoSceneInversion /\ IdleDeviceInSync

\* Commands reach a device in the order in which they were accepted.
WritesInOrder == \A d \in Device : lastWrite'[d] >= lastWrite[d]

\* A reading that was under way while a command came and went, or that is
\* older than the command's own result, never replaces what the client of the
\* device already shows.
ShadowNeverRegresses ==
  \A d \in Device : client'[d] = client[d] => shadow'[d] >= shadow[d]

\* Together: the writes of a device are never overtaken, and what is shown of it
\* never goes back (publish_device, tapo_refresh).
NothingGoesBack == [][WritesInOrder /\ ShadowNeverRegresses]_vars

\* Every ticket is served or given up, even if no deadline ever fires: threads
\* and scenes never wait for each other in a circle.
EveryTicketEnds ==
  \A a \in Agent, d \in Device : at[a][d] \in Waiting ~> at[a][d] = "idle"
=============================================================================
