# KotiBot verification project

TLA+ specifications of KotiBot, the TLC runs that check them and the TLAPS
proofs of their main theorems. Paths of sources are relative to the repository
(`src/`), modules to this directory.

KotiBot is one Python process: a Flask application served by Waitress worker
threads, with background threads for health checks, the Tapo watcher, the JSON
writer, automations and Matter. Its registry (`CLIENTS`, `ROUTES`, the arm
state) is guarded by one re-entrant lock, `STATE_LOCK`; slow work (network
calls, files, child processes) is done outside it, and that is where the hard
behaviour is. Around the process there are phones that poll and get pushes,
dashboard pages, Tapo devices with sessions of their own, and tools that an
operator runs to migrate files and to rotate and retire credentials.

## 1. Inventory

| Component (sources) | State | Operations | Interacts with | What is hard | What makes it correct |
| --- | --- | --- | --- | --- | --- |
| **JSON store** (`server_core/io.py`) | `_PENDING_WRITES`, `_FLUSHING_WRITES`, `_FAILED_READS`, primary and `.lkg` backup of each file | `read_json`, `write_json_atomic`, `write_json_batch_atomic`, `write_json_atomic_sync`, `flush_json_writes`, `stop_json_writer` | every component that keeps a file | writes coalesce for 30 s; flush, direct writes, readers and the exit interleave; crash between two file operations | nothing accepted is overtaken or hidden; a good copy always exists; a damaged file is not overwritten; an orderly exit loses nothing |
| **State runtime** (`server_core/state.py`) | `CLIENTS`, `ROUTES`, arm state, six files | `save_state`, `load_state` | JSON store, all routes | one snapshot becomes six file writes; a restart reads any mixture of them | an accepted start keeps every durable registration, and brings no route back without its client |
| **Tapo command queue** (`subsystems/tapo_commands.py`) | per device: ticket deque, owner, version, futures | `reserve`, `hold`, `try_hold`, `has_waiters`, `observe` | Tapo routes, automations | threads wait on a condition, coroutines on futures, in one queue; deadlines; ABA of versions | one owner; first come, first served; no lost wake-up |
| **Tapo routes and drivers** (`client-tapo/`) | client shadows, `scene_sequences`, preview viewers, cached sessions, ffmpeg processes | commands, scenes, refresh, discovery, previews, recordings | command queue, devices | a reading or a result arrives late; sessions end at the device; streams are pruned by others' requests | a shadow never goes back; a command acts once; the newest scene wins; who looks is served |
| **Security runtime** (`subsystems/security`) | tokens, device keys and hand-offs, nonces, sessions, passwords, rate limits | enrolment, staging, promotion, revocation, signature check, login, rotations and their rollback | every request, synchronous writes | lossy hand-off with retries and restarts; checks without the lock; nested rollbacks | the device always has a key and never three; what ended stays ended; a request counts once |
| **Status stream** (`server_core/streaming.py`, `routes.py`, `broadcast_state`) | listener queues of size 1, slots | subscribe, broadcast, close | registry, sessions | payload built under the lock, delivered outside it | slots released once; the newest payload wins; a revoked session sees nothing new |
| **Trigger routes** (`automations/trigger_routes.py`) | timers, lists of automations | fire, schedule, cancel, edit | command queue, registry | a timer races an edit, a re-trigger, a command | a cancelled timer never acts; a page edits what it shows |
| **Automations** (`automations_routes.py`) | day schedule, recharge rules, lighting state | daily reset, recharge pass | Tapo, JSON store | decisions outside the lock; names are reused | the day is reset once; no rule is lost |
| **Matter** (`subsystems/matter`) | nodes, monitors, state file, controller directory | subscribe, sync, replace | chip-tool | three locks, threads joined under one of them; directories renamed away | no report is lost between two reads; the identity stays on disk |
| **Android clients** (`client-android-home/`) | door, motion and recording state, pending commands, viewers | telemetry, frames, pushes | automations, dashboard | messages overtake each other and get lost; timers die with the server | the newest reading wins; a hand-made recording stays; a watched camera is awake |
| **Activity log, notification history, video uploads, talks** | files, timers, sessions | append, page, migrate, store, signal | phones, pages | crashes between two writes; duplicate names; pushes out of order | nothing lost, repeated or left behind; a talk that ended does not talk |
| **Migration and cleanup tools** (`tools/`) | files, manifests, hand-offs | copy, cut over, rotate, retire, verify | the service, each other | kills, failures, a service that is not stopped | nothing lost or overwritten; reported complete only when it is |
| **Dashboard** (`static/js`) | page state | clicks, polls, beacons | HTTP routes | requests out of order, dead pages | modelled where order matters, with the component it talks to |
| **Credentials, paths, other tools, network services** | files | - | - | - | not modelled, see section 8 |

`PROJECT.json` lists the components with their status, and the hazards (what is
hard to test here, line by line) with the property that covers each.

## 2. Modules

One module per component, with its state, one action per handler or step, and
its properties. Definitions whose comment begins with "Mutant:" are wrong
variants of the definition after them. No specification uses them; substituted
for the original, they must break a property, which shows that it can fail.

### Storage

* `DurableFile` is the abstract promise for one file: what is on disk is a
  document that was handed over, never older than what was there, except for the
  damage and the repairs that the environment does.
* `JsonStore` (`server_core/io.py`). The n-th document handed to the store for a
  path is the number n, so "older" and "newer" are comparisons; contents do not
  matter. `pending`, `flushing`, `blocked`, `primary` and `backup` are the
  dictionaries and files of the code, with `Absent` and `Corrupt` for what is not
  a document. `holder` is `_FLUSH_LOCK` and its purpose: a flush, one of the two
  final flushes of an exit, or a direct write. `batch`, `todo`, `failed`,
  `current`, `step` and `existing` are the local variables of the holder, so
  that each file operation of `_write_json_atomic_now` is a step: `CheckFile`,
  `SaveBackup`, `ReplacePrimary`, `FirstBackup`, each of which may fail before or
  after its effect. A `Caller` reads, has its read fail or not, and later writes
  what it made of it. The process crashes at any step or exits in order;
  `DamageFile` and `RepairFile` are the medium and the operator. History:
  `latest` (documents accepted), `gaveUp` (files whose newest document was
  refused, lost in a crash, or rewound).
* `StateStore` (`state.py`, over `JsonStore`). Three files stand for six: one
  with routes, one with subsystem records, one with clients; `content` remembers
  what each document says. `LoadState` follows `_load_state_locked`: what is
  missing although it has a backup, is corrupt, or contradicts another file
  refuses the start. `PruneRoutes` is the pruning before the server serves.
  Requests change memory and then save; a rejected save leaves the change in
  memory (`rejected`). The flush takes files in the order of `_state_documents`.
  A running server may hold a route without its client: `RemoveByCommand` (the
  command `remove` of `/api/tapo/client-command`) takes a client out and leaves
  its routes, and `AddRoute` asks for no client. The history `loose` is the
  devices of such routes; nothing else may add to them.

### Tapo

* `TapoCommands` (`tapo_commands.py` and its users in `tapo_routes.py`). The
  state of a device is the number of changes it has gone through and a client is
  the number of its registration, so "is this the client I found" and "is this
  reading older" are comparisons. Agents: `Command` threads (find the client,
  take a ticket, wait, check again, send, store the result under `STATE_LOCK`,
  leave), `Scene` requests (reserve all devices under the lock, then one
  coroutine per device), and the `Watcher` (`refresh_tapo_clients`: observe,
  read without a ticket, apply only what nothing has overtaken, restore lighting
  under a ticket taken only where the queue is empty). Any wait may time out at
  any moment. Simplifications: the second comparison right before the call
  (`tapo_routes.py:2722`) is merged with `CheckClient`; camera commands hold the
  slot like others.
* `TapoScenes` (`execute_home_scene`): clicks, sequence numbers per page for the
  last 128 pages (`Cap`), admission, one send per device, the home mode.
* `TapoSessions` (`tapo_control.py`): the cached handle, the connect lock, the
  renewal after a session error, answers that are lost, the refresh beside it.
* `CameraPreview` (`tapo_camera_command` and the stream registry): viewers with
  ages, one ffmpeg per camera, pruning by other requests, removal without the
  slot, new addresses.
* `CameraRecording`: recordings of a Tapo camera by automations and pages, the
  stop timers, removal. A stop timer that does not get the slot of its camera
  gives up (`trigger_routes.py:163-170`) and leaves the recording running; the
  runs that ask whether a recording ends leave that out (`MaxTimeouts = 0`).

### Security

* `DeviceKeys`: enrolment, handshake, signature check in two steps (candidates
  without the lock, marking and promotion under it), staged hand-off, revocation,
  removal. `mem` and `disk` are the security state, written at once; the registry
  is queued and lost in a crash.
* `DashboardSessions`: login, refresh, logout, both rotations with rollback, saves
  that fail before or after their effect, restarts; a session is a number with
  the secret and the version it was made under. A version is spent by a change
  and by its rollback, so the runs allow three. History: `before` is the sessions
  that worked when the secret was last replaced.
* `RequestLimits`: nonces and sliding windows over a clock of whole seconds. Both
  live in memory, so `Restart` empties them; `former` remembers what servers
  before it have accepted.

### Automations

* `AutoOff` (motion lights): reporters, one timer object per schedule, user
  commands, the watcher, edits; time is left out, a timer may fire at any moment
  after it was started.
* `DayReset`, `Recharge` (the two background passes with what users do
  meanwhile). A plug leaves through its own route, by a command, or with its
  add-on; the last two leave the rules that name it, which the history `left`
  records.
* `AutomationRoutes` (the lists, and pages that name entries by position or by
  value, any number of them, with saves that are rejected, clients that are
  removed, and restarts). The histories `behind` and `unsaved` say which pages
  hold a list in which an automation was deleted or edited since; `last.late` is
  that for the last request.

### Phones and pages

* `DoorSensor`: readings that overtake each other, recalibration, the repeated
  sound. `CameraMotion`: motion, recording, settings, commands that wait for the
  next poll, the lamp of a motion automation, and automations that record with
  the camera for its own motion or for another sensor (`RecordByRoute`,
  `trigger_routes.py:638-658`): they mark the recording as one of a motion,
  whoever started it, and start no timer, so the history `routed` tells whether
  one has done so since a user decided, and whether a timer was there to end it. `CameraTalk`: clicks, sessions,
  pushes, the phone. `PreviewRequests`: how an Android camera learns that somebody
  watches it. The phones are known from what `src/` says of them and marked
  external.
* `StatusStream`: writers that let go of `STATE_LOCK` before their broadcast or
  hold it throughout (`lock' \in {w, None}`), listener queues of size one, slots,
  revocation. History: `overtaken` is the payloads that were still on their way
  when a newer one was built, `first` the snapshot a stream began with.
* `ActivityLog`, `PushHistory`, `VideoUpload`: the log with its buckets and
  pages, the history file with its migration and its sanitizer, the segments of
  one directory and stem. An upload that is turned first makes its staging file
  (`Stage`), then makes it private (`Secure`); only after that is the file removed
  however the turning ends, so `SecureFails` leaves it, empty.

### Matter and the tools

* `MatterSync` (monitors, syncs, replacements and their locks),
  `MatterController` (the state file and the controller's directory).
* `MatterStorage`, `FileCopies`, `CredentialRotation`, `KeyCleanup`,
  `SourceResidue`: the tools of `tools/`, stage by stage, with kills, failures
  and a service that runs when it should not. A tree, a file or a credential is
  its version. The rotation tools exclude each other by their lock (`Free`); the
  removal of retired credentials takes no lock, so it and they may overlap, and
  the history `mixed` says that they have since the rotation began. A rollback
  reads its bundle (`read`) before it installs it.

## 3. Runs

Components share no variable, so several are checked in one run: in a suite
(`MC*.tla`) a behaviour is about one component, as the variable `part` says, and
the variables of the others rest in their initial states. Properties of steps
are action formulas in the component and boxed by the suite. The component whose
theorems a suite also checks is the one it extends (`TapoCommands`, `DeviceKeys`,
`AutoOff`, `FileCopies`, ...): its property stands in the .cfg as the theorem has it. One that
needs several situations (more threads or more faults, not both) is several
parts, told apart by the constants of an `INSTANCE` or by what a part's steps may
do (`OneThread`, `OneTimer`, `OneRequest`).
Every passing property has a mutant in `PROJECT.json`.

| Run | Parts and bounds | Shows |
| --- | --- | --- |
| `json_store` | 2 files (one queued, one synchronous), 1 caller, 2 documents per file, 1 error, 1 damage | `QueueHoldsNewest`, `ReadsNewest`, `Recoverable`, `CleanStopIsDurable`, `DamageIsPreserved`, `ImplementsDurableFile`; `EventuallyDurable` under fairness |
| `state_store` | 1 device, 3 files; restarts with 4 documents per file, or 3 with 1 error or 1 damage | `NoDanglingRoute`, `LoadKeepsDurable`, `CleanRestartRestores` |
| `tapo` | 1 device with a command, a scene and the watcher (3 tickets, queue limit 2, 2 registrations); 2 devices and 2 scenes; 2 sessions, 1 lost answer, 1 switch by hand; 2 pages with 2 clicks each, with and without room for both | `OneAtATime`, `NothingGoesBack`, `CommandsAreTrue`, `LastSceneWins` |
| `security` | keys: 3 keys, 1 token, 1 crash; 2 requests at once; 1 failed write; accounts: 2 users, 3 versions, 1 failed save *and* 1 restart, with 1 session and 1 added user, with 2 sessions and no failed save, and with 2 requests at once; limits: 2 messages, 5 seconds, 1 restart | `CredentialsAreSafe`, `DeviceStaysIn`, `SessionsHold`, `LimitsHold` |
| `automations` | motion with 1 reporter and every kind of fault, and with 2 reporters and 2 users; recordings with 2 automations and a user; 2 days and 2 lights; 2 phones and 1 plug that leaves in every way; 1 page with 1 rejected save, 1 restart and 1 removed client, and 2 pages | `TimersAreTrue`, `ActionsAreTrue`, `RulesAreKept` |
| `cameras` | 2 pages of a camera; 2 door messages, 1 fault, 1 recalibration; 2 requests, 1 timer, 2 commands of users or automations, 1 restart; 1 request, 2 timers, 2 commands; 2 talks to 2 cameras | `LastPushWakes`, `DoorIsTrue`, `UsersDecide` |
| `dashboard` | 3 uploads of one second, 1 crash; 1 stream, 2 writers and 3 states; 2 streams and 1 slot; 2 or 3 kinds of activity, 2 buckets, 1 crash; 4 records, 3 starts, 1 torn line, 2 runs of the tool; 2 pages and 1 camera | `AnsweredIsStored`, `NothingLeftBehind`, `WholeStays`, `PagesAreServed`, `LogsAreKept` |
| `migrations` | 2 nodes, 2 syncs, 1 replacement; 2 callers, 2 replacements, 1 crash; 3 trees, 1 kill, 1 failure, the service started once; 2 operators and 2 files; 2 rotations, 2 failures, 2 stops, removals beside rotations; 2 devices with keys; 1 file of each kind | `MatterIsSafe`, `CopiesAreSafe`, `NothingIsLost`, `CleanupsAreSafe` |
| `weak_fairness` | 15 situations | `AllEnds`, `AllArrives` |
| `strong_fairness` | 15 situations | `AllComesTrue` |
| `json_store_default` | 1 file, 2 callers, 1 error | violation of `NoDefaultAfterFailedRead`, section 6 |
| `camera_motion_restart` | 1 request, 1 timer, 1 restart | violation of `MotionRecordingEnds`, section 6 |

The constants of each part stand beside its `INSTANCE` in the suite. Suites do
not check for deadlock: a part ends when its bounds are used up, and a door that
is quiet or a tool that has finished really stops. `json_store` and
`state_store` do check for it. Parts of `MCSecurity` and `StateStore` in
`MCStateStore` are cut down further: `calm'` leaves out steps of the operator
beside races, `faults' = 1` keeps the operator to the part where a write has
failed, `LegacyStay` keeps old hashes out of the races of sessions, and `Fewer`
allows three documents instead of four, and no `loose` route, where something
goes wrong.

Why the bounds are enough. Each component was run on its own with larger bounds
than the suite has before the suite was put together; what a suite keeps is what
its rules can tell apart. In the store, a document meets one newer and one older
document of the same file (queue, batch, disk, backup): two documents give every
relative order, a third version is what the previous start has left. In the
command queue every rule is about the head, the one behind it and the one who
leaves. Of keys there may be two and must not be three; a hand-off needs a
current, a staged and a next key. Timers are reused once finished, so two or
three objects give every overlap of a running, a waiting and a replaced one.
Tools are killed or fail once at every step, and run again. The proofs remove
the bounds for the properties they state.

## 4. Fairness

Fairness is stated in the components and repeated in the two fairness suites as
a numbered list per part (`Weak(i)`, `Strong(i)`), because TLC needs the same
number of conditions for all parts.

* Weak: a thread that can go on does so (flush loop, timers that were started,
  handlers, background passes, coroutines, the retry of a phone that polls for
  ever). A network call ends because it has its own deadline.
* Strong: who asks for a lock again and again gets it (critical sections are
  short and no lock is held across a wait, but a Python lock is not first come,
  first served); a message that is sent for ever arrives sometimes; an operator
  who repeats a tool completes it sometimes. `strong_fairness` sometimes asks for
  less than the component states: for a disjunction of actions instead of each.
* None for callers, users, crashes, errors, faults and repairs, and none for the
  deadlines of the command queue: hand-over works without them.

## 5. Proofs

TLAPS proves the following for every value of the constants: any number of
files, threads, uploads, pages, retries and faults. The assumptions are those
the modules name (`ConstantsAssumption`, `KeysAssumption`,
`AccountsAssumption`, `MigrationsAssumption`, ...): the sets are disjoint where
the code keeps them apart, `None` is not a value it stands for the absence of,
there is at least one user and room for one session, and the bounds are natural
numbers. Each invariant was checked by TLC as an invariant of a run
before it was proved.

The property of a run is often about several components, so the theorem is about
the composition: the constants of its components are constants of the MC module
(only a part that stays with TLC keeps numbers beside its `INSTANCE`), the
inductive invariant is the conjunction of those of the components, a step of one
component leaves the variables of the others alone, and what bounds a part, like
`OneRequest` (a device sends one request at a time) or `OneReporter` (one thread
takes all reports), is a hypothesis of the component's theorem that the part's
steps keep. This is how `CamerasInv`, `MigrationsInv`, `SessionsInv` and
`ActionsInv` are built.

* `StateStoreProofs`, first about `JsonStore`. No promise of the store is inductive as it stands, because
  it depends on where the holder of `_FLUSH_LOCK` is between two file
  operations. `StoreInv` adds that: the types; `JobInv` (which local variables
  mean something for which purpose and step); `OrderInv` (queue, batch and disk
  are ordered, no document is newer than the last accepted); `DiskInv` and
  `StepInv` (between two operations the file that is about to be replaced has
  its copy); `NewestInv` (the newest document is in the queue, in the batch, in
  the direct write or on disk). `Init` and the stuttering step are one lemma
  each, every action one, in the order of the module. From it follow
  `TypeCorrect`, `QueueNewest`, `ReadNewest` and `AlwaysRecoverable`, the action
  properties `ReplacementKeepsPrevious` and `DamageStays`, and, step by step,
  that the store implements `DurableFile` (`StoreImplements`). An orderly exit
  needs one invariant more: `StopInv` says what each of the two final flushes has
  left behind, and `CleanStop` follows.
* `VideoUploadProofs`. `UploadInv` is the types, `PartsAreOwned` (a staging file
  is the one its handler writes), `ShownIsWhole`, and for each upload `Placed`
  (where its bytes are at each step of the handler) and `Tidy` (which of the two
  temporary files may exist; a staging file that could not be made private is left
  empty, and `NothingLeft` says that nothing else is). From it follow
  `AnsweredStored`, `NothingLeft` and the action property `WholeSegmentsStay`.
* `CameraProofs`. For the viewers of an Android camera the property together
  with the types is inductive (`ViewersInv`), because the push is decided under
  the same lock as the viewers change: `CameraStaysWoken`. `DoorInv` adds to the
  promises of the door that a status that is closed without a recalibration was
  read (`ClosedIsRead`): that is why an opening fires only after a closing was
  seen. `MotionInv` is that what was started by hand is recorded and, unless
  an automation has recorded since, is not a recording of a motion: no timer of
  any age, and no other request, can end it then (`HandStays`). `TalkInv` follows a talk through the page, the server
  and the phone (`TalkPage`, `TalkSessions`, `TalkStarts`): a session that is
  over before the phone took part is one the phone has never seen. `CamerasInv`
  is the four together, and gives `DoorStaysTrue`, `UsersHaveDecided` and
  `CamerasTypes`.
* `StateStoreProofs`, then about the registry over it: its steps are steps of
  the store, or leave it alone, so `StoreInv` and `StopInv` carry over.
  `StateInv` adds `RegistryInv` (what the documents of the three files can hold
  while the server loads, and while a snapshot is being written), `SoundInv` and
  `CleanInv` (after an orderly exit the files hold the registry of the exit), and
  `DurableInv` (a registration that was durable is in every copy of its two files
  that a start could choose, also while one of them is replaced). What a request
  may leave without its client is in `loose`, and nothing else is: that is the
  part of `RegistryInv` about routes. From it follow
  `RoutesReferenceClients`, `StartKeepsDurable` and `RestartRestores`.
* `TapoCommandsProofs`. `TapoInv` has two halves. `TicketsInv` is about who waits
  for and who holds a device: `QueueInv` (tickets are numbered in the order of
  the queue, behind the newest command, and exactly those who stand in it have
  one), `SlotInv` (the owner, or the scene whose future has a result, is the
  head), `PlaceInv` (who can be where), and `SceneInv`: two scenes stand in one
  order *because* one is admitted at a time, so while a scene has targets left
  its tickets are the newest; without that part the order is not inductive.
  `BeliefsInv` is about what the server believes: `ReaderInv` (what the watcher
  noted is older than what there is, and a queue whose version has not moved is
  still empty) and `SyncInv` (nothing shown, read or written is ahead of the
  device, and a fresh reading is not behind the client). The lemmas come in the
  order of the argument: sequences without one element, what reserve, cancel,
  entering and moving leave of the tickets, what they leave of the beliefs, and
  then one lemma per action. From it follow `CommandsOneAtATime` and the action
  property `NothingEverGoesBack`. `CommandsStayTrue` is about the sessions with a
  device: `SessionsInv` says, for each place a command can be in, which handle it
  has, whether the device has done it already, and why a renewal never repeats
  what was done.
* `SecurityProofs`, first about the keys of devices. `AtMostTwoUsable` needs to know that a staged key never
  stands beside a previous one, in memory and in the file, which a failing write
  lets differ; `VerifiedIsProven` that whoever is past the signature check has
  signed; `OneKeyPerToken` what a request has already made sure of. `KeysInv` says
  so: `RecordsInv` (`Sound`: the shape of a record, the keys and tokens it may
  name, a token that can still be used has released nothing), `RequestsInv`
  (`Fit`: who claims, consumes or issues holds `STATE_LOCK`, a consumed token is
  in neither record, a key past the check is proven) and `HistoryInv`. One lemma
  says for each edit of a record that it stays sound, and three say what a step of
  a request, a step that writes and a step of somebody else leave of the rest;
  each action is one of them. `StagedInv` adds what holds as long as no operator
  has intervened and no write has failed: memory is what is on disk, a staged key
  is newer than the current one, and whoever has signed with a staged key finds it
  still staged, promoted, or replaced by a newer one. Together they give
  `DeviceCredentials`. `DeviceAccess` is about a device that sends one request at a
  time (`Spec /\ []OneRequest`); `AccessInv` says which keys it and the answer
  under way can hold. The assumption is needed: with two requests, TLC finds that
  an answer delayed over two hand-offs puts the device back to a key that has
  expired. `DeviceKeepsSigning` is the same for the run.
* `SecurityProofs`, then about accounts and sessions (`SessionsStaySound`). The
  parts of the run differ in what is allowed together, so `SessionsInv` has three
  layers. `AccountsInv` holds in all of them: `SoundState`, of the record in
  memory and of the one on disk (somebody has a password, no session is both
  active and retired, no owner has too many of either), and, while no user has
  been added, `KeptState`: what has ended is `Dead` in both, because its owner is
  gone or has a newer version, and versions only grow (`Onward`). With one thread
  `ThreadInv` adds that a rotation under way is `Resolvable`, that a hash about to
  be stored is of the current password, and that no cookie about to be signed is
  of a retired session. `ReturnInv` is about rollbacks: the sessions that worked
  when the secret was replaced wait in the retired record (`Waiting`), in memory
  and on disk, which differ by at most one rotation, rollback or finalization that
  could not be saved (`Lag`); so a rollback, also one that only a restart carries
  out, brings them back.
* `MigrationProofs`. `CopiesInv` is the types, `StagedHasFile` (a run has a file
  in hand only between staging and linking), `UntilWritten` and `Untouched` (before
  the first write every manifest and everything read is what the files still are)
  and `GoodCopies` itself. `CopyingIsSafe` follows with the two action formulas
  `NeverOverwritten` (only a link changes a destination) and `DoneIsCopied` (only
  the last step of a run reports success). The other tools and Matter follow, each
  with the invariant its promises need: `KeysInv` (what was cleaned is verified
  until something changes), `ResidueInv` (while a cleanup runs, what it has still
  to remove is what the preflight saw and is kept elsewhere), `RotationInv` (where
  each credential is in every phase of the rotation and of the cleanup, with and
  without a state file, as long as no rotation tool has run beside a removal
  (`~mixed`): if none has, whoever is under way has the files to itself, and if
  one has, only the types remain until the next rotation begins), `SyncInv` (who reads or stores has the nodes to itself,
  and what is on its way to a client is no older than what it shows),
  `ControllerInv` (as long as no command overlaps a replacement the directory is
  the old one, or only away) and `StorageInv` (once a tree is archived, or is about
  to be, the protected trees are in place; between runs that nobody killed all
  trees have moved or none). `MigrationsInv` is all of them, and gives
  `MatterStaysSafe`, `NothingGetsLost`, `CleanupsStaySafe` and `MigrationsTypes`.
* `AutoOffProofs`. `RevokedIsSilent` and `NoDeadTimer` need that the entry of
  `route_timers` is never a revoked timer (`EntryInv`). `InSync` needs to know who
  has the device: `QueueInv` (only those who wait or have begun are in the queue,
  nobody twice, and who has begun is the first) and `ShadowInv` (unless there is a
  reason, only a command on its way parts what is shown from what the device
  does). `MotionInv` is these and the types, and gives `TimersStayTrue`.
  `LightFollowsMotion` is about one thread of reports at a time (`OneReporter`): from
  the moment the thread has cancelled the timer none is entered during motion
  (`SyncPower` cancels then), a timer that was already sending comes before the
  thread in the queue, and so, once the thread has looked at the light, nothing
  that is not excused can turn it off (`ReportInv`, `LightInv`). With two threads
  a clear that comes last does start a timer during motion (section 7).
  `RecordingInv` says for each thread between two steps of a recording what the
  camera does and which client it can still meet: only who has the slot commands,
  so what is shown differs from what the camera does only by the command under
  way, unless a client was removed under a recording. `DayInv` keeps that a run is
  for a date without a successful one, and that what it has sent is shown or was
  changed since. `ActionsInv` is these and the motion lights: `ActionsStayTrue`.

What stays with TLC, and why:

* liveness under fairness (`EventuallyDurable`, `AllEnds`, `AllArrives`,
  `AllComesTrue`): tlapm proves no `ENABLED`;
* `LimitsHold`, `LastSceneWins`, `RulesAreKept` and the types of `Recharge`:
  the dictionaries and windows are sequences that the code filters, and the passes
  are folds. `SelectSeq` and `FoldLeft` are recursive, so what they return is an
  induction over the sequence, which the provers cannot instantiate;
* `PagesAreServed`, `LogsAreKept` and `MCDashboard.TypesOK`: `ActivityLog` merges
  histories with a `RECURSIVE` operator, and a module that reaches one has no SMT
  prover.

## 6. Disagreements between the code and its documents

Two are runs of their own:

* `json_store_default`: a caller whose read failed, and who goes on with an empty
  default, can overwrite the intact file if another caller has read it in the
  meantime, because the record of the failure is shared and the success removes
  it (`server_core/io.py:253`). The stability roadmap (line 244) rules this out.
* `camera_motion_restart`: `recording_enabled` and `motion_recording_active` are
  restored at a start, and nothing starts the stop timer of a recording that was
  under way (`server_core/state.py:776`), so it goes on until new motion ends;
  `docs/ANDROID_CAMERA_SUBSYSTEM.md:426` says that the server schedules its stop.

The others are stated as properties of the modules, with the sentence they come
from. Where a checked property has an exception (a history such as `loose`,
`left`, `late`, `routed`, `mixed` or `overtaken` says when), the strict form is
one of these. They are in no run: a run has one property per finding. Each has its
sentence, and TLC refutes each in seconds with the module itself as specification
(`Spec`, or the fair one where named) and the constants given:

* `StateStore`, `DurableSurvivesRestart` (`StateSpec`): the flush writes the
  subsystem files before server_state.json and load_state rejects a subsystem
  record without a client (server_core/state.py:704-710), so a crash between the
  two leaves a state that refuses every start;
  docs/roadmaps/1_KotiBot_Fixes_Stability_Roadmap.md:254 says "Confirm that all
  durable mutations survive restart". Constants: `Device = {d1, d2}; Path =
  {RoutesFile, SubsystemFile, ServerFile}; SyncPath = {}; Caller = {};
  MaxVersion = 3; MaxFaults = 0; MaxDamage = 0`.
* `StateStore`, `RetryEventuallySaves` (`StateFairSpec`): a transient OSError
  while a flush looks at the primary blocks the path
  (server_core/io.py:185-186); only a read of that file lifts the block and the
  server reads its state files at startup only, so every retry fails;
  server_core/state.py:626 tells the user "Server state could not be saved;
  retry the change". Constants: `Device = {d1}; Path = {RoutesFile,
  SubsystemFile, ServerFile}; SyncPath = {}; Caller = {}; MaxVersion = 3;
  MaxFaults = 1; MaxDamage = 0`.
* `DeviceKeys`, `GraceKeyAccepted`: a request whose slot was looked up as
  current (kotibot_security.py:3733, without the lock) is answered 409
  current_key_verification_failed when a concurrent request promotes the staged
  key before it is marked (:3832), although its key is then a valid grace key;
  tests/devices/android/test_staged_device_key_handoff.py:135 signs with the
  replaced key in its grace period and expects it to be accepted. Constants:
  `Request = {r1, r2}; MaxKeys = 2; MaxTokens = 1; MaxFaults = 0; MaxCrashes =
  0`.
* `RequestLimits`, `NeverReplayed`: the nonces live in memory only
  (kotibot_security.py:346), so a signed request that was accepted is accepted
  once more by a server that was started within the 300 seconds its timestamp is
  good for; kotibot_security.py:328 says 'replayed requests are rejected'.
  Constants: `Message = {m1}; Device = {}; Limit = 1; Window = 1; MaxTime = 2;
  MaxLives = 1`, the others as in the part "attempts" of `MCSecurity`.
* `DashboardSessions`, `RollbackRestoresAll`: refresh_dashboard_cookie signs with
  self.state["session_secret"] after it has released the lock
  (kotibot_security.py:2731), so a cookie refreshed across a rotation carries
  the new secret for a session of the old one and stays invalid after the
  rollback;
  tests/dashboard/accounts/test_dashboard_session_credential_rotation.py:242
  "test_authenticated_rollback_restores_prior_sessions" expects the rollback to
  restore the sessions. `RollbackRestores`, which is checked, leaves out cookies
  signed so. The same gap the other way round: a logout that found its session
  before a rotation (kotibot_security.py:2734) ends nothing after it, and the
  rollback revives the session; the server answers the logout all the same.
  Constants: `Password = {p, q}; User = {a}; Legacy = {}; Request = {r1, r2};
  SessionLimit = 1; MaxSessions = 2; MaxVersion = 3; MaxAdds = 0; MaxFaults = 0;
  MaxCrashes = 0`.
* `DashboardSessions`, `OldPasswordFails`: verify_dashboard_login replaces an
  unsalted hash by the hash of the password it has just verified without
  comparing the record again under the lock (kotibot_security.py:2196-2201); a
  password rotation that lands in between is undone without an error, while
  tests/dashboard/accounts/test_dashboard_user_password_rotation.py:243
  "self._assert_login_fails(" expects the old password to fail after a rotation.
  Constants: `Password = {p, q}; User = {a}; Legacy = {a}; Request = {r1, r2};
  SessionLimit = 1; MaxSessions = 2; MaxVersion = 2; MaxAdds = 0; MaxFaults = 0;
  MaxCrashes = 0`.
* `AutoOff`, `GoesOff` (`LiveSpec`): refresh_tapo_clients stores the readings
  under STATE_LOCK and publishes the power changes after it, and
  sync_device_automation_target_power trusts the published value instead of the
  client: an OFF published after a user turned the device on cancels the
  auto-off timer that command started, and the device stays on. The automation
  is labelled 'Off after ${timer}' at src/static/js/dashboard-actions.js:5196.
  Constants: `Reporter = {r1}; Timer = {t1, t2, t3}; User = {u1}; MaxReports =
  0; MaxCommands = 1; MaxEdits = 0; MaxFailures = 0; MaxLosses = 0; MaxTimeouts
  = 0; MaxSurprises = 2`.
* `MatterController`, `NoStrayIdentity`: _run_chip_tool ends with
  ensure_private_tree, which creates the controller's storage directory when a
  replacement has just renamed it (line 934); the rollback then finds a
  directory (line 949) and does not restore the backup, and the next command
  initialises an identity in the empty directory. chip_tool_storage_dir says
  'Matter controller storage is unavailable; refusing to initialize replacement
  identity.' (src/subsystems/matter/matter_runtime.py:606). Constants: `Caller =
  {c1, c2}; Node = {n1}; Unit = {cels, fahr}; FirstUnit = cels; MaxRequests = 3;
  MaxReplacements = 1; MaxCrashes = 0`.
* `MatterController`, `SettingsKept`: _run_chip_tool writes back the whole state
  it read up to 120 s before, so settings (and nodes) saved meanwhile are undone
  in matter_state.json while the status payload goes on showing them until a
  restart. The roadmap asks to '| `matter_state.json` | Retain commissioned node
  identity and user settings'
  (src/docs/roadmaps/1_KotiBot_Fixes_Stability_Roadmap.md:187). Constants:
  `Caller = {c1, c2}; Node = {n1}; Unit = {cels, fahr}; FirstUnit = cels;
  MaxRequests = 3; MaxReplacements = 0; MaxCrashes = 0`.
* `MatterController`, `Pairs` (`LiveSpec`): recommission_node renames the
  storage directory (line 934) and calls _run_chip_tool, whose read_state asks
  chip_tool_storage_dir for a default value and raises because the directory is
  gone: every replacement is rolled back before it pairs. The dashboard says
  'KotiBot will back up its current Matter controller storage before pairing
  again.' (src/static/js/dashboard-render.js:4178). Constants: `Caller = {c1,
  c2}; Node = {n1}; Unit = {cels, fahr}; FirstUnit = cels; MaxRequests = 0;
  MaxReplacements = 1; MaxCrashes = 0`.
* `CameraRecording`, `NoOrphan`: remove_client drops the client of a Tapo camera
  without stopping its recording, and the stop timer then finds no camera and
  gives up (trigger_routes.py:550), so ffmpeg records until the server ends. The
  automation's own start handles that race: '# STATE_LOCK. Do not leave its
  recording running orphaned.'
  (src/subsystems/automations/trigger_routes.py:634). Constants: `Source = {s1,
  s2}; Retriggers = {s1}; Timer = {t1, t2, t3}; User = {u1}; Runner = {r1};
  MaxRuns = 1; MaxRequests = 0; MaxClients = 0; MaxRemovals = 1; MaxEdits = 0;
  MaxFailures = 0; MaxTimeouts = 0`.
* `DayReset`, `ChoiceKept`: the run reads activeSchemes before it commands the
  lights and afterwards sets every key it has read to 'day', also a key for
  which a user has activated another mode meanwhile; the comment says
  'background work never queues' 'behind or overwrites a newer user command.'
  (src/subsystems/automations/automations_routes.py:1075). Constants: `Key =
  {room, key}; Device = {l1, l2}; KeyDevices: room -> {l1, l2}, key -> {l1};
  User = {u1}; LastHour = 2; MaxDays = 1; MaxChoices = 1; MaxSaves = 0;
  MaxFailures = 0`.
* `DayReset`, `SettingsKept`: the run stores 'enabled' and 'resetHour' as it
  read them before it commanded the lights: a reset that is turned off, or
  moved, in between is turned on again. The roadmap asks to '|
  `automations_state.json` | Retain as authoritative user configuration until a
  later store replaces it. |'
  (src/docs/roadmaps/1_KotiBot_Fixes_Stability_Roadmap.md:184). Constants: `Key
  = {room, key}; Device = {l1, l2}; KeyDevices: room -> {l1, l2}, key -> {l1};
  User = {u1}; LastHour = 2; MaxDays = 1; MaxChoices = 0; MaxSaves = 1;
  MaxFailures = 0`.
* `Recharge`, `UserCommandStands`: the pass commands the plug without holding
  its command slot and however long after its decision, so a user's command in
  between is overridden; the comment in the same file says 'background work
  never queues' 'behind or overwrites a newer user command.'
  (src/subsystems/automations/automations_routes.py:1075). Constants: `Clients:
  <<a>>; Plug = {s1}; Name = {nA}; Ruled: a -> s1; MaxCommands =
  1; MaxFailures = 0; MaxChanges = 0`.
* `Recharge`, `RuleStays`: a rule is taken for stale because its client's name
  differs, although that client is still registered: the rule of a renamed phone
  is given to the phone that has taken its name. The roadmap asks to '|
  `automations_state.json` | Retain as authoritative user configuration until a
  later store replaces it. |'
  (src/docs/roadmaps/1_KotiBot_Fixes_Stability_Roadmap.md:184). Constants:
  `Clients: <<a, b>>; Plug = {s1}; Name = {nA, nB}; Ruled: b -> s1; MaxCommands = 0; MaxFailures = 0; MaxChanges = 2`.
* `Recharge`, `NoDanglingRuleAtAll`: the action 'remove' of
  /api/tapo/client-command takes the client out without the rules and routes
  that name it; the callback that the other removals call says 'Remove rules
  using deviceID as either battery source or power target.'
  (src/subsystems/automations/automations_routes.py:265), and the plug is
  charged through again once discovery finds it. Constants: `Clients: <<a>>;
  Plug = {s1}; Name = {nA}; Ruled: a -> s1; MaxCommands = 0; MaxFailures = 0;
  MaxChanges = 1`.
* `AutomationRoutes`, `ChangesWhatIsShownAlways`: an automation is named by its
  position in the list of the server, which may be newer than the list of the
  page: after another page, or the removal of a client, has changed it, 'Delete
  this automation?' (src/static/js/dashboard-actions.js:2742) deletes a
  different one, without an error. Constants: `Value = {v, w}; Device = {d, e};
  SourceOf: v -> d, w -> e; Page = {p, q}; MaxRoutes = 3; MaxFailures = 0;
  MaxRestarts = 0; MaxPrunes = 0`.
* `AutomationRoutes`, `ChangesWhatIsShownAlways`: the list in memory is replaced
  before it is saved and is not put back when the save is rejected; the error
  says 'Server state could not be saved; retry the change'
  (src/server_core/state.py:626), and the retry, by position, deletes or edits
  the automation that has moved up. Constants: `Value = {v, w}; Device = {d, e};
  SourceOf: v -> d, w -> e; Page = {p}; MaxRoutes = 3; MaxFailures = 1;
  MaxRestarts = 0; MaxPrunes = 0`.
* `MatterStorage`, `StagingRemoved`: a failed copy 'removes only tool owned
  staging'
  (src/tests/maintenance/migrations/test_matter_controller_migration.py:358,
  asserting at :376 that none is left), but the removal accepts the parents
  'matter' and the rollback root only; a copy of the cutover tool to its
  pre-cutover archive that fails leaves its staging directory, and the removal's
  error replaces the reason of the failure. Constants: `MaxWrites = 0; MaxStarts
  = 0; MaxCrashes = 0; MaxFailures = 1; MayFail = {"copy"}; Written = {}`.
* `MatterStorage`, `Revalidates`:
  'test_completed_cutover_is_idempotently_revalidated'
  (src/tests/maintenance/migrations/test_matter_storage_cutover.py:238): a
  completed cutover can be validated again; but the validation compares the
  primary with the pre-cutover copy, and once the service has run and chip-tool
  has written its storage they differ, so a relocation that is complete and
  sound is reported as a failure. Constants: `MaxWrites = 1; MaxStarts = 1;
  MaxCrashes = 0; MaxFailures = 0; MayFail = {}; Written = {"primary"}`.
* `CredentialRotation`, `RemovesRetiredAlways`: 'Cleanup removes only exact,
  validated credential sources'
  (src/tools/sec0066_cleanup_retired_credentials.py:6), but the cleanup does not
  take the lock of the rotation tool
  (src/tools/sec00645_rotate_service_credentials.py:858): a rollback that starts
  after the validation puts the previous credential back while the cleanup
  removes the candidate directory, and with it the only copy of the new
  credential. Constants: `Names = {user, pass}; Changes = {pass}; MaxRotations =
  1; MaxStops = 2; MaxFaults = 0`.
* `StatusStream`, `ShowsCurrent`: broadcast_state builds a payload under STATE_LOCK
  and puts it in the listeners' queues after releasing it, and handlers such as
  video_routes.py:492 call it without the lock; a slower broadcaster puts an older
  payload over a newer one (or takes the newer one out and finds the queue full
  again), and the listener is left with a state that is not the current one until
  something else changes; src/kotibot_server.py:956 says 'Notifies all SSE
  listeners that the state has changed.'. `Settled`, which is checked, allows such
  a page no other payload than one that was overtaken so. Constants: `Streams =
  {s1}; Writers = {w1, w2}; Limit = 1; MaxVersion = 2`.
* `TapoSessions`, `KeepsOff`: a power-preserving preset takes final_power from
  the stored is_on and asks the device only when that is unknown, so a bulb
  switched off at the device after the last reading is turned on;
  src/subsystems/client-tapo/tapo_scenes.py:118 says 'A power-preserving preset
  must not turn an unknown/off bulb on.'. Constants: `Scenes = {s1}; Plain = {};
  MaxSessions = 1; MaxAway = 0; MaxLost = 0; MaxFlips = 1`.
* `TapoScenes`, `HomeIsNewest`: a page that saves lighting settings posts every
  activeSchemes entry it holds, and the handler writes them over the file, so a
  home mode chosen meanwhile on another page is reverted;
  src/subsystems/client-tapo/tapo_routes.py:2504 says 'Persist the most recently
  admitted intent, even if an older Scene'. Constants: `Page = {p1, p2}; Device
  = {d1}; Cap = 2; Limit = 2; MaxClicks = 1; MaxSaves = 1`.
* `DoorSensor`, `CalibratingEnds` (`FairSpec`): the request sets calibrating to
  1 and the branch for a request that ran out
  (client_android_home_telemetry.py:355) clears the phase but not this flag, so
  it stays set until a later calibration: the button is disabled and the alarm's
  repeat muted;
  src/subsystems/client-android-home/static/js/client-android-home-render.js:84
  shows 'Door sensor is calibrating' for it. Constants: `Worker = {w1}; Timer =
  {t1}; MaxNet = 1; MaxFaults = 1; MaxRequests = 1`.
* `DoorSensor`, `AlarmContinues`: fire_door_routes cancels the door's sound
  outside the lock its reading was accepted under, so the request of a closing
  cancels the repeat a newer opening scheduled while the door is open;
  src/static/js/dashboard-actions.js:2193 promises 'Repeat while trigger remains
  active'. Constants: `Worker = {w1, w2}; Timer = {t1, t2}; MaxNet = 2;
  MaxFaults = 0; MaxRequests = 0`.
* `CameraMotion`, `ManualStaysAlways` (`Spec`) and `AllRecordingsEnd` (`FairSpec`):
  the automation of another sensor marks the recording of an Android camera as
  one of a motion whoever started it (trigger_routes.py:641), so the stop timer of
  the camera's own motion then ends a recording made by hand; and where there is
  no such timer it starts none, so that the recording goes on until new motion has
  ended; docs/ANDROID_CAMERA_SUBSYSTEM.md:426 says that the server schedules its
  stop. Constants: `Worker = {w1}; Timer = {t1}; MaxCommands = 2; MaxLosses = 0;
  MaxRestarts = 0`.
* `CameraMotion`, `LampGoesOff` (`FairSpec`): when the dashboard stops or starts
  the recording during motion, or it ran before, the stop timer is cancelled or
  returns early and the 'inactive' event that starts the auto-off is never
  fired; the automation is labelled 'Off after ${timer}' at
  src/static/js/dashboard-actions.js:5196. Constants: `Worker = {w1}; Timer =
  {t1}; MaxCommands = 2; MaxLosses = 0; MaxRestarts = 0`.
* `CameraMotion`, `SettingSticks` (`FairSpec`): telemetry stores the phone's old
  motion setting over the one just made; the answer still carries the command,
  but a frame upload before the next telemetry is answered with the overwritten
  field, and the phone goes back to the old setting.
  src/docs/ANDROID_CAMERA_SUBSYSTEM.md:328 says 'The server puts pending
  commands/state into the Android camera client. Android telemetry/server
  responses update `system_prefs`'. Constants: `Worker = {w1}; Timer = {t1};
  MaxCommands = 1; MaxLosses = 0; MaxRestarts = 0`.
* `CameraTalk`, `OneTarget`: the start checks cameraTalkRequested before it asks
  for the session and not after, and stopAllDashboardCameraTalk only stops
  sessions in the map, so a click on another camera meanwhile leaves both talks
  running; src/docs/ANDROID_CAMERA_SUBSYSTEM.md:750 says 'Only one dashboard
  talk target is active at a time.'. Constants: `Camera = {c1, c2}; Run = {r1,
  r2}; MaxLosses = 0`.
* `CameraTalk`, `OffReleases`: switched off while the session is being created,
  the start goes on, keeps the microphone and turns the button on again;
  src/docs/ANDROID_CAMERA_SUBSYSTEM.md:751 says 'Toggle-off releases microphone,
  timers, and peer connection.'. Constants: `Camera = {c1}; Run = {r1};
  MaxLosses = 0`.
* `PushHistory`, `Recorded`: a record is appended without a look at the end of
  the file, so after a write that was cut off it becomes part of a malformed
  line, which recent() skips; src/subsystems/notifications/kotibot_push.py:32
  says '- server records notification intent locally'. Constants: `Records =
  {p1, r1, r2, r3}; Legacy: <<r1, p1>>; Private = {p1}; MaxStarts = 2; MaxTears
  = 1; MaxRuns = 0`.
* `PushHistory`, `RemovesNothingElse`: the history is read at line 233 and the
  server only looked at afterwards: what a server stopped in between had
  appended is overwritten and is not in the rollback copy;
  src/tools/sec005_sanitize_notification_history.py:2 says 'Remove
  malformed/private WebRTC records from notification history safely.'.
  Constants: `Records = {p1, r1, r2, r3}; Legacy: <<r1, p1>>; Private = {p1};
  MaxStarts = 2; MaxTears = 0; MaxRuns = 1`.
* `CameraPreview`, `LastViewerStops`: tapo_camera_command decides on every entry
  of preview_viewers, also those older than PREVIEW_VIEWER_TTL_SECONDS that no
  status snapshot has dropped yet (the Android route drops them first), so the
  last page that leaves keeps, or even starts, ffmpeg for one that ended before;
  src/tests/devices/tapo/test_tapo_dashboard_commands.py:216 says
  'test_multiple_preview_viewers_are_preserved_and_last_viewer_stops'.
  Constants: `Page = {p1, p2}; Camera = {c1}; Looks: {p1, p2} \X {c1}; ViewerTTL
  = 1; Leaving = {p1, p2}; StreamTTL = 2; MaxClients = 0; MaxMoves = 0;
  MaxRemovals = 0; MaxFaults = 1`.

## 7. Hazards without a property of their own

Behaviours met while modelling for which the repository states no expectation,
or which a model leaves out on purpose: a route that is saved for a device nobody
has registered (`trigger_routes.py:1955`), and the routes that the command
`remove` leaves (`tapo_routes.py:2643`), both modelled and named in `loose`; the
empty staging file of a turning that could not be made private
(`video_routes.py:231`), which the answer to the upload does not mention; nonces
in a state file of an old release (`kotibot_security.py:1493-1508`), left out; the
undo of a Matter cutover whose own rename fails
(`path001c4_cutover_matter_storage.py:592`), taken not to happen; commands of a
charging pass, which go to the plug outside its command queue; an asyncio future that is cancelled by
its own deadline between `done()` and `set_result()` (`tapo_commands.py:164`);
the answer with a device's first key lost (`kotibot_server.py:698`); a removed
user who is added again starts at session version 1
(`kotibot_security.py:1764`); reports of one sensor on two threads running their
automations in the other order (`trigger_routes.py:1341`); an automation saved
again after it has run is added a second time (`trigger_routes.py:2046`); tools
that refuse to run again after a kill (`path001c4_cutover_matter_storage.py:427`,
`sec00645_rotate_service_credentials.py:666`,
`sec0066_cleanup_retired_credentials.py:1152`); the arm state logged outside
`STATE_LOCK` (`server_core/routes.py:261`); a poll that merges only the newest
page of the log (`static/js/dashboard-api.js:444`); the clock of a phone set back
(`client_android_home_telemetry.py:719`).

## 8. Not modelled, and why

Passkeys are a library's protocol, address classification and headers have no
state; the sending of push messages, chip-tool's output, the vendor SDK, energy
histories, the pairing repair of extenders, file listings, Bluetooth, addresses
and weather are requests to other programs without a protocol of their own;
credentials use the synchronous path of the JSON store; conversions of client
records (`clients.py`, `status.py`) and the drawing of the dashboard have no
state; inventories and verifications only read. `PROJECT.json` gives the reason
for each component.

## 9. Plan

What is left to prove needs what the provers here lack. `LimitsHold`,
`LastSceneWins` and `RulesAreKept` are about sequences that are filtered and
folded, and need induction over them; restated over functions from positions they
could be proved, at the price of a model further from the code. `PagesAreServed`
without the activity log, which is what keeps `MCDashboard` from the SMT prover,
could be split off into a suite of its own. Liveness stays with TLC. Next to
model: passkeys, once the library's protocol is a component of its own, and the
conversions of client records if one of them keeps state.
