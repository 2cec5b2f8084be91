---------------------------- MODULE MCMigrations -----------------------------
(***************************************************************************)
(* Matter and the migrations of the server's files, for TLC: sensor        *)
(* reports and syncs, the controller's identity, and the tools that move   *)
(* storage, copy files, rotate credentials, clean keys and remove residue. *)
(* The components share no state: a behaviour is about one of them, as     *)
(* part says, and the others stay in their initial states.                 *)
(***************************************************************************)
EXTENDS FileCopies

CONSTANTS
  Parts,
  Node, Sync, Startup, Repair, Loop,           \* Matter: the threads of a sync
  MaxChanges, MaxSyncs, MaxRepairs, MaxBreaks, \* bounds of them
  Caller, Commissioned, Unit, FirstUnit,       \* the requests of the controller
  MaxRequests, MaxReplacements,                \* bounds of them
  MaxFailures, MayFail, Written,               \* the move of Matter storage
  Names, Changes,                              \* the files of a credential group
  MaxRotations, MaxStops, MaxRotationFaults,   \* bounds of a rotation
  Devices, MaxKeyChanges,                      \* the retirement of keys
  State, History, CopiedFiles, Other, Blockers, \* the residue in the checkout
  MaxTouches, MaxKills, MaxFaults              \* bounds of its removal

VARIABLES
  part, \* which component the behaviour is about
  loop, monitor, event, sync, got, repair, syncLock, subscriptionLock,
  maintenanceLock, restart, active, maintenance, started, sensor, stored,
  matterUsed,
  up, file, shown, at, request, copy, storage, backups, replacer, overlapped,
  controllerUsed,
  tree, staging, storageService, storageRun, outcome, storageUsed, first,
  touched,
  cred, cand, kept, rotationLegacy, rotationService, snapshot,
  rotationHandoff, op, read, cleanup, base, mixed, rotationUsed,
  client, key, enrol, session, keysService, keysCleanup, changes,
  src, doc, live, rotated, archive, residueCopy, residueService,
  residueHandoff, removing, verified, residueUsed

Matter == INSTANCE MatterSync WITH used <- matterUsed
Controller == INSTANCE MatterController WITH
  Node <- Commissioned, used <- controllerUsed
Storage == INSTANCE MatterStorage WITH
  service <- storageService, run <- storageRun, used <- storageUsed
Rotation == INSTANCE CredentialRotation WITH
  MaxFaults <- MaxRotationFaults, legacy <- rotationLegacy,
  service <- rotationService, handoff <- rotationHandoff, used <- rotationUsed
Keys == INSTANCE KeyCleanup WITH
  MaxChanges <- MaxKeyChanges, service <- keysService, cleanup <- keysCleanup
Residue == INSTANCE SourceResidue WITH
  copy <- residueCopy, service <- residueService, handoff <- residueHandoff,
  used <- residueUsed, Copied <- CopiedFiles

\* None is no value of any component, and the threads have names of their own.
ASSUME MigrationsAssumption ==
  /\ {MaxChanges, MaxRotations, MaxStops, MaxRotationFaults, MaxTouches} \subseteq Nat
  /\ None \notin Matter!Thread /\ Loop \notin Sync \cup Repair /\ Sync \cap Repair = {}
  /\ FirstUnit \in Unit
  /\ None \notin Storage!Version /\ None \notin Storage!Tool
  /\ None \notin Rotation!Status /\ None \notin [Names -> Rotation!Version \cup {None}]
  /\ None \notin Keys!Record /\ None \notin Keys!Group \cup {"current", "older"}

syncVars == <<loop, monitor, event, sync, got, repair, syncLock,
              subscriptionLock, maintenanceLock, restart, active, maintenance,
              started, sensor, stored, matterUsed>>
controllerVars == <<up, file, shown, at, request, copy, storage, backups,
                    replacer, overlapped, controllerUsed>>
storageVars == <<tree, staging, storageService, storageRun, outcome,
                 storageUsed, first, touched>>
rotationVars == <<cred, cand, kept, rotationLegacy, rotationService, snapshot,
                  rotationHandoff, op, read, cleanup, base, mixed, rotationUsed>>
keysVars == <<client, key, enrol, session, keysService, keysCleanup, changes>>
residueVars == <<src, doc, live, rotated, archive, residueCopy,
                 residueService, residueHandoff, removing, verified,
                 residueUsed>>
MCvars == <<part, syncVars, controllerVars, storageVars, vars,
                  rotationVars, keysVars, residueVars>>

MCInit ==
  /\ part \in Parts
  /\ Matter!Init
  /\ Controller!Init
  /\ Storage!Init
  /\ CASE part = "copies" -> Init
       [] OTHER -> Init /\ tool = "state"
  /\ Rotation!Init
  /\ Keys!Init
  /\ CASE part = "residue" -> Residue!Init
       [] OTHER -> Residue!Init /\ src = [t \in DOMAIN src |-> 0]

\* What the others would use stays as it is.
SyncStep ==
  /\ part = "sync" /\ Matter!Next
  /\ UNCHANGED <<part, controllerVars, storageVars, vars, rotationVars,
                 keysVars, residueVars>>
ControllerStep ==
  /\ part = "controller" /\ Controller!Next
  /\ UNCHANGED <<part, syncVars, storageVars, vars, rotationVars,
                 keysVars, residueVars>>
StorageStep ==
  /\ part = "storage" /\ Storage!Next
  /\ UNCHANGED <<part, syncVars, controllerVars, vars, rotationVars,
                 keysVars, residueVars>>
CopiesStep ==
  /\ part = "copies" /\ Next
  /\ UNCHANGED <<part, syncVars, controllerVars, storageVars, rotationVars,
                 keysVars, residueVars>>
RotationStep ==
  /\ part = "rotation" /\ Rotation!Next
  /\ UNCHANGED <<part, syncVars, controllerVars, storageVars, vars,
                 keysVars, residueVars>>
KeysStep ==
  /\ part = "keys" /\ Keys!Next
  /\ UNCHANGED <<part, syncVars, controllerVars, storageVars, vars,
                 rotationVars, residueVars>>
ResidueStep ==
  /\ part = "residue" /\ Residue!Next
  /\ UNCHANGED <<part, syncVars, controllerVars, storageVars, vars,
                 rotationVars, keysVars>>

MCNext == SyncStep \/ ControllerStep \/ StorageStep \/ CopiesStep \/
          RotationStep \/ KeysStep \/ ResidueStep

MCSpec == MCInit /\ [][MCNext]_MCvars

------------------------------------------------------------------------------
\* The types of the components.
TypesOK ==
  /\ part = "sync" => Matter!TypeOK
  /\ part = "controller" => Controller!TypeOK
  /\ part = "storage" => Storage!TypeOK
  /\ part = "copies" => TypeOK
  /\ part = "rotation" => Rotation!TypeOK
  /\ part = "keys" => Keys!TypeOK
  /\ part = "residue" => Residue!TypeOK

\* Matter: no report comes between the reading and the storing of a sync, no
\* client goes back to an older value, and the identity the nodes know is on
\* disk at any moment, in its place unless a command overlapped its replacement.
MatterIsSafe ==
  /\ [](part = "sync" => Matter!Drained)
  /\ [][part = "sync" => Matter!NeverOlder]_MCvars
  /\ [](part = "controller" => Controller!IdentityKept /\ Controller!InPlaceUnlessOverlapped)

\* Whichever step fails or is killed: the relocation of Matter storage, whose undo
\* is taken not to fail, and the rotation of credentials lose nothing, and are
\* reported complete only when they are; of a rotation, unless one of its tools
\* ran beside a removal, which takes no lock.
NothingIsLost ==
  /\ [](part = "storage" => Storage!NothingLost /\ Storage!FailureRestores)
  /\ [][part = "storage" => Storage!AuthorityKept /\ Storage!CompleteIsBackedUp]_MCvars
  /\ [](part = "rotation" => Rotation!RollbackRetained)
  /\ [][part = "rotation" => Rotation!RolledBackMeansRestored]_MCvars

\* The cleanups remove what was inspected, is retired or is kept elsewhere, and
\* nothing else, and what they call clean is clean; of retired credentials, unless
\* a rotation tool ran beside the removal, which takes no lock.
CleanupsAreSafe ==
  /\ [][part = "rotation" => Rotation!RemovesRetiredOnly]_MCvars
  /\ [](part = "keys" => Keys!CleanedIsVerified)
  /\ [][part = "keys" => Keys!RetainsOnlyWorkingKeys]_MCvars
  /\ [][part = "residue" =>
          /\ Residue!OnlyWithRecovery /\ Residue!OnlyTheInspected
          /\ Residue!ArchiveKept /\ Residue!VerifiedIsClean]_MCvars
==============================================================================
