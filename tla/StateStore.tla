----------------------------- MODULE StateStore ------------------------------
(***************************************************************************)
(* The server registry of KotiBot and its persistence: save_state and      *)
(* load_state of server_core/state.py over the JSON store.  The registry   *)
(* is saved as one snapshot of several files; the store writes the files   *)
(* one at a time, and a restart must read them back together.              *)
(*                                                                         *)
(* Three files stand for the six: one holds the routes, one the subsystem  *)
(* records of devices, one the clients.  A document is the set of devices  *)
(* it mentions.                                                            *)
(***************************************************************************)
EXTENDS JsonStore

CONSTANTS
  Device,         \* the devices that can be registered
  RoutesFile,     \* security_actions.json: one route per device at most
  SubsystemFile,  \* tapo, matter or android device state: one record per device
  ServerFile      \* server_state.json: the clients

ASSUME FilesAssumption ==
  /\ Path = {RoutesFile, SubsystemFile, ServerFile}
  /\ Cardinality(Path) = 3
  /\ SyncPath = {} /\ Caller = {}

VARIABLES
  clients,   \* CLIENTS: the registered devices
  records,   \* those whose subsystem fields are in memory
  routes,    \* ROUTES: the devices that a route references
  serving,   \* loading, loaded (before pruning), up, or refused
  content,   \* the documents handed to the store, by file and version
  rejected,  \* the last save_state raised StateSaveError
  loose,     \* history: devices that a request may have left in a route
             \* without a client, since the server is up
  durable,   \* history: devices whose registration has reached every file
  atStop,    \* history: the registry of the last clean stop without faults
  clean      \* history: the process is running or loading after such a stop

registry  == <<clients, records, routes>>
stateVars == <<registry, serving, content, rejected, loose, durable, atStop, clean>>
allVars   == <<vars, stateVars>>

Registry == [clients : SUBSET Device, records : SUBSET Device, routes : SUBSET Device]
NoRegistry == [clients |-> {}, records |-> {}, routes |-> {}]
Memory == [clients |-> clients, records |-> records, routes |-> routes]

StateTypeOK ==
  /\ TypeOK
  /\ Memory \in Registry
  /\ records \subseteq clients
  /\ serving \in {"loading", "loaded", "up", "refused"}
  /\ content \in [Path -> [1..MaxVersion -> SUBSET Device]]
  /\ rejected \in BOOLEAN
  /\ loose \in SUBSET Device
  /\ durable \in SUBSET Device
  /\ atStop \in Registry
  /\ clean \in BOOLEAN

StateInit ==
  /\ Init
  /\ clients = {} /\ records = {} /\ routes = {}
  /\ serving = "loading"
  /\ content = [p \in Path |-> [v \in 1..MaxVersion |-> {}]]
  /\ rejected = FALSE
  /\ loose = {} /\ durable = {}
  /\ atStop = NoRegistry
  /\ clean = TRUE

-----------------------------------------------------------------------------
(* save_state.                                                             *)

\* Mutant: the subsystem file is left out of the snapshot.
DocumentStale(p, r) ==
  {d \in Device : \/ p = RoutesFile /\ d \in r.routes
                  \/ p = ServerFile /\ d \in r.clients}

\* _state_documents: what each file holds for a registry.
Document(p, r) ==
  {d \in Device : \/ p = RoutesFile /\ d \in r.routes
                  \/ p = SubsystemFile /\ d \in r.records \cap r.clients
                  \/ p = ServerFile /\ d \in r.clients}

\* The documents that outlive a save; a queued one is replaced by it.
Held(p) == {flushing[p], batch[p], primary[p], backup[p],
            IF current = p THEN existing ELSE None}

\* The whole snapshot is queued.
Saved(r) ==
  /\ WriteBatch(Path)
  /\ content' = [p \in Path |-> [v \in 1..MaxVersion |->
                   IF v = latest[p] + 1 THEN Document(p, r)
                   ELSE IF v \in Held(p) THEN content[p][v] ELSE {}]]

\* write_json_batch_atomic raises when a file is blocked or the writer stops.
SaveRaises == Path \cap blocked # {} \/ phase # "up"

SaveState(r) ==
  \/ Saved(r) /\ rejected' = FALSE
  \/ SaveRaises /\ rejected' = TRUE /\ UNCHANGED <<vars, content>>

-----------------------------------------------------------------------------
(* Requests: memory is changed under STATE_LOCK, then saved; a rejected     *)
(* save leaves the change in memory.                                        *)

Become(r) ==
  /\ clients' = r.clients
  /\ records' = r.records
  /\ routes' = r.routes

Request(r) ==
  /\ serving = "up" /\ phase # "stopped"
  /\ Become(r)
  /\ SaveState(r)
  /\ UNCHANGED <<serving, atStop, clean>>

\* A device is paired: its client and its subsystem fields appear together.
AddClient(d) ==
  /\ d \notin clients
  /\ Request([Memory EXCEPT !.clients = @ \cup {d}, !.records = @ \cup {d}])
  /\ loose' = loose \ {d}

\* remove_client prunes the routes of the device, the dashboard's command
\* 'remove' for a Tapo client does not.
Without(d) == [Memory EXCEPT !.clients = @ \ {d}, !.records = @ \ {d}]

RemoveClient(d) ==
  /\ d \in clients
  /\ Request([Without(d) EXCEPT !.routes = @ \ {d}])
  /\ loose' = loose \ {d}

RemoveByCommand(d) ==
  /\ d \in clients
  /\ Request(Without(d))
  /\ loose' = loose \cup {d}

\* A route is saved or deleted; nothing asks for the client it names.
AddRoute(d) ==
  /\ d \notin routes
  /\ Request([Memory EXCEPT !.routes = @ \cup {d}])
  /\ loose' = IF d \in clients THEN loose ELSE loose \cup {d}

DeleteRoute(d) ==
  /\ d \in routes
  /\ Request([Memory EXCEPT !.routes = @ \ {d}])
  /\ UNCHANGED loose

\* The user follows the error text of StateSaveError.
RetryChange == rejected /\ Request(Memory) /\ UNCHANGED loose

-----------------------------------------------------------------------------
(* Startup.                                                                *)

OnDisk(p) == IF primary[p] \in Nat THEN content[p][primary[p]] ELSE {}

\* _read_json_object_file: only a file that never existed counts as empty.
FileRejected(p) == MissingPrimary(p) \/ primary[p] = Corrupt

\* Records without a client, or any file without the server state.
Inconsistent ==
  \/ OnDisk(SubsystemFile) \ OnDisk(ServerFile) # {}
  \/ primary[ServerFile] = Absent /\ OnDisk(RoutesFile) # {}

Loaded == [clients |-> OnDisk(ServerFile), records |-> OnDisk(SubsystemFile),
           routes |-> OnDisk(RoutesFile)]

\* Mutant: the server starts with an empty registry instead.
RefuseStartAsFresh ==
  /\ serving' = "loaded"
  /\ UNCHANGED <<registry, content, rejected, loose, atStop, clean>>

RefuseStart ==
  /\ serving' = "refused"
  /\ UNCHANGED <<registry, content, rejected, loose, atStop, clean>>

LoadState ==
  /\ serving = "loading" /\ phase = "up"
  /\ \/ /\ \E p \in Path : FileRejected(p) /\ blocked' = blocked \cup {p}
        /\ RefuseStart
        /\ UNCHANGED <<pending, flushing, disk, phase, job, caller, bounds, ghost>>
     \/ /\ Fault
        /\ RefuseStart
        /\ UNCHANGED <<memory, disk, phase, job, caller, damage, ghost>>
     \/ /\ ~\E p \in Path : FileRejected(p)
        /\ Inconsistent
        /\ RefuseStart
        /\ UNCHANGED vars
     \/ /\ ~\E p \in Path : FileRejected(p)
        /\ ~Inconsistent
        /\ Become(Loaded)
        /\ Saved(Loaded)
        /\ serving' = "loaded"
        /\ UNCHANGED <<rejected, loose, atStop, clean>>

\* Mutant: the server starts without pruning.
PruneRoutesSkipped ==
  /\ serving = "loaded" /\ phase = "up"
  /\ serving' = "up"
  /\ UNCHANGED <<vars, registry, content, rejected, loose, atStop, clean>>

\* prune_invalid_routes_for_clients, with a save only when a route went away.
PruneRoutes ==
  LET kept == [Memory EXCEPT !.routes = @ \cap clients] IN
  /\ serving = "loaded" /\ phase = "up"
  /\ \/ /\ kept = Memory
        /\ serving' = "up"
        /\ UNCHANGED <<vars, registry, content, rejected>>
     \/ /\ kept # Memory
        /\ Become(kept)
        /\ Saved(kept)
        /\ serving' = "up"
        /\ UNCHANGED rejected
     \/ /\ kept # Memory
        /\ SaveRaises
        /\ Become(kept)
        /\ serving' = "refused" /\ rejected' = TRUE
        /\ UNCHANGED <<vars, content>>
  /\ UNCHANGED <<loose, atStop, clean>>

-----------------------------------------------------------------------------
(* The store and the environment underneath.                               *)

\* The queue is a dict: a flush takes the files in the order of
\* _state_documents until a failed file has been re-queued behind others.
InOrder(p) ==
  \/ faults > 0
  \/ p = RoutesFile
  \/ p = SubsystemFile /\ RoutesFile \notin todo
  \/ p = ServerFile /\ todo = {ServerFile}

StoreStep ==
  /\ \/ BeginFlush \/ BeginFinalFlush \/ EndFlush
     \/ \E p \in Path : InOrder(p) /\ CheckFile(p)
     \/ SaveBackup \/ ReplacePrimary \/ FirstBackup
     \/ BeginShutdown
     \/ \E p \in Path, d \in {Absent, Corrupt} : DamageFile(p, d)
     \/ \E p \in Path : RepairFile(p)
  /\ UNCHANGED <<registry, serving, content, rejected, loose, atStop, clean>>

\* A crash, or the end of an orderly exit, and the start of a new process.
NewProcess ==
  /\ Crash \/ Reboot
  /\ serving' = "loading"
  /\ clients' = {} /\ records' = {} /\ routes' = {}
  /\ rejected' = FALSE /\ loose' = {}
  /\ clean' = (phase = "stopped" /\ serving = "up" /\ ~rejected
               /\ faults = 0 /\ damage = 0)
  /\ atStop' = Memory
  /\ UNCHANGED content

StateStep ==
  \/ \E d \in Device : \/ AddClient(d) \/ RemoveClient(d) \/ RemoveByCommand(d)
                       \/ AddRoute(d) \/ DeleteRoute(d)
  \/ RetryChange
  \/ LoadState \/ PruneRoutes
  \/ StoreStep
  \/ NewProcess

\* A registration is durable once the client and its record are on disk, until
\* the client is removed or the operator restores an older file; damage of a
\* file does not end it.
InEveryFile == OnDisk(SubsystemFile) \cap OnDisk(ServerFile)
Surviving == {d \in Device : \A p \in {SubsystemFile, ServerFile} :
                primary[p] \in Nat => d \in OnDisk(p)}
TrackDurable ==
  durable' = (InEveryFile' \cup (durable \cap Surviving'))
             \cap (IF serving' \in {"loaded", "up"} THEN clients' ELSE durable \cup clients)

StateNext == StateStep /\ TrackDurable

StateSpec == StateInit /\ [][StateNext]_allVars

\* The writer thread runs and the user retries a change that was rejected.
StateFairness ==
  /\ WF_allVars(StoreStep /\ FlushStep /\ TrackDurable)
  /\ WF_allVars(RetryChange /\ TrackDurable)

StateFairSpec == StateSpec /\ StateFairness

-----------------------------------------------------------------------------
(* Properties.                                                             *)

\* Once the server is up, a route without its client is one that a request to
\* this very server has left so (the command 'remove', or saving a route for an
\* unknown device): remove_client leaves none, and a start brings none back,
\* whatever mixture of old and new files it has found.
NoDanglingRoute == serving = "up" => routes \ clients \subseteq loose

\* After an orderly exit without faults the next start is accepted and brings
\* back the registry, record by record and route by route.
CleanRestartRestores ==
  [][(serving = "loading" /\ clean /\ serving' # "loading" /\ phase' = "up"
      /\ faults' = 0 /\ damage = 0)
     => serving' = "loaded" /\ Memory' = atStop]_allVars

\* A start that is accepted after any crash, fault or mixture of files keeps
\* every durable registration with its record: load_state never starts with
\* an emptied registry.
LoadKeepsDurable ==
  [][(serving = "loading" /\ serving' = "loaded")
     => durable \subseteq clients' \cap records']_allVars

\* docs/roadmaps/1_KotiBot_Fixes_Stability_Roadmap.md:254 "Confirm that all
\* durable mutations survive restart": with sound files a restart does not
\* refuse to start while durable registrations exist.
DurableSurvivesRestart ==
  [][(serving = "loading" /\ serving' = "refused" /\ damage = 0 /\ faults' = 0)
     => durable = {}]_allVars

\* server_core/state.py:626 "Server state could not be saved; retry the
\* change": retrying a rejected change eventually saves it.
AtBound == \E p \in Path : latest[p] >= MaxVersion
RetryEventuallySaves ==
  (rejected /\ phase = "up") ~> (~rejected \/ phase # "up" \/ AtBound)
=============================================================================
