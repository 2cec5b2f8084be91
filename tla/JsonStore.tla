------------------------------ MODULE JsonStore ------------------------------
(***************************************************************************)
(* The coalescing JSON store of server_core/io.py: every durable file of   *)
(* KotiBot has a primary and a last-known-good backup on disk, a pending   *)
(* slot that accepts writes at once, and a flushing slot while the writer  *)
(* thread moves it to disk.  A failed read blocks later writes of a file   *)
(* until a read of it succeeds.                                            *)
(*                                                                         *)
(* The content of a file is abstracted to its version: the n-th document   *)
(* handed to the store for that path.                                      *)
(***************************************************************************)
EXTENDS Naturals, FiniteSets

CONSTANTS
  Path,        \* the state files
  SyncPath,    \* those written with write_json_atomic_sync only
  Caller,      \* threads that read, modify and write one file
  None,        \* no document in a slot
  Absent,      \* no such file
  Corrupt,     \* a file that is not a JSON object
  MaxVersion,  \* bound: documents handed to the store per path
  MaxFaults,   \* bound: input/output errors in a behaviour
  MaxDamage    \* bound: files damaged from outside in a behaviour

ASSUME ConstantsAssumption ==
  /\ Path # {} /\ SyncPath \subseteq Path
  /\ None \notin Nat /\ Absent \notin Nat /\ Corrupt \notin Nat
  /\ Absent # Corrupt
  /\ None \notin Path
  /\ MaxVersion \in Nat /\ MaxFaults \in Nat /\ MaxDamage \in Nat

VARIABLES
  pending,   \* _PENDING_WRITES
  flushing,  \* _FLUSHING_WRITES
  blocked,   \* the keys of _FAILED_READS
  primary,   \* the file on disk
  backup,    \* its .lkg sibling
  phase,     \* up, then the two stop_json_writer calls of an exit, then stopped
  holder,    \* who holds _FLUSH_LOCK: none, flush, final (flush) or direct (write)
  batch,     \* the documents the lock holder took
  todo,      \* paths of the batch still to be written
  failed,    \* paths of the batch whose write raised
  current,   \* the path inside _write_json_atomic_now
  step,      \* where it is: idle, backup, primary, lkg or heal
  existing,  \* existing_encoded
  caller,    \* the read-modify-write threads
  faults,    \* input/output errors so far
  damage,    \* files damaged so far
  latest,    \* history: the newest version handed to the store
  gaveUp     \* history: paths whose newest version was refused, lost or rewound

memory == <<pending, flushing, blocked>>
disk   == <<primary, backup>>
job    == <<holder, batch, todo, failed, current, step, existing>>
bounds == <<faults, damage>>
ghost  == <<latest, gaveUp>>
vars   == <<memory, disk, phase, job, caller, bounds, ghost>>

Slot      == Nat \cup {None}
File      == Nat \cup {Absent, Corrupt}
Phases    == {"up", "stopping", "exiting", "stopped"}
Holders   == {"none", "flush", "final", "direct"}
Steps     == {"idle", "backup", "primary", "lkg", "heal"}
CallerRec == [pc : {"idle", "loaded", "checked", "direct"},
              path : Path,
              base : {"data", "fresh", "failed"}]

TypeOK ==
  /\ pending \in [Path -> Slot]
  /\ flushing \in [Path -> Slot]
  /\ blocked \in SUBSET Path
  /\ primary \in [Path -> File]
  /\ backup \in [Path -> File]
  /\ phase \in Phases
  /\ holder \in Holders
  /\ batch \in [Path -> Slot]
  /\ todo \in SUBSET Path
  /\ failed \in SUBSET Path
  /\ current \in Path \cup {None}
  /\ step \in Steps
  /\ existing \in Slot
  /\ caller \in [Caller -> CallerRec]
  /\ faults \in Nat
  /\ damage \in Nat
  /\ latest \in [Path -> Nat]
  /\ gaveUp \in SUBSET Path

Empty == [p \in Path |-> None]
AtRest == [c \in Caller |->
             [pc |-> "idle", path |-> CHOOSE p \in Path : TRUE, base |-> "data"]]

\* A fresh installation: no file, nothing queued.
Init ==
  /\ pending = Empty /\ flushing = Empty /\ blocked = {}
  /\ primary = [p \in Path |-> Absent] /\ backup = [p \in Path |-> Absent]
  /\ phase = "up"
  /\ holder = "none" /\ batch = Empty /\ todo = {} /\ failed = {}
  /\ current = None /\ step = "idle" /\ existing = None
  /\ caller = AtRest
  /\ faults = 0 /\ damage = 0
  /\ latest = [p \in Path |-> 0] /\ gaveUp = {}

-----------------------------------------------------------------------------
(* What a reader sees.                                                     *)

Queued(p)  == pending[p] # None \/ flushing[p] # None
Visible(p) == IF pending[p] # None THEN pending[p]
              ELSE IF flushing[p] # None THEN flushing[p]
              ELSE primary[p]

\* Mutant: a missing primary is taken for a fresh file.
MissingPrimaryIgnored(p) == FALSE

\* The primary is gone although a backup shows that it once existed.
MissingPrimary(p) == primary[p] = Absent /\ backup[p] # Absent

Fault == faults < MaxFaults /\ faults' = faults + 1

-----------------------------------------------------------------------------
(* The callers.                                                            *)

ReadOk(c, p) ==
  /\ Queued(p) \/ primary[p] \in Nat
  /\ blocked' = blocked \ {p}
  /\ caller' = [caller EXCEPT ![c] = [pc |-> "loaded", path |-> p, base |-> "data"]]
  /\ UNCHANGED faults

ReadFresh(c, p) ==
  /\ ~Queued(p) /\ primary[p] = Absent /\ ~MissingPrimary(p)
  /\ caller' = [caller EXCEPT ![c] = [pc |-> "loaded", path |-> p, base |-> "fresh"]]
  /\ UNCHANGED <<blocked, faults>>

\* Missing with a backup, invalid, or (an input/output error) unreadable.
ReadFails(c, p) ==
  /\ ~Queued(p)
  /\ \/ (MissingPrimary(p) \/ primary[p] = Corrupt) /\ UNCHANGED faults
     \/ primary[p] # Absent /\ Fault
  /\ blocked' = blocked \cup {p}
  /\ caller' = [caller EXCEPT ![c] = [pc |-> "loaded", path |-> p, base |-> "failed"]]

ReadJson(c, p) ==
  /\ phase # "stopped"
  /\ caller[c].pc = "idle"
  /\ ReadOk(c, p) \/ ReadFresh(c, p) \/ ReadFails(c, p)
  /\ UNCHANGED <<pending, flushing, disk, phase, job, damage, ghost>>

\* A caller that only wanted to read, or that lets the read error escape.
Abandon(c) ==
  /\ caller[c].pc = "loaded"
  /\ caller' = [caller EXCEPT ![c].pc = "idle"]
  /\ UNCHANGED <<memory, disk, phase, job, bounds, ghost>>

\* _raise_if_write_blocked, before the writer takes any lock.
CheckBlocked(c) ==
  /\ caller[c].pc = "loaded"
  /\ caller' = [caller EXCEPT ![c].pc =
                  IF caller[c].path \in blocked THEN "idle" ELSE "checked"]
  /\ UNCHANGED <<memory, disk, phase, job, bounds, ghost>>

\* Hand one more document of each path in S to the store.
Accept(S) ==
  /\ \A p \in S : latest[p] < MaxVersion
  /\ latest' = [p \in Path |-> IF p \in S THEN latest[p] + 1 ELSE latest[p]]
  /\ gaveUp' = gaveUp \ S

Enqueue(S) ==
  /\ Accept(S)
  /\ pending' = [p \in Path |-> IF p \in S THEN latest[p] + 1 ELSE pending[p]]

\* Mutant: the queue still accepts documents during shutdown.
WriteJsonAlways(c) ==
  /\ caller[c].pc = "checked"
  /\ caller[c].path \notin SyncPath
  /\ phase # "stopped"
  /\ Enqueue({caller[c].path})
  /\ caller' = [caller EXCEPT ![c].pc = "idle"]
  /\ UNCHANGED <<flushing, blocked, disk, phase, job, bounds>>

\* write_json_atomic while the writer runs: the document is queued.
WriteJson(c) ==
  /\ caller[c].pc = "checked"
  /\ caller[c].path \notin SyncPath
  /\ phase = "up"
  /\ Enqueue({caller[c].path})
  /\ caller' = [caller EXCEPT ![c].pc = "idle"]
  /\ UNCHANGED <<flushing, blocked, disk, phase, job, bounds>>

\* write_json_batch_atomic: all documents are queued, or none.
WriteBatch(S) ==
  /\ S # {} /\ S \cap SyncPath = {}
  /\ phase = "up"
  /\ S \cap blocked = {}
  /\ Enqueue(S)
  /\ UNCHANGED <<flushing, blocked, disk, phase, job, caller, bounds>>

\* Mutant: a direct write leaves the older queued document in the queue.
BeginDirectKeepsQueue(c) ==
  LET p == caller[c].path IN
  /\ phase # "stopped"
  /\ caller[c].pc = "checked"
  /\ p \in SyncPath \/ phase # "up"
  /\ holder = "none"
  /\ Accept({p})
  /\ holder' = "direct"
  /\ batch' = [Empty EXCEPT ![p] = latest[p] + 1]
  /\ todo' = {p}
  /\ failed' = {}
  /\ caller' = [caller EXCEPT ![c].pc = "direct"]
  /\ UNCHANGED <<memory, disk, phase, current, step, existing, bounds>>

\* write_json_atomic_sync, and write_json_atomic once shutdown has begun.
BeginDirect(c) ==
  LET p == caller[c].path IN
  /\ phase # "stopped"
  /\ caller[c].pc = "checked"
  /\ p \in SyncPath \/ phase # "up"
  /\ holder = "none"
  /\ Accept({p})
  /\ pending' = [pending EXCEPT ![p] = None]
  /\ flushing' = [flushing EXCEPT ![p] = None]
  /\ holder' = "direct"
  /\ batch' = [Empty EXCEPT ![p] = latest[p] + 1]
  /\ todo' = {p}
  /\ failed' = {}
  /\ caller' = [caller EXCEPT ![c].pc = "direct"]
  /\ UNCHANGED <<blocked, disk, phase, current, step, existing, bounds>>

EndDirect(c) ==
  /\ holder = "direct" /\ todo = {}
  /\ caller[c].pc = "direct"
  /\ holder' = "none"
  /\ batch' = Empty
  /\ failed' = {}
  /\ gaveUp' = gaveUp \cup failed
  /\ caller' = [caller EXCEPT ![c].pc = "idle"]
  /\ UNCHANGED <<memory, disk, phase, todo, current, step, existing, bounds, latest>>

-----------------------------------------------------------------------------
(* flush_json_writes.                                                      *)

\* Mutant: the documents being flushed are invisible to readers.
TakePendingUnseen(kind) ==
  /\ holder = "none"
  /\ holder' = kind
  /\ batch' = pending
  /\ todo' = {p \in Path : pending[p] # None}
  /\ failed' = {}
  /\ pending' = Empty
  /\ UNCHANGED <<flushing, blocked, disk, phase, current, step, existing,
                 caller, bounds, ghost>>

TakePending(kind) ==
  /\ holder = "none"
  /\ holder' = kind
  /\ batch' = pending
  /\ todo' = {p \in Path : pending[p] # None}
  /\ failed' = {}
  /\ flushing' = [p \in Path |-> IF pending[p] # None THEN pending[p] ELSE flushing[p]]
  /\ pending' = Empty
  /\ UNCHANGED <<blocked, disk, phase, current, step, existing, caller, bounds, ghost>>

\* The writer loop, or a route that flushes before a restart.
BeginFlush == phase # "stopped" /\ pending # Empty /\ TakePending("flush")

\* The flush at the end of stop_json_writer, which runs twice: from the signal
\* handler and again from atexit.
BeginFinalFlush == phase \in {"stopping", "exiting"} /\ TakePending("final")

\* Mutants: a failed document is re-queued over a newer one, or is dropped.
RequeuedOver == [p \in Path |-> IF p \in failed THEN batch[p] ELSE pending[p]]
RequeuedNever == pending

\* A failed document returns to the queue unless a newer one is there.
Requeued == [p \in Path |-> IF p \in failed /\ pending[p] = None
                            THEN batch[p] ELSE pending[p]]

EndFlush ==
  /\ holder \in {"flush", "final"} /\ todo = {}
  /\ pending' = Requeued
  /\ holder' = "none"
  /\ batch' = Empty
  /\ failed' = {}
  /\ phase' = IF holder = "flush" THEN phase
              ELSE IF phase = "stopping" THEN "exiting" ELSE "stopped"
  /\ UNCHANGED <<flushing, blocked, disk, todo, current, step, existing,
                 caller, bounds, ghost>>

BeginShutdown ==
  /\ phase = "up"
  /\ phase' = "stopping"
  /\ UNCHANGED <<memory, disk, job, caller, bounds, ghost>>

-----------------------------------------------------------------------------
(* _write_json_atomic_now, one file operation per step.                    *)

\* The path leaves the batch and its flushing slot is popped.
Leave(p) ==
  /\ todo' = todo \ {p}
  /\ flushing' = [flushing EXCEPT ![p] = None]
  /\ current' = None
  /\ step' = "idle"
  /\ existing' = None

\* JsonStateWriteBlockedError: the document is dropped.
Refuse(p) ==
  /\ blocked' = blocked \cup {p}
  /\ gaveUp' = IF batch[p] = latest[p] THEN gaveUp \cup {p} ELSE gaveUp
  /\ Leave(p)
  /\ UNCHANGED failed

\* Any other exception: the document is kept for a retry.
Raise(p) ==
  /\ Fault
  /\ failed' = failed \cup {p}
  /\ Leave(p)
  /\ UNCHANGED <<blocked, gaveUp>>

Goto(p, s, e) ==
  /\ current' = p /\ step' = s /\ existing' = e
  /\ UNCHANGED <<flushing, blocked, todo, failed, gaveUp, faults>>

\* Mutant: a corrupt primary is copied to the backup without validation.
CheckFileUnvalidated(p) ==
  /\ holder # "none" /\ current = None /\ p \in todo
  /\ \/ (p \in blocked \/ MissingPrimary(p)) /\ Refuse(p) /\ UNCHANGED faults
     \/ p \notin blocked /\ Raise(p)
     \/ /\ p \notin blocked /\ primary[p] \notin {Absent, batch[p]}
        /\ Goto(p, "backup", primary[p])
     \/ /\ p \notin blocked /\ primary[p] = Absent /\ backup[p] = Absent
        /\ Goto(p, "primary", None)
  /\ UNCHANGED <<pending, disk, phase, holder, batch, caller, damage, latest>>

\* The guards, _existing_json_for_backup and the comparison with the file.
CheckFile(p) ==
  /\ holder # "none" /\ current = None /\ p \in todo
  /\ \/ /\ p \in blocked \/ MissingPrimary(p) \/ primary[p] = Corrupt
        /\ Refuse(p)
        /\ UNCHANGED faults
     \/ p \notin blocked /\ primary[p] # Absent /\ Fault /\ Refuse(p)
     \/ p \notin blocked /\ Raise(p)
     \/ /\ p \notin blocked /\ primary[p] = batch[p]
        /\ IF backup[p] \in Nat
           THEN Leave(p) /\ UNCHANGED <<blocked, failed, gaveUp, faults>>
           ELSE Goto(p, "heal", batch[p])
     \/ /\ p \notin blocked /\ primary[p] \in Nat /\ primary[p] # batch[p]
        /\ Goto(p, "backup", primary[p])
     \/ /\ p \notin blocked /\ primary[p] = Absent /\ ~MissingPrimary(p)
        /\ Goto(p, "primary", None)
  /\ UNCHANGED <<pending, disk, phase, holder, batch, caller, damage, latest>>

\* The replaced content becomes the backup.
SaveBackup ==
  /\ step = "backup"
  /\ \/ backup' = [backup EXCEPT ![current] = existing] /\ Goto(current, "primary", existing)
     \/ backup' \in {backup, [backup EXCEPT ![current] = existing]} /\ Raise(current)
  /\ UNCHANGED <<pending, primary, phase, holder, batch, caller, damage, latest>>

\* The end of a write that changed the primary: _forget_failed_read.
Written(p) == Leave(p) /\ blocked' = blocked \ {p} /\ UNCHANGED <<failed, gaveUp, faults>>

ReplacePrimary ==
  LET replaced == [primary EXCEPT ![current] = batch[current]] IN
  /\ step = "primary"
  /\ \/ /\ primary' = replaced
        /\ IF existing = None THEN Goto(current, "lkg", None) ELSE Written(current)
     \/ primary' \in {primary, replaced} /\ Raise(current)
  /\ UNCHANGED <<pending, backup, phase, holder, batch, caller, damage, latest>>

\* The first backup of a new file, and the repair of a damaged backup.
FirstBackup ==
  LET copied == [backup EXCEPT ![current] = batch[current]] IN
  /\ step \in {"lkg", "heal"}
  /\ \/ /\ backup' = copied
        /\ IF step = "lkg" THEN Written(current)
           ELSE Leave(current) /\ UNCHANGED <<blocked, failed, gaveUp, faults>>
     \/ backup' \in {backup, copied} /\ Raise(current)
  /\ UNCHANGED <<pending, primary, phase, holder, batch, caller, damage, latest>>

-----------------------------------------------------------------------------
(* The environment.                                                        *)

\* Everything but the disk is lost; the process starts again.
LoseMemory ==
  /\ pending' = Empty /\ flushing' = Empty /\ blocked' = {}
  /\ phase' = "up"
  /\ holder' = "none" /\ batch' = Empty /\ todo' = {} /\ failed' = {}
  /\ current' = None /\ step' = "idle" /\ existing' = None
  /\ caller' = AtRest
  /\ gaveUp' = {p \in Path : primary[p] # latest[p]}
  /\ UNCHANGED <<disk, bounds, latest>>

Crash  == phase # "stopped" /\ LoseMemory
Reboot == phase = "stopped" /\ LoseMemory

\* Damage from outside never takes the last good copy of a file.
DamageFile(p, d) ==
  /\ damage < MaxDamage /\ damage' = damage + 1
  /\ primary[p] \in Nat /\ backup[p] \in Nat
  /\ \/ primary' = [primary EXCEPT ![p] = d] /\ UNCHANGED backup
     \/ backup' = [backup EXCEPT ![p] = d] /\ UNCHANGED primary
  /\ UNCHANGED <<memory, phase, job, caller, faults, ghost>>

\* The operator copies the backup over a damaged primary, though not in the
\* middle of the store's own write of that file.
RepairFile(p) ==
  /\ p # current
  /\ primary[p] \notin Nat /\ backup[p] \in Nat
  /\ primary' = [primary EXCEPT ![p] = backup[p]]
  /\ gaveUp' = IF Queued(p) \/ p \in todo \cup failed THEN gaveUp
               ELSE gaveUp \cup {p}
  /\ UNCHANGED <<memory, backup, phase, job, caller, bounds, latest>>

-----------------------------------------------------------------------------
CallerStep(c) ==
  \/ \E p \in Path : ReadJson(c, p)
  \/ Abandon(c) \/ CheckBlocked(c) \/ WriteJson(c) \/ BeginDirect(c) \/ EndDirect(c)

FlushStep ==
  \/ BeginFlush \/ BeginFinalFlush \/ EndFlush
  \/ \E p \in Path : CheckFile(p)
  \/ SaveBackup \/ ReplacePrimary \/ FirstBackup

Environment ==
  \/ Crash \/ Reboot
  \/ \E p \in Path, d \in {Absent, Corrupt} : DamageFile(p, d)
  \/ \E p \in Path : RepairFile(p)

Next ==
  \/ \E c \in Caller : CallerStep(c)
  \/ \E S \in SUBSET Path : WriteBatch(S)
  \/ BeginShutdown
  \/ FlushStep
  \/ Environment

Spec == Init /\ [][Next]_vars

\* The writer thread wakes up again and again, a thread inside the store is
\* scheduled, and a stopped process ends.
Fairness ==
  /\ WF_vars(FlushStep)
  /\ WF_vars(Reboot)
  /\ \A c \in Caller : WF_vars(EndDirect(c))

FairSpec == Spec /\ Fairness

-----------------------------------------------------------------------------
(* Properties.                                                             *)

\* The document being moved to disk is not in a slot: its write raised and it
\* waits for the end of the flush, or it is written without queueing.
InTransit(p) == p \in failed \/ (holder = "direct" /\ p \in todo)

\* The queue holds the newest document or nothing: neither a retried document
\* nor the flush ever puts an older one in front of a newer one
\* (flush_json_writes re-queues with setdefault).
QueueHoldsNewest ==
  \A p \in Path : pending[p] # None => pending[p] = latest[p]

\* read_json answers with the newest document accepted, on every interleaving
\* of readers, writers and the flush; the exceptions are a document in transit
\* after an input/output error and one that the store refused.
ReadsNewest ==
  \A p \in Path :
    \/ InTransit(p) \/ p \in gaveUp
    \/ Visible(p) \in Nat => Visible(p) = latest[p]

\* Once a file and its backup existed, a crash between any two file operations
\* and the damage of one copy leave a good copy on disk.
Recoverable ==
  \A p \in Path :
    backup[p] # Absent => primary[p] \in Nat \/ backup[p] \in Nat

\* A clean exit loses nothing that was accepted: when the second
\* stop_json_writer has ended, the newest document of each file is on disk,
\* unless it was refused, the file was damaged, or its write failed in both of
\* the final flushes.
CleanStopIsDurable ==
  phase = "stopped" =>
    \A p \in Path :
      \/ primary[p] = latest[p] \/ latest[p] = 0
      \/ primary[p] \notin Nat \/ p \in gaveUp
      \/ pending[p] # None /\ faults >= 2

(* The inductive invariant behind QueueHoldsNewest, ReadsNewest,           *)
(* Recoverable and the refinement.                                         *)

\* The lock holder's bookkeeping fits together.
JobInv ==
  /\ holder = "none" => todo = {} /\ failed = {}
  /\ todo \cap failed = {}
  /\ current = None => step = "idle" /\ existing = None
  /\ current # None => current \in todo /\ step # "idle"
  /\ \A p \in Path :
       flushing[p] = IF p \in todo /\ holder \in {"flush", "final"}
                     THEN batch[p] ELSE None

\* What the queue and the batch hold is accepted, and newest unless a newer
\* document is queued behind it.
OrderInv ==
  \A p \in Path :
    /\ pending[p] # None => pending[p] = latest[p] /\ latest[p] > 0
    /\ p \in todo \cup failed =>
         /\ batch[p] \in 1..latest[p]
         /\ pending[p] = None => batch[p] = latest[p]
         /\ pending[p] # None => batch[p] < latest[p]
         /\ IF holder = "direct" THEN pending[p] = None /\ (p \in SyncPath \/ phase # "up")
            ELSE p \notin SyncPath
    /\ p \in SyncPath => pending[p] = None

\* The disk is never ahead of what is still to be written, nor the backup
\* ahead of the primary.
DiskInv ==
  \A p \in Path :
    /\ primary[p] \in Nat =>
         /\ primary[p] \in 1..latest[p]
         /\ p \in todo \cup failed => primary[p] <= batch[p]
    /\ backup[p] \in Nat =>
         /\ backup[p] \in 1..latest[p]
         /\ p \in todo \cup failed => backup[p] <= batch[p]
         /\ primary[p] \in Nat => backup[p] <= primary[p]

\* What the steps of a write know about the file.
StepInv ==
  /\ step = "backup" =>
       /\ existing \in Nat /\ existing > 0 /\ existing < batch[current]
       /\ primary[current] \in Nat => primary[current] = existing
       /\ backup[current] \in Nat => backup[current] <= existing
  /\ step = "primary" =>
       IF existing = None THEN primary[current] = Absent /\ backup[current] = Absent
       ELSE /\ existing > 0 /\ existing < batch[current]
            /\ primary[current] \in Nat => primary[current] = existing
            /\ backup[current] \in Nat => backup[current] = existing
  /\ step = "lkg" => primary[current] = batch[current] /\ backup[current] = Absent
  /\ step = "heal" => primary[current] = batch[current] /\ backup[current] \notin Nat

\* The newest document is queued, in the batch, on disk, or accounted for.
NewestInv ==
  \A p \in Path :
    \/ pending[p] # None \/ p \in todo \cup failed
    \/ primary[p] \in Nat => primary[p] = latest[p] \/ p \in gaveUp

StoreInv ==
  TypeOK /\ JobInv /\ OrderInv /\ DiskInv /\ StepInv /\ NewestInv /\ Recoverable

\* Behind CleanStopIsDurable: during the exit a document is left over only by
\* an error in the first final flush, and again in the second.
StopInv ==
  /\ holder = "final" => phase \in {"stopping", "exiting"} /\ pending = Empty
  /\ holder = "final" /\ failed # {} => faults >= 1
  /\ phase = "exiting" =>
       /\ pending # Empty => faults >= 1
       /\ holder \in {"flush", "final"} /\ todo \cup failed # {} => faults >= 1
       /\ holder \in {"flush", "final"} /\ failed # {} => faults >= 2
  /\ phase = "stopped" => holder = "none" /\ (pending # Empty => faults >= 2)

\* A newer document replaces the primary only when the backup already holds
\* what is being replaced (or something newer), so the previous version
\* survives the replacement.
ReplaceKeepsPrevious ==
  [][\A p \in Path :
       (/\ primary[p] \in Nat /\ backup[p] \in Nat
        /\ primary'[p] \in Nat /\ primary'[p] > primary[p])
       => backup[p] >= primary[p]]_vars

\* The store itself never writes over a damaged or missing primary that has a
\* good backup: the only writes there are the operator's repair and a
\* replacement whose check had found a good file before the damage.
DamageIsPreserved ==
  [][\A p \in Path :
       (primary[p] \notin Nat /\ backup[p] \in Nat /\ primary'[p] # primary[p])
       => primary'[p] = backup[p] \/ (p = current /\ existing # None)]_vars

\* Every queued document reaches the disk, or a newer one replaces it, or the
\* store gives it up.
EventuallyDurable ==
  \A p \in Path : pending[p] # None ~> (primary[p] = latest[p] \/ p \in gaveUp)

\* Seen file by file, the store is the abstract DurableFile: the queue, the
\* retries, the backups and the direct writes only ever move a file forward to
\* a document that was accepted.
DurableFiles == INSTANCE DurableFile WITH disk <- primary
ImplementsDurableFile == DurableFiles!Spec

\* docs/roadmaps/1_KotiBot_Fixes_Stability_Roadmap.md:244 "Never overwrite a
\* recoverable state file with an empty default following a read failure": a
\* document built from the default that replaced a failed read is not accepted
\* while the file is readable again or has a good backup.
NoDefaultAfterFailedRead ==
  [][\A c \in Caller :
       LET p == caller[c].path IN
       (/\ caller[c].pc = "checked" /\ caller'[c].pc # "checked"
        /\ latest'[p] > latest[p]
        /\ caller[c].base = "failed")
       => primary[p] \notin Nat /\ backup[p] \notin Nat]_vars
=============================================================================
