-------------------------- MODULE StateStoreProofs ---------------------------
(***************************************************************************)
(* Proofs about the JSON store and the state runtime on top of it, for     *)
(* every set of files, threads and devices and any number of documents,    *)
(* errors, damages, crashes and restarts: the inductive invariant of the   *)
(* store, what it implies, the implementation of DurableFile, and what a   *)
(* start reads back from the files the store has left.                     *)
(***************************************************************************)
EXTENDS StateStore, FiniteSetTheorems, TLAPS

USE ConstantsAssumption

-----------------------------------------------------------------------------
(* The store: its initial state.                                           *)

\* A fresh installation satisfies the invariant.
LEMMA InitInv == Init => StoreInv
<1> SUFFICES ASSUME Init PROVE StoreInv
  OBVIOUS
<1> USE DEF Init, Empty
<1>1. TypeOK
  BY DEF TypeOK, Slot, File, Phases, Holders, Steps, AtRest, CallerRec
<1>2. JobInv /\ OrderInv /\ DiskInv /\ StepInv /\ NewestInv /\ Recoverable
  BY DEF JobInv, OrderInv, DiskInv, StepInv, NewestInv, Recoverable
<1> QED
  BY <1>1, <1>2 DEF StoreInv

-----------------------------------------------------------------------------
(* Steps that touch neither slots nor disk.                                *)

\* Reading, abandoning and checking leave everything the invariant relates.
LEMMA QuietSteps ==
  ASSUME StoreInv, NEW c \in Caller,
         (\E p \in Path : ReadJson(c, p)) \/ Abandon(c) \/ CheckBlocked(c)
  PROVE  StoreInv'
<1> USE DEF StoreInv
<1>1. UNCHANGED <<pending, flushing, primary, backup, phase, holder, batch, todo,
                  failed, current, step, existing, latest, gaveUp, damage>>
  BY DEF ReadJson, Abandon, CheckBlocked, memory, disk, job, bounds, ghost
<1>2. blocked' \in SUBSET Path /\ faults' \in Nat
  BY DEF ReadJson, ReadOk, ReadFresh, ReadFails, Abandon, CheckBlocked, Fault,
         TypeOK, memory, bounds
<1>3. caller' \in [Caller -> CallerRec]
  BY DEF ReadJson, ReadOk, ReadFresh, ReadFails, Abandon, CheckBlocked,
         TypeOK, CallerRec
<1>4. TypeOK'
  BY <1>1, <1>2, <1>3 DEF TypeOK
<1>5. (JobInv /\ OrderInv /\ DiskInv /\ StepInv /\ NewestInv /\ Recoverable)'
  BY <1>1 DEF JobInv, OrderInv, DiskInv, StepInv, NewestInv, Recoverable
<1> QED
  BY <1>4, <1>5

-----------------------------------------------------------------------------
(* The queue.                                                              *)

\* Documents enter the queue as the newest of their files.
LEMMA EnqueueInv ==
  ASSUME StoreInv, NEW S \in SUBSET Path, Enqueue(S),
         phase = "up", S \cap SyncPath = {},
         caller' \in [Caller -> CallerRec],
         UNCHANGED <<flushing, blocked, disk, phase, job, bounds>>
  PROVE  StoreInv'
<1> USE DEF StoreInv, Enqueue, Accept, disk, job, bounds
<1>1. /\ \A p \in S : latest'[p] = latest[p] + 1 /\ pending'[p] = latest[p] + 1
      /\ \A p \in Path \ S : latest'[p] = latest[p] /\ pending'[p] = pending[p]
      /\ gaveUp' = gaveUp \ S
  BY DEF TypeOK
<1>2. TypeOK'
  BY DEF TypeOK, Slot
<1>3. JobInv'
  BY DEF JobInv
<1>4. OrderInv'
  BY <1>1 DEF OrderInv, TypeOK, Slot
<1>5. DiskInv'
  BY <1>1 DEF DiskInv, TypeOK
<1>6. StepInv'
  BY DEF StepInv
<1>7. NewestInv'
  BY <1>1 DEF NewestInv, TypeOK
<1>8. Recoverable'
  BY DEF Recoverable
<1> QED
  BY <1>2, <1>3, <1>4, <1>5, <1>6, <1>7, <1>8

\* write_json_atomic queues one document.
LEMMA WriteJsonInv ==
  ASSUME StoreInv, NEW c \in Caller, WriteJson(c)
  PROVE  StoreInv'
<1>1. caller[c].path \in Path /\ caller' \in [Caller -> CallerRec]
  BY DEF StoreInv, TypeOK, CallerRec, WriteJson
<1> DEFINE S == {caller[c].path}
<1>2. S \in SUBSET Path /\ S \cap SyncPath = {} /\ Enqueue(S) /\ phase = "up"
  BY <1>1 DEF WriteJson
<1>3. UNCHANGED <<flushing, blocked, disk, phase, job, bounds>>
  BY DEF WriteJson
<1> HIDE DEF S
<1> QED
  BY <1>1, <1>2, <1>3, EnqueueInv

\* write_json_batch_atomic queues a snapshot of several files.
LEMMA WriteBatchInv ==
  ASSUME StoreInv, NEW S \in SUBSET Path, WriteBatch(S)
  PROVE  StoreInv'
<1>1. caller' \in [Caller -> CallerRec]
  BY DEF StoreInv, TypeOK, WriteBatch
<1>2. S \cap SyncPath = {} /\ Enqueue(S) /\ phase = "up"
  BY DEF WriteBatch
<1>3. UNCHANGED <<flushing, blocked, disk, phase, job, bounds>>
  BY DEF WriteBatch
<1> QED
  BY <1>1, <1>2, <1>3, EnqueueInv

\* A direct write takes the lock and empties the file's slots.
LEMMA BeginDirectInv ==
  ASSUME StoreInv, NEW c \in Caller, BeginDirect(c)
  PROVE  StoreInv'
<1> DEFINE p == caller[c].path
<1> USE DEF StoreInv, disk, job, bounds
<1>0. p \in Path
  BY DEF TypeOK, CallerRec
<1>1. /\ latest[p] \in Nat
      /\ latest' = [latest EXCEPT ![p] = latest[p] + 1]
      /\ gaveUp' = gaveUp \ {p}
      /\ pending' = [pending EXCEPT ![p] = None]
      /\ flushing' = [flushing EXCEPT ![p] = None]
      /\ batch' = [q \in Path |-> IF q = p THEN latest[p] + 1 ELSE None]
      /\ holder = "none" /\ holder' = "direct" /\ todo' = {p} /\ failed' = {}
      /\ p \in SyncPath \/ phase # "up"
      /\ UNCHANGED <<blocked, primary, backup, phase, current, step, existing,
                     faults, damage>>
  BY <1>0 DEF BeginDirect, Accept, TypeOK, Empty
<1>2. caller' \in [Caller -> CallerRec]
  BY DEF BeginDirect, TypeOK, CallerRec
<1> HIDE DEF p
<1>3. TypeOK'
  BY <1>0, <1>1, <1>2 DEF TypeOK, Slot, Holders
<1>4. todo = {} /\ failed = {} /\ current = None /\ flushing = Empty
  BY <1>1 DEF JobInv, Empty, TypeOK
<1>5. JobInv'
  BY <1>0, <1>1, <1>4 DEF JobInv, Empty, TypeOK
<1>6. OrderInv'
  BY <1>0, <1>1, <1>4 DEF OrderInv, TypeOK, Slot
<1>7. DiskInv'
  BY <1>0, <1>1, <1>4 DEF DiskInv, TypeOK
<1>8. StepInv'
  BY <1>1, <1>4 DEF StepInv, JobInv
<1>9. NewestInv'
  BY <1>0, <1>1, <1>4 DEF NewestInv, TypeOK
<1>10. Recoverable'
  BY <1>1 DEF Recoverable
<1> QED
  BY <1>3, <1>5, <1>6, <1>7, <1>8, <1>9, <1>10

\* A failed direct write is reported to its caller.
LEMMA EndDirectInv ==
  ASSUME StoreInv, NEW c \in Caller, EndDirect(c)
  PROVE  StoreInv'
<1> USE DEF StoreInv, EndDirect, memory, disk, bounds
<1>1. caller' \in [Caller -> CallerRec]
  BY DEF TypeOK, CallerRec
<1>2. TypeOK'
  BY <1>1 DEF TypeOK, Slot, Holders, Empty
<1>3. JobInv'
  BY DEF JobInv
<1>4. OrderInv' /\ DiskInv'
  BY DEF OrderInv, DiskInv
<1>5. StepInv'
  BY DEF StepInv, JobInv
<1>6. NewestInv'
  BY DEF NewestInv
<1>7. Recoverable'
  BY DEF Recoverable
<1> QED
  BY <1>2, <1>3, <1>4, <1>5, <1>6, <1>7

-----------------------------------------------------------------------------
(* The flush.                                                              *)

\* The whole queue becomes the batch of the lock holder.
LEMMA TakePendingInv ==
  ASSUME StoreInv, NEW kind \in {"flush", "final"}, TakePending(kind)
  PROVE  StoreInv'
<1> USE DEF StoreInv, TakePending, disk, bounds, ghost
<1>1. todo = {} /\ failed = {} /\ current = None /\ flushing = Empty
  BY DEF JobInv, Empty, TypeOK
<1>2. TypeOK'
  BY DEF TypeOK, Slot, Holders, Empty
<1>3. JobInv'
  BY <1>1 DEF JobInv, Empty, TypeOK
<1>4. OrderInv'
  BY <1>1 DEF OrderInv, Empty, TypeOK, Slot
<1>5. DiskInv'
  BY <1>1 DEF DiskInv, OrderInv, TypeOK, Slot
<1>6. StepInv'
  BY <1>1 DEF StepInv, JobInv
<1>7. NewestInv'
  BY <1>1 DEF NewestInv, TypeOK
<1>8. Recoverable'
  BY DEF Recoverable
<1> QED
  BY <1>2, <1>3, <1>4, <1>5, <1>6, <1>7, <1>8

\* Failed documents return to the queue behind nothing newer.
LEMMA EndFlushInv ==
  ASSUME StoreInv, EndFlush
  PROVE  StoreInv'
<1> USE DEF StoreInv, EndFlush, disk, bounds, ghost
<1>1. todo = {} /\ current = None /\ holder # "direct" /\ phase' \in Phases
  BY DEF JobInv, TypeOK, Phases
<1>2. \A p \in Path : pending'[p] = IF p \in failed /\ pending[p] = None
                                     THEN batch[p] ELSE pending[p]
  BY DEF Requeued
<1>3. TypeOK'
  BY <1>1 DEF TypeOK, Slot, Holders, Empty, Requeued
<1>4. JobInv'
  BY <1>1 DEF JobInv
<1>5. OrderInv'
  BY <1>1, <1>2 DEF OrderInv, TypeOK, Slot
<1>6. DiskInv'
  BY <1>1 DEF DiskInv
<1>7. StepInv'
  BY <1>1 DEF StepInv, JobInv
<1>8. NewestInv'
  BY <1>1, <1>2 DEF NewestInv, OrderInv, TypeOK
<1>9. Recoverable'
  BY DEF Recoverable
<1> QED
  BY <1>3, <1>4, <1>5, <1>6, <1>7, <1>8, <1>9

\* The exit begins; the documents of a direct write stay where they are.
LEMMA BeginShutdownInv ==
  ASSUME StoreInv, BeginShutdown
  PROVE  StoreInv'
<1> USE DEF StoreInv, BeginShutdown, memory, disk, job, bounds, ghost
<1>1. TypeOK'
  BY DEF TypeOK, Phases
<1>2. JobInv' /\ OrderInv' /\ DiskInv'
  BY DEF JobInv, OrderInv, DiskInv
<1>3. StepInv' /\ NewestInv' /\ Recoverable'
  BY DEF StepInv, NewestInv, Recoverable
<1> QED
  BY <1>1, <1>2, <1>3

-----------------------------------------------------------------------------
(* The steps of a write.                                                   *)

\* The bookkeeping of a document that leaves the batch, whatever the disk does.
LEMMA LeaveBookkeeping ==
  ASSUME StoreInv, NEW p \in todo, Leave(p), current \in {p, None},
         holder # "none",
         blocked' \in SUBSET Path, faults' \in Nat, gaveUp' \in SUBSET Path,
         failed' \in {failed, failed \cup {p}},
         primary' \in [Path -> File], backup' \in [Path -> File],
         UNCHANGED <<pending, phase, holder, batch, caller, damage, latest>>
  PROVE  TypeOK' /\ JobInv' /\ OrderInv' /\ StepInv'
<1> USE DEF StoreInv, Leave
<1>1. TypeOK'
  BY DEF TypeOK, Slot, Steps
<1>2. JobInv'
  BY DEF JobInv, TypeOK
<1>3. OrderInv'
  BY DEF OrderInv, TypeOK
<1>4. StepInv'
  BY DEF StepInv
<1> QED
  BY <1>1, <1>2, <1>3, <1>4

\* The bookkeeping of a write that goes on to its next file operation.
LEMMA GotoBookkeeping ==
  ASSUME StoreInv, NEW p \in todo, NEW s \in Steps \ {"idle"}, NEW e \in Slot,
         Goto(p, s, e), current \in {p, None}, holder # "none",
         primary' \in [Path -> File], backup' \in [Path -> File],
         UNCHANGED <<pending, phase, holder, batch, caller, damage, latest>>
  PROVE  TypeOK' /\ JobInv' /\ OrderInv'
<1> USE DEF StoreInv, Goto
<1>1. TypeOK'
  BY DEF TypeOK, Steps
<1>2. JobInv'
  BY DEF JobInv, TypeOK
<1>3. OrderInv'
  BY DEF OrderInv, TypeOK
<1> QED
  BY <1>1, <1>2, <1>3

\* A document dropped or put aside without touching the disk.
LEMMA LeaveKeepsDisk ==
  ASSUME StoreInv, NEW p \in todo, current \in {p, None}, holder # "none",
         UNCHANGED <<pending, disk, phase, holder, batch, caller, damage, latest>>,
         \/ Refuse(p) /\ faults' \in Nat
         \/ Raise(p)
         \/ /\ Leave(p) /\ primary[p] = batch[p]
            /\ UNCHANGED <<blocked, failed, gaveUp, faults>>
  PROVE  StoreInv'
<1> USE DEF disk
<1>1. /\ Leave(p)
      /\ blocked' \in SUBSET Path /\ faults' \in Nat /\ gaveUp' \in SUBSET Path
      /\ failed' \in {failed, failed \cup {p}}
      /\ primary' \in [Path -> File] /\ backup' \in [Path -> File]
  BY DEF StoreInv, TypeOK, Refuse, Raise, Fault
<1>2. TypeOK' /\ JobInv' /\ OrderInv' /\ StepInv'
  BY <1>1, LeaveBookkeeping
<1>3. DiskInv' /\ Recoverable'
  BY <1>1 DEF StoreInv, Leave, DiskInv, Recoverable
<1>4. NewestInv'
  <2>1. ASSUME NEW q \in Path, q # p
        PROVE  NewestInv!(q)'
    BY <1>1, <2>1 DEF StoreInv, NewestInv, Leave, Refuse, Raise
  <2>2. NewestInv!(p)'
    BY <1>1 DEF StoreInv, NewestInv, OrderInv, TypeOK, Leave, Refuse, Raise
  <2> QED
    BY <2>1, <2>2 DEF NewestInv
<1> QED
  BY <1>2, <1>3, <1>4 DEF StoreInv

\* The checks of a write leave the disk alone and choose its next operation.
LEMMA CheckFileInv ==
  ASSUME StoreInv, NEW p \in Path, CheckFile(p)
  PROVE  StoreInv'
<1>1. /\ p \in todo /\ current = None /\ holder # "none"
      /\ UNCHANGED <<pending, disk, phase, holder, batch, caller, damage, latest>>
  BY DEF CheckFile
<1>2. CASE \/ Refuse(p) /\ faults' \in Nat
           \/ Raise(p)
           \/ /\ Leave(p) /\ primary[p] = batch[p]
              /\ UNCHANGED <<blocked, failed, gaveUp, faults>>
  BY <1>1, <1>2, LeaveKeepsDisk
<1>3. CASE \/ /\ primary[p] = batch[p] /\ backup[p] \notin Nat /\ Goto(p, "heal", batch[p])
           \/ /\ primary[p] \in Nat /\ primary[p] # batch[p]
              /\ Goto(p, "backup", primary[p])
           \/ /\ primary[p] = Absent /\ backup[p] = Absent
              /\ Goto(p, "primary", None)
  <2>1. PICK s \in Steps \ {"idle"}, e \in Slot : Goto(p, s, e)
    BY <1>3 DEF StoreInv, TypeOK, Steps, Slot
  <2>2. primary' \in [Path -> File] /\ backup' \in [Path -> File]
    BY <1>1 DEF StoreInv, TypeOK, disk
  <2>3. TypeOK' /\ JobInv' /\ OrderInv'
    BY <1>1, <2>1, <2>2, GotoBookkeeping
  <2>4. DiskInv' /\ NewestInv' /\ Recoverable'
    BY <1>1, <2>1 DEF StoreInv, Goto, DiskInv, NewestInv, Recoverable, disk
  <2>5. StepInv'
    BY <1>1, <1>3 DEF StoreInv, Goto, StepInv, DiskInv, OrderInv, TypeOK, disk
  <2> QED
    BY <2>3, <2>4, <2>5 DEF StoreInv
<1>4. faults' \in Nat \/ Raise(p)
  BY DEF CheckFile, Goto, Refuse, Fault, StoreInv, TypeOK
<1> QED
  BY <1>1, <1>2, <1>3, <1>4 DEF CheckFile, MissingPrimary

\* What a write in progress knows: the file belongs to the batch.
LEMMA CurrentInTodo ==
  ASSUME StoreInv, step # "idle"
  PROVE  current \in todo /\ current \in Path /\ holder # "none" /\ current # None
BY DEF StoreInv, JobInv, TypeOK

\* The backup receives what the primary holds, which is older than the batch.
LEMMA SaveBackupInv ==
  ASSUME StoreInv, SaveBackup
  PROVE  StoreInv'
<1> DEFINE p == current
<1>1. /\ p \in todo /\ p \in Path /\ holder # "none" /\ step = "backup"
      /\ UNCHANGED <<pending, primary, phase, holder, batch, caller, damage, latest>>
  BY CurrentInTodo DEF SaveBackup
<1>2. /\ existing \in Nat /\ existing \in Slot /\ existing > 0 /\ existing < batch[p]
      /\ primary[p] \in Nat => primary[p] = existing
      /\ batch[p] \in 1..latest[p]
      /\ latest[p] \in Nat
  BY <1>1 DEF StoreInv, StepInv, OrderInv, Slot, TypeOK
<1>3. backup' \in {backup, [backup EXCEPT ![p] = existing]}
  BY DEF SaveBackup
<1>4. primary' \in [Path -> File] /\ backup' \in [Path -> File]
  BY <1>1, <1>2, <1>3 DEF StoreInv, TypeOK, File
<1>5. \/ Raise(p)
      \/ backup' = [backup EXCEPT ![p] = existing] /\ Goto(p, "primary", existing)
  BY DEF SaveBackup
<1> HIDE DEF p
<1>6. \A q \in Path : q # p => backup'[q] = backup[q]
  BY <1>3 DEF StoreInv, TypeOK
<1>7. backup'[p] \in {backup[p], existing}
  BY <1>1, <1>3 DEF StoreInv, TypeOK
<1>8. UNCHANGED failed \/ failed' = failed \cup {p}
  BY <1>5 DEF Raise, Goto
<1>9. /\ gaveUp' = gaveUp
      /\ todo' \cup failed' = todo \cup failed
  BY <1>1, <1>5 DEF Raise, Goto, Leave
<1>10. DiskInv'
  BY <1>1, <1>2, <1>6, <1>7, <1>9 DEF StoreInv, DiskInv, TypeOK
<1>11. NewestInv' /\ Recoverable'
  BY <1>1, <1>2, <1>6, <1>7, <1>9 DEF StoreInv, NewestInv, Recoverable, TypeOK, File
<1>12. CASE Raise(p)
  <2>1. Leave(p) /\ blocked' \in SUBSET Path /\ faults' \in Nat
    BY <1>12 DEF Raise, Fault, StoreInv, TypeOK
  <2>2. current \in {p, None}
    BY DEF p
  <2>3. TypeOK' /\ JobInv' /\ OrderInv' /\ StepInv'
    BY <1>1, <1>4, <1>8, <1>9, <2>1, <2>2, LeaveBookkeeping DEF StoreInv, TypeOK
  <2> QED
    BY <2>3, <1>10, <1>11 DEF StoreInv
<1>13. CASE backup' = [backup EXCEPT ![p] = existing] /\ Goto(p, "primary", existing)
  <2>1. "primary" \in Steps \ {"idle"} /\ current \in {p, None}
    BY DEF Steps, p
  <2>2. TypeOK' /\ JobInv' /\ OrderInv'
    BY <1>1, <1>2, <1>4, <1>13, <2>1, GotoBookkeeping
  <2>3. StepInv'
    BY <1>1, <1>2, <1>13 DEF StoreInv, Goto, StepInv, TypeOK
  <2> QED
    BY <2>2, <2>3, <1>10, <1>11 DEF StoreInv
<1> QED
  BY <1>5, <1>12, <1>13

\* The primary receives the batch's document after its content was saved.
LEMMA ReplacePrimaryInv ==
  ASSUME StoreInv, ReplacePrimary
  PROVE  StoreInv'
<1> DEFINE p == current
<1>1. /\ p \in todo /\ p \in Path /\ holder # "none" /\ step = "primary"
      /\ UNCHANGED <<pending, backup, phase, holder, batch, caller, damage, latest>>
  BY CurrentInTodo DEF ReplacePrimary
<1>2. /\ batch[p] \in 1..latest[p] /\ batch[p] \in File
      /\ latest[p] \in Nat
      /\ pending[p] = None => batch[p] = latest[p]
      /\ IF existing = None THEN primary[p] = Absent /\ backup[p] = Absent
         ELSE /\ existing \in Nat /\ existing < batch[p]
              /\ backup[p] \in Nat => backup[p] = existing
  BY <1>1 DEF StoreInv, StepInv, OrderInv, File, TypeOK, Slot
<1>3. primary' \in {primary, [primary EXCEPT ![p] = batch[p]]}
  BY DEF ReplacePrimary
<1>4. \/ Raise(p)
      \/ /\ primary' = [primary EXCEPT ![p] = batch[p]]
         /\ IF existing = None THEN Goto(p, "lkg", None) ELSE Written(p)
  BY DEF ReplacePrimary
<1>5. current \in {p, None}
  BY DEF p
<1> HIDE DEF p
<1>6. primary' \in [Path -> File] /\ backup' \in [Path -> File]
  BY <1>1, <1>2, <1>3 DEF StoreInv, TypeOK
<1>7. /\ \A q \in Path : q # p => primary'[q] = primary[q]
      /\ primary'[p] \in {primary[p], batch[p]}
  BY <1>1, <1>3 DEF StoreInv, TypeOK
<1>8. /\ gaveUp' = gaveUp
      /\ failed' \in {failed, failed \cup {p}}
      /\ blocked' \in SUBSET Path /\ faults' \in Nat
      /\ \A q \in Path : q # p => (q \in todo' \cup failed' <=> q \in todo \cup failed)
      /\ p \in todo' \cup failed' \/ primary'[p] = batch[p]
  BY <1>1, <1>4, <1>6 DEF Raise, Fault, Goto, Written, Leave, StoreInv, TypeOK
<1>9. DiskInv'
  BY <1>1, <1>2, <1>7, <1>8 DEF StoreInv, DiskInv, TypeOK
<1>10. NewestInv' /\ Recoverable'
  BY <1>1, <1>2, <1>7, <1>8 DEF StoreInv, NewestInv, Recoverable, TypeOK, File
<1>11. CASE Raise(p) \/ Written(p)
  <2>1. TypeOK' /\ JobInv' /\ OrderInv' /\ StepInv'
    BY <1>1, <1>5, <1>6, <1>8, <1>11, LeaveBookkeeping
    DEF StoreInv, TypeOK, Raise, Written
  <2> QED
    BY <2>1, <1>9, <1>10 DEF StoreInv
<1>12. CASE primary' = [primary EXCEPT ![p] = batch[p]] /\ existing = None
            /\ Goto(p, "lkg", None)
  <2>1. "lkg" \in Steps \ {"idle"} /\ None \in Slot
    BY DEF Steps, Slot
  <2>2. TypeOK' /\ JobInv' /\ OrderInv'
    BY <1>1, <1>5, <1>6, <1>12, <2>1, GotoBookkeeping
  <2>3. StepInv'
    BY <1>1, <1>2, <1>12 DEF StoreInv, Goto, StepInv, TypeOK
  <2> QED
    BY <2>2, <2>3, <1>9, <1>10 DEF StoreInv
<1> QED
  BY <1>4, <1>11, <1>12

\* A new or damaged backup receives what the primary already holds.
LEMMA FirstBackupInv ==
  ASSUME StoreInv, FirstBackup
  PROVE  StoreInv'
<1> DEFINE p == current
<1>1. /\ p \in todo /\ p \in Path /\ holder # "none" /\ step \in {"lkg", "heal"}
      /\ UNCHANGED <<pending, primary, phase, holder, batch, caller, damage, latest>>
  BY CurrentInTodo DEF FirstBackup
<1>2. /\ batch[p] \in 1..latest[p] /\ batch[p] \in File
      /\ latest[p] \in Nat
      /\ pending[p] = None => batch[p] = latest[p]
  BY <1>1 DEF StoreInv, OrderInv, File, TypeOK
<1>3. backup' \in {backup, [backup EXCEPT ![p] = batch[p]]}
  BY DEF FirstBackup
<1>4. \/ Raise(p)
      \/ /\ backup' = [backup EXCEPT ![p] = batch[p]]
         /\ Leave(p) /\ blocked' \in {blocked, blocked \ {p}}
         /\ UNCHANGED <<failed, gaveUp, faults>>
  BY DEF FirstBackup, Written
<1>5. current \in {p, None} /\ primary[p] = batch[p]
  BY <1>1 DEF p, StoreInv, StepInv
<1> HIDE DEF p
<1>6. primary' \in [Path -> File] /\ backup' \in [Path -> File]
  BY <1>1, <1>2, <1>3 DEF StoreInv, TypeOK
<1>7. /\ \A q \in Path : q # p => backup'[q] = backup[q]
      /\ backup'[p] \in {backup[p], batch[p]}
  BY <1>1, <1>3 DEF StoreInv, TypeOK
<1>8. /\ gaveUp' = gaveUp /\ Leave(p)
      /\ failed' \in {failed, failed \cup {p}}
      /\ blocked' \in SUBSET Path /\ faults' \in Nat
      /\ \A q \in Path : q # p => (q \in todo' \cup failed' <=> q \in todo \cup failed)
  BY <1>1, <1>4 DEF Raise, Fault, Leave, StoreInv, TypeOK
<1>9. TypeOK' /\ JobInv' /\ OrderInv' /\ StepInv'
  BY <1>1, <1>5, <1>6, <1>8, LeaveBookkeeping DEF StoreInv, TypeOK
<1>10. DiskInv'
  BY <1>1, <1>2, <1>5, <1>7, <1>8 DEF StoreInv, DiskInv, TypeOK
<1>11. NewestInv' /\ Recoverable'
  BY <1>1, <1>2, <1>5, <1>7, <1>8 DEF StoreInv, NewestInv, Recoverable, TypeOK
<1> QED
  BY <1>9, <1>10, <1>11 DEF StoreInv

-----------------------------------------------------------------------------
(* The environment.                                                        *)

\* A restart keeps the disk and accounts for every document it loses.
LEMMA LoseMemoryInv ==
  ASSUME StoreInv, LoseMemory
  PROVE  StoreInv'
<1> USE DEF StoreInv, LoseMemory, disk, bounds, Empty
<1>1. caller' \in [Caller -> CallerRec]
  BY DEF AtRest, CallerRec
<1>2. TypeOK'
  BY <1>1 DEF TypeOK, Slot, Phases, Holders, Steps
<1>3. JobInv' /\ OrderInv' /\ StepInv'
  BY DEF JobInv, OrderInv, StepInv
<1>4. DiskInv' /\ NewestInv' /\ Recoverable'
  BY DEF DiskInv, NewestInv, Recoverable
<1> QED
  BY <1>2, <1>3, <1>4

\* Damage of one copy leaves the other.
LEMMA DamageFileInv ==
  ASSUME StoreInv, NEW p \in Path, NEW d \in {Absent, Corrupt}, DamageFile(p, d)
  PROVE  StoreInv'
<1> USE DEF StoreInv, DamageFile, memory, job, ghost
<1>1. TypeOK'
  BY DEF TypeOK, File
<1>2. JobInv' /\ OrderInv'
  BY DEF JobInv, OrderInv
<1>3. \A q \in Path : /\ primary'[q] \in {primary[q], Absent, Corrupt}
                      /\ backup'[q] \in {backup[q], Absent, Corrupt}
                      /\ primary'[q] # primary[q] => backup'[q] \in Nat /\ primary[q] \in Nat
                      /\ backup'[q] # backup[q] => primary'[q] \in Nat /\ backup[q] \in Nat
                      /\ primary'[q] \in Nat => primary'[q] = primary[q]
                      /\ backup'[q] \in Nat => backup'[q] = backup[q]
  BY DEF TypeOK
<1>4. DiskInv'
  BY <1>3 DEF DiskInv
<1>5. StepInv'
  BY <1>3, CurrentInTodo DEF StepInv, OrderInv, TypeOK
<1>6. NewestInv' /\ Recoverable'
  BY <1>3 DEF NewestInv, Recoverable, TypeOK, File
<1> QED
  BY <1>1, <1>2, <1>4, <1>5, <1>6

\* The operator's copy of the backup is older than what is still to be written.
LEMMA RepairFileInv ==
  ASSUME StoreInv, NEW p \in Path, RepairFile(p)
  PROVE  StoreInv'
<1> USE DEF StoreInv, RepairFile, memory, job, bounds
<1>1. TypeOK'
  BY DEF TypeOK, File
<1>2. JobInv' /\ OrderInv'
  BY DEF JobInv, OrderInv
<1>3. /\ primary'[p] = backup[p] /\ primary'[p] \in Nat
      /\ \A q \in Path : q # p => primary'[q] = primary[q]
      /\ gaveUp' \in {gaveUp, gaveUp \cup {p}}
      /\ p \in gaveUp' \/ Queued(p) \/ p \in todo \cup failed
  BY DEF TypeOK
<1>4. DiskInv'
  BY <1>3 DEF DiskInv, TypeOK
<1>5. StepInv'
  BY <1>3, CurrentInTodo DEF StepInv
<1>6. NewestInv'
  BY <1>3 DEF NewestInv, Queued, JobInv
<1>7. Recoverable'
  BY <1>3 DEF Recoverable
<1> QED
  BY <1>1, <1>2, <1>4, <1>5, <1>6, <1>7

-----------------------------------------------------------------------------
(* The invariant.                                                          *)

\* Every step of the store preserves the invariant.
LEMMA StepInvariant == StoreInv /\ [Next]_vars => StoreInv'
<1> SUFFICES ASSUME StoreInv, [Next]_vars PROVE StoreInv'
  OBVIOUS
<1>1. CASE \E c \in Caller : CallerStep(c)
  BY <1>1, QuietSteps, WriteJsonInv, BeginDirectInv, EndDirectInv DEF CallerStep
<1>2. CASE \E S \in SUBSET Path : WriteBatch(S)
  BY <1>2, WriteBatchInv
<1>3. CASE BeginShutdown
  BY <1>3, BeginShutdownInv
<1>4. CASE FlushStep
  <2>1. CASE BeginFlush
    BY <2>1, TakePendingInv DEF BeginFlush
  <2>2. CASE BeginFinalFlush
    BY <2>2, TakePendingInv DEF BeginFinalFlush
  <2> QED
    BY <1>4, <2>1, <2>2, EndFlushInv, CheckFileInv, SaveBackupInv, ReplacePrimaryInv,
       FirstBackupInv DEF FlushStep
<1>5. CASE Environment
  BY <1>5, LoseMemoryInv, DamageFileInv, RepairFileInv DEF Environment, Crash, Reboot
<1>6. CASE UNCHANGED vars
  BY <1>6 DEF StoreInv, TypeOK, JobInv, OrderInv, DiskInv, StepInv, NewestInv,
     Recoverable, vars, memory, disk, job, bounds, ghost
<1> QED
  BY <1>1, <1>2, <1>3, <1>4, <1>5, <1>6 DEF Next

\* For every set of files and threads, StoreInv holds in every state the store
\* reaches: the queue, the batch, the disk and the steps of a write fit together.
THEOREM StoreInvariant == Spec => []StoreInv
<1>1. Init => StoreInv
  BY InitInv
<1>2. StoreInv /\ [Next]_vars => StoreInv'
  BY StepInvariant
<1> QED
  BY <1>1, <1>2, PTL DEF Spec

\* Every variable keeps its type.
THEOREM TypeCorrect == Spec => []TypeOK
<1>1. StoreInv => TypeOK
  BY DEF StoreInv
<1> QED
  BY <1>1, StoreInvariant, PTL

\* The queue never holds a document older than the newest accepted one.
THEOREM QueueNewest == Spec => []QueueHoldsNewest
<1>1. StoreInv => QueueHoldsNewest
  BY DEF StoreInv, OrderInv, QueueHoldsNewest
<1> QED
  BY <1>1, StoreInvariant, PTL

\* A good copy of every established file survives each crash and each damage.
THEOREM AlwaysRecoverable == Spec => []Recoverable
<1>1. StoreInv => Recoverable
  BY DEF StoreInv
<1> QED
  BY <1>1, StoreInvariant, PTL

\* A read answers with the newest accepted document of the file.
THEOREM ReadNewest == Spec => []ReadsNewest
<1>1. ASSUME StoreInv PROVE ReadsNewest
  <2> SUFFICES ASSUME NEW p \in Path, ~InTransit(p), p \notin gaveUp, Visible(p) \in Nat
               PROVE  Visible(p) = latest[p]
    BY DEF ReadsNewest
  <2> USE <1>1 DEF StoreInv
  <2>1. CASE pending[p] # None
    BY <2>1 DEF OrderInv, Visible
  <2>2. CASE pending[p] = None /\ flushing[p] # None
    BY <2>2 DEF Visible, JobInv, OrderInv
  <2>3. CASE pending[p] = None /\ flushing[p] = None
    <3>1. p \notin todo \cup failed
      BY <2>3 DEF InTransit, JobInv, OrderInv, TypeOK, Holders
    <3>2. Visible(p) = primary[p]
      BY <2>3 DEF Visible
    <3> QED
      BY <2>3, <3>1, <3>2 DEF NewestInv
  <2> QED
    BY <2>1, <2>2, <2>3
<1> QED
  BY <1>1, StoreInvariant, PTL

-----------------------------------------------------------------------------
(* The disk.                                                               *)

\* The only steps that touch a primary.
LEMMA PrimarySteps ==
  ASSUME [Next]_vars, primary' # primary
  PROVE  \/ ReplacePrimary
         \/ \E p \in Path, d \in {Absent, Corrupt} : DamageFile(p, d)
         \/ \E p \in Path : RepairFile(p)
BY DEF Next, CallerStep, FlushStep, Environment, vars, memory, disk, job, bounds, ghost,
   ReadJson, Abandon, CheckBlocked, WriteJson, BeginDirect, EndDirect, WriteBatch,
   BeginFlush, BeginFinalFlush, TakePending, EndFlush, BeginShutdown, CheckFile,
   SaveBackup, FirstBackup, Crash, Reboot, LoseMemory

\* What the replacement of a primary does, and what it has prepared.
LEMMA ReplaceEffect ==
  ASSUME StoreInv, ReplacePrimary, primary' # primary
  PROVE  /\ current \in Path /\ current \in todo
         /\ primary' = [primary EXCEPT ![current] = batch[current]]
         /\ batch[current] \in 1..latest[current]
         /\ primary[current] \in Nat => primary[current] < batch[current]
         /\ existing = None => backup[current] = Absent
         /\ (primary[current] \in Nat /\ backup[current] \in Nat)
            => backup[current] = primary[current]
<1>1. step = "primary" /\ current \in Path /\ current \in todo
  BY CurrentInTodo DEF ReplacePrimary
<1>2. primary' = [primary EXCEPT ![current] = batch[current]]
  BY DEF ReplacePrimary
<1>3. batch[current] \in 1..latest[current]
  BY <1>1 DEF StoreInv, OrderInv
<1>4. IF existing = None THEN primary[current] = Absent /\ backup[current] = Absent
      ELSE /\ existing > 0 /\ existing < batch[current]
           /\ primary[current] \in Nat => primary[current] = existing
           /\ backup[current] \in Nat => backup[current] = existing
  BY <1>1 DEF StoreInv, StepInv
<1> QED
  BY <1>1, <1>2, <1>3, <1>4

\* A replacement has saved what it replaces.
THEOREM ReplacementKeepsPrevious == Spec => ReplaceKeepsPrevious
<1>1. ASSUME StoreInv, [Next]_vars, NEW p \in Path,
             primary[p] \in Nat, backup[p] \in Nat,
             primary'[p] \in Nat, primary'[p] > primary[p]
      PROVE  backup[p] >= primary[p]
  <2>0. primary' # primary
    BY <1>1
  <2>1. CASE ReplacePrimary
    BY <1>1, <2>0, <2>1, ReplaceEffect DEF StoreInv, TypeOK
  <2>2. CASE \E q \in Path, d \in {Absent, Corrupt} : DamageFile(q, d)
    BY <1>1, <2>2 DEF DamageFile, StoreInv, TypeOK
  <2>3. CASE \E q \in Path : RepairFile(q)
    BY <1>1, <2>3 DEF RepairFile, StoreInv, TypeOK
  <2> QED
    BY <1>1, <2>0, <2>1, <2>2, <2>3, PrimarySteps
<1> DEFINE Kept == \A p \in Path :
       (/\ primary[p] \in Nat /\ backup[p] \in Nat
        /\ primary'[p] \in Nat /\ primary'[p] > primary[p])
       => backup[p] >= primary[p]
<1>2. StoreInv /\ [Next]_vars => [Kept]_vars
  BY <1>1
<1> QED
  BY <1>2, StoreInvariant, PTL DEF Spec, ReplaceKeepsPrevious

\* The store leaves a damaged primary with a good backup alone.
THEOREM DamageStays == Spec => DamageIsPreserved
<1>1. ASSUME StoreInv, [Next]_vars, NEW p \in Path,
             primary[p] \notin Nat, backup[p] \in Nat, primary'[p] # primary[p]
      PROVE  primary'[p] = backup[p] \/ (p = current /\ existing # None)
  <2>0. primary' # primary
    BY <1>1
  <2>1. CASE ReplacePrimary
    BY <1>1, <2>0, <2>1, ReplaceEffect DEF StoreInv, TypeOK
  <2>2. CASE \E q \in Path, d \in {Absent, Corrupt} : DamageFile(q, d)
    BY <1>1, <2>2 DEF DamageFile, StoreInv, TypeOK
  <2>3. CASE \E q \in Path : RepairFile(q)
    BY <1>1, <2>3 DEF RepairFile, StoreInv, TypeOK
  <2> QED
    BY <1>1, <2>0, <2>1, <2>2, <2>3, PrimarySteps
<1> DEFINE Left == \A p \in Path :
       (primary[p] \notin Nat /\ backup[p] \in Nat /\ primary'[p] # primary[p])
       => primary'[p] = backup[p] \/ (p = current /\ existing # None)
<1>2. StoreInv /\ [Next]_vars => [Left]_vars
  BY <1>1
<1> QED
  BY <1>2, StoreInvariant, PTL DEF Spec, DamageIsPreserved

-----------------------------------------------------------------------------
(* The store implements DurableFile.                                       *)

\* The steps that accept documents, seen from outside.
LEMMA AcceptSteps ==
  ASSUME StoreInv, [Next]_vars, latest' # latest
  PROVE  /\ \E S \in SUBSET Path : Accept(S)
         /\ primary' = primary
<1>1. ASSUME NEW c \in Caller, WriteJson(c)
      PROVE  Accept({caller[c].path}) /\ primary' = primary
  BY <1>1 DEF WriteJson, Enqueue, disk
<1>2. ASSUME NEW c \in Caller, BeginDirect(c)
      PROVE  Accept({caller[c].path}) /\ primary' = primary
  BY <1>2 DEF BeginDirect, disk
<1>3. ASSUME NEW S \in SUBSET Path, WriteBatch(S)
      PROVE  Accept(S) /\ primary' = primary
  BY <1>3 DEF WriteBatch, Enqueue, disk
<1>4. \A c \in Caller : {caller[c].path} \in SUBSET Path
  BY DEF StoreInv, TypeOK, CallerRec
<1>5. \/ \E c \in Caller : WriteJson(c) \/ BeginDirect(c)
      \/ \E S \in SUBSET Path : WriteBatch(S)
  BY DEF Next, CallerStep, FlushStep, Environment, vars, memory, disk, job, bounds,
     ghost, ReadJson, Abandon, CheckBlocked, EndDirect, BeginFlush, BeginFinalFlush,
     TakePending, EndFlush, BeginShutdown, CheckFile, SaveBackup, ReplacePrimary,
     FirstBackup, Crash, Reboot, LoseMemory, DamageFile, RepairFile
<1> QED
  BY <1>1, <1>2, <1>3, <1>4, <1>5

\* A replacement moves the file forward to an accepted document.
LEMMA ReplacePersists ==
  ASSUME StoreInv, ReplacePrimary, primary' # primary
  PROVE  DurableFiles!Persist(current)
<1>1. latest' = latest
  BY DEF ReplacePrimary
<1> QED
  BY <1>1, ReplaceEffect DEF DurableFiles!Persist

\* Every step of the store is a step of DurableFile or leaves its variables alone.
LEMMA StepImplements ==
  ASSUME StoreInv, [Next]_vars
  PROVE  [DurableFiles!Next]_(DurableFiles!vars)
<1>1. CASE latest' # latest
  <2>1. PICK S \in SUBSET Path : Accept(S) /\ primary' = primary
    BY <1>1, AcceptSteps
  <2>2. DurableFiles!Accept(S)
    BY <2>1 DEF Accept, DurableFiles!Accept
  <2> QED
    BY <2>2 DEF DurableFiles!Next
<1>2. CASE latest' = latest /\ primary' # primary
  <2>1. CASE ReplacePrimary
    BY <1>2, <2>1, ReplacePersists, ReplaceEffect DEF DurableFiles!Next
  <2>2. ASSUME NEW p \in Path, NEW d \in {Absent, Corrupt}, DamageFile(p, d)
        PROVE  DurableFiles!Next
    <3>1. primary[p] \in Nat /\ primary' = [primary EXCEPT ![p] = d]
      BY <1>2, <2>2 DEF DamageFile
    <3>2. DurableFiles!Damage(p)
      BY <1>2, <3>1 DEF DurableFiles!Damage
    <3> QED
      BY <3>2 DEF DurableFiles!Next
  <2>3. ASSUME NEW p \in Path, RepairFile(p)
        PROVE  DurableFiles!Next
    <3>1. /\ primary[p] \notin Nat /\ backup[p] \in 1..latest[p]
          /\ primary' = [primary EXCEPT ![p] = backup[p]]
      BY <2>3 DEF RepairFile, StoreInv, DiskInv
    <3>2. DurableFiles!Repair(p)
      BY <1>2, <3>1 DEF DurableFiles!Repair
    <3> QED
      BY <3>2 DEF DurableFiles!Next
  <2> QED
    BY <1>2, <2>1, <2>2, <2>3, PrimarySteps
<1>3. CASE latest' = latest /\ primary' = primary
  BY <1>3 DEF DurableFiles!vars
<1> QED
  BY <1>1, <1>2, <1>3

\* The store implements DurableFile: with its queue, retries, backups and
\* direct writes it only ever moves a file forward to an accepted document.
THEOREM StoreImplements == Spec => ImplementsDurableFile
<1>1. Init => DurableFiles!Init
  BY DEF Init, DurableFiles!Init
<1>2. StoreInv /\ [Next]_vars => [DurableFiles!Next]_(DurableFiles!vars)
  BY StepImplements
<1> QED
  BY <1>1, <1>2, StoreInvariant, PTL DEF Spec, ImplementsDurableFile, DurableFiles!Spec

-----------------------------------------------------------------------------
(* The exit.                                                               *)

\* Taking the queue and giving failed documents back.
LEMMA StopFlush ==
  ASSUME StoreInv, StopInv, BeginFlush \/ BeginFinalFlush \/ EndFlush
  PROVE  StopInv'
<1> USE DEF StoreInv, StopInv
<1>1. CASE BeginFlush
  BY <1>1 DEF BeginFlush, TakePending, bounds
<1>2. CASE BeginFinalFlush
  BY <1>2 DEF BeginFinalFlush, TakePending, bounds, Empty, TypeOK
<1>3. CASE EndFlush
  BY <1>3 DEF EndFlush, Requeued, bounds, Empty, TypeOK, JobInv
<1> QED
  BY <1>1, <1>2, <1>3

\* A write that fails has counted its error.
LEMMA StopWrite ==
  ASSUME StoreInv, StopInv,
         (\E p \in Path : CheckFile(p)) \/ SaveBackup \/ ReplacePrimary \/ FirstBackup
  PROVE  StopInv'
<1>1. UNCHANGED <<pending, phase, holder>> /\ holder # "none"
  BY CurrentInTodo DEF CheckFile, SaveBackup, ReplacePrimary, FirstBackup
<1>2. PICK p \in todo : \/ Raise(p)
                        \/ /\ failed' = failed /\ todo' \subseteq todo
                           /\ faults' \in Nat /\ faults' >= faults
  <2>1. CASE \E p \in Path : CheckFile(p)
    BY <2>1 DEF CheckFile, Refuse, Leave, Goto, Fault, StoreInv, TypeOK
  <2>2. CASE SaveBackup
    BY <2>2, CurrentInTodo DEF SaveBackup, Goto, StoreInv, TypeOK
  <2>3. CASE ReplacePrimary
    BY <2>3, CurrentInTodo DEF ReplacePrimary, Goto, Written, Leave, StoreInv, TypeOK
  <2>4. CASE FirstBackup
    BY <2>4, CurrentInTodo DEF FirstBackup, Written, Leave, StoreInv, TypeOK
  <2> QED
    BY <2>1, <2>2, <2>3, <2>4
<1>3. CASE Raise(p)
  BY <1>1, <1>3 DEF Raise, Fault, Leave, StopInv, StoreInv, TypeOK
<1>4. CASE /\ failed' = failed /\ todo' \subseteq todo
           /\ faults' \in Nat /\ faults' >= faults
  BY <1>1, <1>4 DEF StopInv, StoreInv, TypeOK
<1> QED
  BY <1>2, <1>3, <1>4

\* Once the exit has begun nothing is queued any more.
LEMMA StopOthers ==
  ASSUME StoreInv, StopInv,
         \/ \E c \in Caller : CallerStep(c)
         \/ \E S \in SUBSET Path : WriteBatch(S)
         \/ BeginShutdown \/ Environment
  PROVE  StopInv'
<1> USE DEF StopInv
<1>1. CASE \E c \in Caller : CallerStep(c)
  <2>1. ASSUME NEW c \in Caller, (\E p \in Path : ReadJson(c, p)) \/ Abandon(c) \/ CheckBlocked(c)
        PROVE  UNCHANGED <<pending, phase, holder, failed, todo>> /\ faults' >= faults /\ faults' \in Nat
    BY <2>1 DEF ReadJson, ReadOk, ReadFresh, ReadFails, Fault, Abandon, CheckBlocked,
       memory, job, bounds, StoreInv, TypeOK
  <2>2. ASSUME NEW c \in Caller, WriteJson(c)
        PROVE  phase = "up" /\ UNCHANGED <<phase, holder>>
    BY <2>2 DEF WriteJson, job
  <2>3. ASSUME NEW c \in Caller, BeginDirect(c)
        PROVE  StopInv'
    BY <2>3 DEF BeginDirect, bounds, StoreInv, TypeOK, Empty
  <2>4. ASSUME NEW c \in Caller, EndDirect(c)
        PROVE  StopInv'
    BY <2>4 DEF EndDirect, memory, bounds
  <2> QED
    BY <1>1, <2>1, <2>2, <2>3, <2>4 DEF CallerStep, StoreInv, TypeOK
<1>2. CASE \E S \in SUBSET Path : WriteBatch(S)
  BY <1>2 DEF WriteBatch, job
<1>3. CASE BeginShutdown
  BY <1>3 DEF BeginShutdown, memory, job, bounds
<1>4. CASE Environment
  BY <1>4 DEF Environment, Crash, Reboot, LoseMemory, DamageFile, RepairFile, memory,
     job, bounds
<1> QED
  BY <1>1, <1>2, <1>3, <1>4

\* After an orderly exit every accepted document is on disk, unless it was
\* refused, its file damaged, or its write failed in both final flushes.
THEOREM CleanStop == Spec => []CleanStopIsDurable
<1>1. Init => StopInv
  BY DEF Init, StopInv
<1>2. StoreInv /\ StopInv /\ [Next]_vars => StopInv'
  <2> SUFFICES ASSUME StoreInv, StopInv, [Next]_vars PROVE StopInv'
    OBVIOUS
  <2>1. CASE UNCHANGED vars
    BY <2>1 DEF vars, memory, job, bounds, StopInv
  <2> QED
    BY <2>1, StopFlush, StopWrite, StopOthers DEF Next, FlushStep
<1>3. StoreInv /\ StopInv => CleanStopIsDurable
  <2> SUFFICES ASSUME StoreInv, StopInv, phase = "stopped", NEW p \in Path,
                      primary[p] \in Nat, p \notin gaveUp
               PROVE  primary[p] = latest[p] \/ (pending[p] # None /\ faults >= 2)
    BY DEF CleanStopIsDurable
  <2>1. holder = "none" /\ todo = {} /\ failed = {} /\ (pending # Empty => faults >= 2)
    BY DEF StopInv, StoreInv, JobInv
  <2>2. pending[p] # None \/ primary[p] = latest[p]
    BY <2>1 DEF StoreInv, NewestInv
  <2> QED
    BY <2>1, <2>2 DEF Empty
<1> QED
  BY <1>1, <1>2, <1>3, StoreInvariant, PTL DEF Spec

-----------------------------------------------------------------------------
(* The state runtime: its inductive invariant.                             *)

\* A process that has not loaded yet has queued nothing.
LoadingInv ==
  serving = "loading" =>
    /\ pending = Empty /\ todo = {} /\ failed = {}
    /\ ~rejected

\* Unless a save was rejected, the newest document of each file is what
\* _state_documents makes of the registry.
SnapshotInv ==
  serving \in {"loaded", "up"} /\ ~rejected =>
    \A p \in Path : latest[p] > 0 /\ content[p][latest[p]] = Document(p, Memory)

Sound == faults = 0 /\ damage = 0

\* Without errors and damage nothing is blocked or refused, and each document
\* of a running server is queued or on disk.
SoundInv ==
  Sound =>
    /\ blocked = {} /\ failed = {}
    /\ \A p \in Path : primary[p] # Corrupt /\ (primary[p] = Absent => backup[p] = Absent)
    /\ step = "backup" => primary[current] \in Nat
    /\ serving \in {"loaded", "up"} =>
         /\ gaveUp = {}
         /\ \A p \in Path : \/ primary[p] \in Nat \/ latest[p] = 0
                            \/ pending[p] # None \/ p \in todo

\* After an orderly exit the files agree with the registry at the exit.
CleanInv ==
  Sound /\ clean /\ serving = "loading" => Loaded = atStop /\ ~Inconsistent

Established(p) == primary[p] # Absent \/ backup[p] # Absent

\* The files of durable registrations exist, and each sound one has them.
DurableInv ==
  /\ durable \subseteq Surviving
  /\ durable # {} => Established(SubsystemFile) /\ Established(ServerFile)

RegistryInv ==
  /\ StateTypeOK /\ \A p \in Path : latest[p] <= MaxVersion
  /\ LoadingInv /\ SnapshotInv /\ NoDanglingRoute

StateInv == StoreInv /\ StopInv /\ RegistryInv /\ SoundInv /\ CleanInv /\ DurableInv

-----------------------------------------------------------------------------
(* The files.                                                              *)

\* The three files are different ones.
LEMMA Files ==
  /\ Path = {RoutesFile, SubsystemFile, ServerFile}
  /\ RoutesFile # SubsystemFile /\ RoutesFile # ServerFile /\ SubsystemFile # ServerFile
<1>1. Path = {RoutesFile, SubsystemFile, ServerFile} /\ Cardinality(Path) = 3
  BY FilesAssumption
<1>2. ASSUME NEW a, NEW b, Path = {a, b} PROVE FALSE
  <2>1. IsFiniteSet({b}) /\ Cardinality({b}) = 1
    BY FS_Singleton
  <2>2. Cardinality({b} \cup {a}) \in {1, 2}
    BY <2>1, FS_AddElement
  <2>3. Path = {b} \cup {a}
    BY <1>2
  <2> QED
    BY <1>1, <2>2, <2>3
<1>3. CASE RoutesFile = SubsystemFile
  BY <1>1, <1>2, <1>3
<1>4. CASE RoutesFile = ServerFile
  BY <1>1, <1>2, <1>4
<1>5. CASE SubsystemFile = ServerFile
  BY <1>1, <1>2, <1>5
<1> QED
  BY <1>1, <1>3, <1>4, <1>5

\* What _state_documents makes of a registry.
LEMMA Documents ==
  ASSUME NEW r \in Registry
  PROVE  /\ Document(RoutesFile, r) = r.routes
         /\ Document(SubsystemFile, r) = r.records \cap r.clients
         /\ Document(ServerFile, r) = r.clients
BY Files DEF Document, Registry

\* What a saved snapshot looks like.
LEMMA SavedFacts ==
  ASSUME StateTypeOK, NEW r \in Registry, Saved(r)
  PROVE  /\ phase = "up" /\ UNCHANGED <<flushing, blocked, disk, phase, job, caller, bounds>>
         /\ gaveUp' = {}
         /\ \A p \in Path : /\ latest'[p] = latest[p] + 1 /\ latest'[p] \in 1 .. MaxVersion
                            /\ pending'[p] # None
                            /\ content'[p][latest'[p]] = Document(p, r)
         /\ content' \in [Path -> [1 .. MaxVersion -> SUBSET Device]]
<1>1. /\ phase = "up" /\ UNCHANGED <<flushing, blocked, disk, phase, job, caller, bounds>>
      /\ Enqueue(Path)
  BY DEF Saved, WriteBatch
<1>2. gaveUp' = {}
  BY <1>1 DEF Enqueue, Accept, StateTypeOK, TypeOK
<1>3. \A p \in Path : /\ latest[p] \in Nat /\ latest[p] < MaxVersion
                      /\ latest'[p] = latest[p] + 1 /\ pending'[p] = latest[p] + 1
  BY <1>1 DEF Enqueue, Accept, StateTypeOK, TypeOK
<1>4. \A p \in Path : latest'[p] \in 1 .. MaxVersion /\ pending'[p] # None
  BY <1>3
<1>5. content' = [p \in Path |-> [v \in 1 .. MaxVersion |->
                    IF v = latest[p] + 1 THEN Document(p, r)
                    ELSE IF v \in Held(p) THEN content[p][v] ELSE {}]]
  BY DEF Saved
<1>6. \A p \in Path : content'[p][latest'[p]] = Document(p, r)
  BY <1>3, <1>4, <1>5
<1>7. content' \in [Path -> [1 .. MaxVersion -> SUBSET Device]]
  BY <1>5 DEF StateTypeOK, Document
<1> QED
  BY <1>1, <1>2, <1>3, <1>4, <1>6, <1>7

\* A request changes the registry and saves it, or is told that it was not saved.
LEMMA RequestFacts ==
  ASSUME NEW r \in Registry, Request(r)
  PROVE  /\ serving = "up" /\ serving' = "up" /\ Memory' = r
         /\ UNCHANGED <<atStop, clean>>
         /\ \/ Saved(r) /\ rejected' = FALSE
            \/ rejected' = TRUE /\ UNCHANGED <<vars, content>>
BY DEF Request, Become, SaveState, Memory, Registry

-----------------------------------------------------------------------------
(* What a step does to the store.                                          *)

\* A start that fails to read a file blocks it or counts the error.
LEMMA RefusedStoreInv ==
  ASSUME StoreInv, StopInv, blocked' \in SUBSET Path, faults' \in Nat, faults' >= faults,
         UNCHANGED <<pending, flushing, disk, phase, job, caller, damage, ghost>>
  PROVE  StoreInv' /\ StopInv'
<1> USE DEF StoreInv, disk, job, ghost
<1>1. TypeOK'
  BY DEF TypeOK
<1>2. (JobInv /\ OrderInv /\ DiskInv)'
  BY DEF JobInv, OrderInv, DiskInv
<1>3. (StepInv /\ NewestInv /\ Recoverable)'
  BY DEF StepInv, NewestInv, Recoverable
<1>4. StopInv'
  BY DEF StopInv, TypeOK, Empty
<1> QED
  BY <1>1, <1>2, <1>3, <1>4

\* Steps of the store keep what the store promises.
LEMMA StoreNextInv ==
  ASSUME StoreInv, StopInv, [Next]_vars
  PROVE  StoreInv' /\ StopInv'
<1>1. StoreInv'
  BY StepInvariant
<1>2. CASE UNCHANGED vars
  BY <1>1, <1>2 DEF vars, memory, job, bounds, StopInv
<1> QED
  BY <1>1, <1>2, StopFlush, StopWrite, StopOthers DEF Next, FlushStep

\* Every step of the runtime is one of the store's, or a start that is refused.
LEMMA RuntimeStoreInv ==
  ASSUME StoreInv, StopInv, RegistryInv, StateStep
  PROVE  StoreInv' /\ StopInv'
<1> USE DEF RegistryInv
<1>1. ASSUME NEW r, Saved(r) PROVE [Next]_vars
  BY <1>1 DEF Saved, Next
<1>2. ASSUME NEW r, Request(r) PROVE [Next]_vars
  BY <1>1, <1>2 DEF Request, SaveState
<1>3. CASE LoadState
  <2>1. CASE \E p \in Path : FileRejected(p) /\ blocked' = blocked \cup {p}
             /\ UNCHANGED <<pending, flushing, disk, phase, job, caller, bounds, ghost>>
    BY <2>1, RefusedStoreInv DEF bounds, StoreInv, TypeOK
  <2>2. CASE Fault /\ UNCHANGED <<memory, disk, phase, job, caller, damage, ghost>>
    BY <2>2, RefusedStoreInv DEF Fault, memory, StoreInv, TypeOK
  <2>3. CASE UNCHANGED vars \/ Saved(Loaded)
    BY <2>3, <1>1, StoreNextInv
  <2> QED
    BY <1>3, <2>1, <2>2, <2>3 DEF LoadState
<1>4. CASE PruneRoutes
  BY <1>1, <1>4, StoreNextInv DEF PruneRoutes
<1>5. CASE StoreStep
  BY <1>5, StoreNextInv DEF StoreStep, Next, FlushStep, Environment
<1>6. CASE NewProcess
  BY <1>6, StoreNextInv DEF NewProcess, Next, Environment
<1> QED
  BY <1>2, <1>3, <1>4, <1>5, <1>6, StoreNextInv
     DEF StateStep, AddClient, RemoveClient, RemoveByCommand, AddRoute, DeleteRoute, RetryChange

-----------------------------------------------------------------------------
(* The registry and its snapshot.                                          *)

\* A request changes the registry and its newest documents together.
LEMMA RequestInv ==
  ASSUME StoreInv, RegistryInv, TypeOK', NEW r \in Registry, Request(r), TrackDurable,
         r.records \subseteq r.clients, r.routes \ r.clients \subseteq loose', loose' \in SUBSET Device
  PROVE  RegistryInv'
<1> USE DEF RegistryInv
<1>1. /\ serving = "up" /\ serving' = "up" /\ Memory' = r
      /\ clients' = r.clients /\ records' = r.records /\ routes' = r.routes
      /\ UNCHANGED <<atStop, clean>>
  BY RequestFacts DEF Request, Become
<1>2. durable' \in SUBSET Device
  BY <1>1 DEF TrackDurable, Registry
<1>3. CASE Saved(r) /\ rejected' = FALSE
  <2>1. StateTypeOK'
    BY <1>1, <1>2, <1>3, SavedFacts DEF StateTypeOK
  <2>2. SnapshotInv' /\ \A p \in Path : latest'[p] <= MaxVersion
    BY <1>1, <1>3, SavedFacts DEF SnapshotInv
  <2> QED
    BY <1>1, <2>1, <2>2 DEF LoadingInv, NoDanglingRoute
<1>4. CASE rejected' = TRUE /\ UNCHANGED <<vars, content>>
  BY <1>1, <1>2, <1>4 DEF StateTypeOK, LoadingInv, SnapshotInv, NoDanglingRoute, vars, ghost
<1> QED
  BY <1>3, <1>4, RequestFacts

\* What a start finds on disk are devices.
LEMMA OnDiskType ==
  ASSUME StoreInv, RegistryInv
  PROVE  Loaded \in Registry
<1>1. ASSUME NEW p \in Path PROVE OnDisk(p) \in SUBSET Device
  BY DEF OnDisk, RegistryInv, StateTypeOK, StoreInv, DiskInv, TypeOK
<1> QED
  BY <1>1, Files DEF Loaded, Registry

\* A start takes the registry from the files, or is refused.
LEMMA LoadInv ==
  ASSUME StoreInv, RegistryInv, TypeOK', LoadState, TrackDurable
  PROVE  RegistryInv'
<1> USE DEF RegistryInv
<1>1. CASE RefuseStart
  <2>1. UNCHANGED <<latest, registry, content, rejected, loose, atStop, clean>> /\ serving' = "refused"
    BY <1>1 DEF LoadState, RefuseStart, ghost, vars
  <2>2. durable' \in SUBSET Device
    BY <2>1 DEF TrackDurable, StateTypeOK, Registry, Memory, registry
  <2> QED
    BY <2>1, <2>2 DEF StateTypeOK, Memory, registry, LoadingInv, SnapshotInv, NoDanglingRoute
<1>2. CASE /\ ~Inconsistent /\ Become(Loaded) /\ Saved(Loaded)
           /\ serving' = "loaded" /\ UNCHANGED <<rejected, loose, atStop, clean>>
  <2>1. /\ Memory' = Loaded /\ Loaded \in Registry
        /\ clients' = Loaded.clients /\ records' = Loaded.records
    BY <1>2, OnDiskType DEF Memory, Become, Loaded
  <2>2. records' \subseteq clients'
    BY <1>2, <2>1 DEF Inconsistent, Loaded
  <2>3. durable' \in SUBSET Device
    BY <1>2, <2>1 DEF TrackDurable, Registry
  <2>4. StateTypeOK'
    BY <1>2, <2>1, <2>2, <2>3, SavedFacts DEF StateTypeOK
  <2>5. SnapshotInv' /\ \A p \in Path : latest'[p] <= MaxVersion
    BY <1>2, <2>1, SavedFacts DEF SnapshotInv
  <2> QED
    BY <1>2, <2>4, <2>5 DEF LoadingInv, NoDanglingRoute
<1> QED
  BY <1>1, <1>2 DEF LoadState

\* Pruning leaves routes to registered clients only.
LEMMA PruneInv ==
  ASSUME StoreInv, RegistryInv, TypeOK', PruneRoutes, TrackDurable
  PROVE  RegistryInv'
<1> USE DEF RegistryInv
<1> DEFINE kept == [Memory EXCEPT !.routes = @ \cap clients]
<1>1. /\ kept \in Registry /\ kept.clients = clients /\ kept.records = records
      /\ kept.routes = routes \cap clients
  BY DEF Memory, Registry, StateTypeOK
<1>2. Become(kept) => Memory' = kept
  BY <1>1 DEF Become, Memory
<1>3. UNCHANGED <<clients, records>> /\ serving' \in {"up", "refused"}
      /\ UNCHANGED <<loose, atStop, clean>>
  BY <1>1 DEF PruneRoutes, Become, registry
<1>4. durable' \in SUBSET Device
  BY <1>3 DEF TrackDurable, StateTypeOK, Registry, Memory
<1>5. CASE kept = Memory /\ serving' = "up" /\ UNCHANGED <<vars, registry, content, rejected>>
  <2>1. serving = "loaded" /\ routes \subseteq clients
    BY <1>1, <1>5 DEF PruneRoutes, Memory
  <2> QED
    BY <1>3, <1>4, <1>5, <2>1 DEF StateTypeOK, Memory, registry, LoadingInv, SnapshotInv,
       NoDanglingRoute, vars, ghost
<1>6. CASE Become(kept) /\ Saved(kept) /\ serving' = "up" /\ UNCHANGED rejected
  <2>1. Memory' = kept /\ routes' \subseteq clients' /\ records' \subseteq clients'
    BY <1>1, <1>6, <1>2, <1>3 DEF Become, StateTypeOK
  <2> HIDE DEF kept
  <2>2. StateTypeOK'
    BY <1>1, <1>3, <1>4, <1>6, <2>1, SavedFacts DEF StateTypeOK
  <2>3. SnapshotInv' /\ \A p \in Path : latest'[p] <= MaxVersion
    BY <1>1, <1>6, <2>1, SavedFacts DEF SnapshotInv
  <2> QED
    BY <1>6, <2>1, <2>2, <2>3 DEF LoadingInv, NoDanglingRoute
<1>7. CASE Become(kept) /\ serving' = "refused" /\ rejected' = TRUE /\ UNCHANGED <<vars, content>>
  <2>1. Memory' \in Registry /\ records' \subseteq clients' /\ latest' = latest
    BY <1>1, <1>2, <1>3, <1>7 DEF StateTypeOK, vars, ghost
  <2> QED
    BY <1>3, <1>4, <1>7, <2>1 DEF StateTypeOK, LoadingInv, SnapshotInv, NoDanglingRoute
<1> QED
  BY <1>5, <1>6, <1>7 DEF PruneRoutes

\* The store moves documents that are already there.
LEMMA StoreStepInv ==
  ASSUME StoreInv, RegistryInv, TypeOK', StoreStep, TrackDurable
  PROVE  RegistryInv'
<1> USE DEF RegistryInv
<1>1. UNCHANGED <<registry, serving, content, rejected, loose, atStop, clean>> /\ latest' = latest
  BY DEF StoreStep, BeginFlush, BeginFinalFlush, TakePending, EndFlush, CheckFile,
     SaveBackup, ReplacePrimary, FirstBackup, BeginShutdown, DamageFile, RepairFile, ghost
<1>2. durable' \in SUBSET Device
  BY <1>1 DEF TrackDurable, StateTypeOK, Registry, Memory, registry
<1>3. LoadingInv'
  <2> SUFFICES ASSUME serving = "loading" PROVE pending' = Empty /\ todo' = {} /\ failed' = {}
    BY <1>1 DEF LoadingInv, Empty
  <2>1. pending = Empty /\ todo = {} /\ failed = {} /\ current = None /\ step = "idle"
    BY DEF LoadingInv, StoreInv, JobInv
  <2>2. CASE BeginFinalFlush
    BY <2>1, <2>2 DEF BeginFinalFlush, TakePending, Empty
  <2>3. CASE EndFlush
    BY <2>1, <2>3 DEF EndFlush, Requeued, StoreInv, TypeOK, Empty
  <2>4. CASE BeginShutdown \/ (\E p \in Path, d \in {Absent, Corrupt} : DamageFile(p, d))
             \/ (\E p \in Path : RepairFile(p))
    BY <2>1, <2>4 DEF BeginShutdown, DamageFile, RepairFile, memory, job
  <2> QED
    BY <2>1, <2>2, <2>3, <2>4 DEF StoreStep, BeginFlush, CheckFile, SaveBackup, ReplacePrimary,
       FirstBackup
<1> QED
  BY <1>1, <1>2, <1>3 DEF StateTypeOK, Memory, registry, SnapshotInv, NoDanglingRoute

\* A new process starts with an empty memory.
LEMMA NewProcessInv ==
  ASSUME StoreInv, RegistryInv, TypeOK', NewProcess, TrackDurable
  PROVE  RegistryInv'
<1> USE DEF RegistryInv
<1>1. LoseMemory
  BY DEF NewProcess, Crash, Reboot
<1>2. durable' \in SUBSET Device
  BY DEF NewProcess, TrackDurable, StateTypeOK, Registry, Memory
<1>3. StateTypeOK'
  BY <1>2 DEF NewProcess, StateTypeOK, Registry, Memory
<1>4. LoadingInv'
  BY <1>1 DEF NewProcess, LoadingInv, LoseMemory, Empty
<1> QED
  BY <1>1, <1>3, <1>4 DEF NewProcess, LoseMemory, SnapshotInv, NoDanglingRoute

\* No step breaks it.
LEMMA RegistryStep ==
  ASSUME StoreInv, StopInv, RegistryInv, StateNext
  PROVE  RegistryInv'
<1>1. TypeOK' /\ TrackDurable
  BY RuntimeStoreInv DEF StateNext, StoreInv
<1>2. /\ Memory \in Registry /\ records \subseteq clients /\ loose \in SUBSET Device
      /\ serving = "up" => routes \ clients \subseteq loose
  BY DEF RegistryInv, StateTypeOK, NoDanglingRoute
<1>3. ASSUME NEW d \in Device, AddClient(d) PROVE RegistryInv'
  <2> DEFINE r == [Memory EXCEPT !.clients = @ \cup {d}, !.records = @ \cup {d}]
  <2>1. r \in Registry /\ Request(r) /\ serving = "up"
    BY <1>2, <1>3 DEF AddClient, Without, Request, Registry, Memory
  <2>2. r.records \subseteq r.clients /\ r.routes \ r.clients \subseteq loose' /\ loose' \in SUBSET Device
    BY <1>2, <1>3, <2>1 DEF AddClient, Without, Memory
  <2> HIDE DEF r
  <2> QED
    BY <1>1, <2>1, <2>2, RequestInv
<1>4. ASSUME NEW d \in Device, RemoveClient(d) PROVE RegistryInv'
  <2> DEFINE r == [Without(d) EXCEPT !.routes = @ \ {d}]
  <2>1. r \in Registry /\ Request(r) /\ serving = "up"
    BY <1>2, <1>4 DEF RemoveClient, Without, Request, Registry, Memory
  <2>2. r.records \subseteq r.clients /\ r.routes \ r.clients \subseteq loose' /\ loose' \in SUBSET Device
    BY <1>2, <1>4, <2>1 DEF RemoveClient, Without, Memory
  <2> HIDE DEF r
  <2> QED
    BY <1>1, <2>1, <2>2, RequestInv
<1>5. ASSUME NEW d \in Device, RemoveByCommand(d) PROVE RegistryInv'
  <2> DEFINE r == Without(d)
  <2>1. r \in Registry /\ Request(r) /\ serving = "up"
    BY <1>2, <1>5 DEF RemoveByCommand, Without, Request, Registry, Memory
  <2>2. r.records \subseteq r.clients /\ r.routes \ r.clients \subseteq loose' /\ loose' \in SUBSET Device
    BY <1>2, <1>5, <2>1 DEF RemoveByCommand, Without, Memory
  <2> HIDE DEF r
  <2> QED
    BY <1>1, <2>1, <2>2, RequestInv
<1>7. ASSUME NEW d \in Device, AddRoute(d) PROVE RegistryInv'
  <2> DEFINE r == [Memory EXCEPT !.routes = @ \cup {d}]
  <2>1. r \in Registry /\ Request(r) /\ serving = "up"
    BY <1>2, <1>7 DEF AddRoute, Without, Request, Registry, Memory
  <2>2. r.records \subseteq r.clients /\ r.routes \ r.clients \subseteq loose' /\ loose' \in SUBSET Device
    BY <1>2, <1>7, <2>1 DEF AddRoute, Without, Memory
  <2> HIDE DEF r
  <2> QED
    BY <1>1, <2>1, <2>2, RequestInv
<1>8. ASSUME NEW d \in Device, DeleteRoute(d) PROVE RegistryInv'
  <2> DEFINE r == [Memory EXCEPT !.routes = @ \ {d}]
  <2>1. r \in Registry /\ Request(r) /\ serving = "up"
    BY <1>2, <1>8 DEF DeleteRoute, Without, Request, Registry, Memory
  <2>2. r.records \subseteq r.clients /\ r.routes \ r.clients \subseteq loose' /\ loose' \in SUBSET Device
    BY <1>2, <1>8, <2>1 DEF DeleteRoute, Without, Memory
  <2> HIDE DEF r
  <2> QED
    BY <1>1, <2>1, <2>2, RequestInv
<1>6. CASE RetryChange
  <2>1. Request(Memory) /\ serving = "up" /\ loose' = loose
    BY <1>6 DEF RetryChange, Request
  <2> QED
    BY <1>1, <1>2, <2>1, RequestInv DEF Memory
<1> QED
  BY <1>1, <1>3, <1>4, <1>5, <1>6, <1>7, <1>8, LoadInv, PruneInv, StoreStepInv, NewProcessInv
     DEF StateNext, StateStep

-----------------------------------------------------------------------------
(* Durable registrations.                                                  *)

\* A file that existed leaves a trace: only one of its copies is ever lost.
LEMMA EstablishedKept ==
  ASSUME StoreInv, StateStep, NEW p \in Path, Established(p)
  PROVE  Established(p)'
<1> USE DEF Established
<1>1. ASSUME NEW r, Saved(r) PROVE UNCHANGED disk
  BY <1>1 DEF Saved, WriteBatch
<1>2. ASSUME NEW r, Request(r) PROVE UNCHANGED disk
  BY <1>1, <1>2 DEF Request, SaveState, vars
<1>3. CASE LoadState \/ PruneRoutes
  BY <1>1, <1>3 DEF LoadState, PruneRoutes, vars, disk
<1>4. CASE NewProcess
  BY <1>4 DEF NewProcess, Crash, Reboot, LoseMemory, disk
<1>5. CASE BeginFlush \/ BeginFinalFlush \/ EndFlush \/ BeginShutdown \/ \E q \in Path : CheckFile(q)
  BY <1>5 DEF BeginFlush, BeginFinalFlush, TakePending, EndFlush, BeginShutdown, CheckFile, disk
<1>6. CASE SaveBackup \/ ReplacePrimary \/ FirstBackup
  <2>1. current \in Path /\ batch[current] \in Nat /\ current \in todo
    BY <1>6, CurrentInTodo DEF SaveBackup, ReplacePrimary, FirstBackup, StoreInv, OrderInv, TypeOK
  <2>2. step = "backup" => existing \in Nat
    BY DEF StoreInv, StepInv
  <2> QED
    BY <1>6, <2>1, <2>2 DEF SaveBackup, ReplacePrimary, FirstBackup, StoreInv, TypeOK
<1>7. CASE \/ \E q \in Path, d \in {Absent, Corrupt} : DamageFile(q, d)
           \/ \E q \in Path : RepairFile(q)
  BY <1>7 DEF DamageFile, RepairFile, StoreInv, TypeOK
<1> QED
  BY <1>2, <1>3, <1>4, <1>5, <1>6, <1>7
     DEF StateStep, AddClient, RemoveClient, RemoveByCommand, AddRoute, DeleteRoute, RetryChange, StoreStep, disk

\* A durable registration stays in every sound file that holds it.
LEMMA DurableStep ==
  ASSUME StoreInv, DurableInv, StateNext, durable' \subseteq Device
  PROVE  DurableInv'
<1> USE DEF DurableInv
<1>1. durable' \subseteq InEveryFile' \cup (durable \cap Surviving')
  BY DEF StateNext, TrackDurable
<1>2. durable' \cap InEveryFile' \subseteq Surviving'
  BY DEF InEveryFile, Surviving
<1>3. ASSUME durable' # {}, NEW p \in {SubsystemFile, ServerFile} PROVE Established(p)'
  <2>1. CASE durable # {}
    BY <2>1, EstablishedKept, Files DEF StateNext
  <2>2. CASE InEveryFile' # {}
    BY <2>2 DEF InEveryFile, OnDisk, Established
  <2> QED
    BY <1>1, <1>3, <2>1, <2>2
<1> QED
  BY <1>1, <1>2, <1>3

-----------------------------------------------------------------------------
(* Without errors and damage.                                              *)

\* Errors and damage are counted.
LEMMA SoundBefore ==
  ASSUME StoreInv, StateStep, Sound'
  PROVE  Sound /\ UNCHANGED bounds
<1> USE DEF Sound, bounds
<1>1. faults \in Nat /\ damage \in Nat
  BY DEF StoreInv, TypeOK
<1>2. ASSUME NEW r, Saved(r) PROVE UNCHANGED bounds
  BY <1>2 DEF Saved, WriteBatch
<1>3. ASSUME NEW r, Request(r) PROVE UNCHANGED bounds
  BY <1>2, <1>3 DEF Request, SaveState, vars
<1>4. CASE LoadState \/ PruneRoutes
  BY <1>1, <1>2, <1>4 DEF LoadState, PruneRoutes, Fault, vars
<1>5. CASE NewProcess
  BY <1>5 DEF NewProcess, Crash, Reboot, LoseMemory
<1>6. CASE StoreStep
  BY <1>1, <1>6 DEF StoreStep, BeginFlush, BeginFinalFlush, TakePending, EndFlush, BeginShutdown,
     CheckFile, SaveBackup, ReplacePrimary, FirstBackup, DamageFile, RepairFile, Refuse, Raise,
     Goto, Written, Fault
<1> QED
  BY <1>3, <1>4, <1>5, <1>6 DEF StateStep, AddClient, RemoveClient, RemoveByCommand, AddRoute, DeleteRoute, RetryChange

\* Saving a snapshot queues a newer document of each file.
LEMMA SoundSaved ==
  ASSUME RegistryInv, SoundInv, Sound, NEW r \in Registry, Saved(r)
  PROVE  SoundInv'
BY SavedFacts DEF SoundInv, RegistryInv, disk, job

\* The steps of a flush keep each newest document in the queue, the batch or
\* on disk, and refuse nothing.
LEMMA SoundStore ==
  ASSUME StoreInv, SoundInv, Sound, StoreStep, Sound'
  PROVE  SoundInv'
<1> USE DEF SoundInv
<1>1. UNCHANGED <<serving, latest>> /\ faults = 0 /\ faults' = 0 /\ damage = 0 /\ damage' = 0
  BY DEF Sound, StoreStep, BeginFlush, BeginFinalFlush, TakePending, EndFlush, CheckFile,
     SaveBackup, ReplacePrimary, FirstBackup, BeginShutdown, DamageFile, RepairFile, ghost
<1>2. ~Fault /\ \A p \in Path : p \notin blocked /\ ~MissingPrimary(p) /\ primary[p] # Corrupt
  BY <1>1 DEF Fault, MissingPrimary, Sound
<1>3. CASE BeginFlush \/ BeginFinalFlush
  <2>1. /\ \A p \in Path : pending[p] # None => p \in todo'
        /\ todo = {} /\ failed' = {} /\ UNCHANGED <<blocked, primary, backup, gaveUp, step, current>>
    BY <1>3 DEF BeginFlush, BeginFinalFlush, TakePending, disk, ghost, StoreInv, JobInv
  <2> QED
    BY <1>1, <2>1 DEF Sound
<1>4. CASE EndFlush
  <2>1. pending' = pending /\ todo = {} /\ failed' = {}
        /\ UNCHANGED <<blocked, primary, backup, gaveUp, step, current, todo>>
    BY <1>4 DEF Sound, EndFlush, Requeued, disk, ghost, StoreInv, TypeOK
  <2> QED
    BY <1>1, <2>1 DEF Sound
<1>5. ASSUME NEW p \in Path, CheckFile(p) PROVE SoundInv'
  <2>1. UNCHANGED <<blocked, failed, gaveUp, pending, primary, backup>>
    BY <1>2, <1>5 DEF CheckFile, Raise, Leave, Goto, disk
  <2>2. \/ UNCHANGED todo /\ (step' = "backup" => primary[current'] \in Nat)
        \/ todo' = todo \ {p} /\ primary[p] \in Nat /\ step' = "idle"
    BY <1>2, <1>5 DEF CheckFile, Raise, Leave, Goto, StoreInv, OrderInv, TypeOK
  <2> QED
    BY <1>1, <2>1, <2>2 DEF Sound
<1>6. CASE SaveBackup
  <2>1. current \in Path /\ primary[current] \in Nat /\ step' = "primary"
        /\ backup' = [backup EXCEPT ![current] = existing]
        /\ UNCHANGED <<blocked, failed, gaveUp, pending, primary, todo>>
    BY <1>2, <1>6, CurrentInTodo DEF SaveBackup, Raise, Goto, Sound, StoreInv, TypeOK
  <2> QED
    BY <1>1, <2>1 DEF Sound, StoreInv, TypeOK
<1>7. CASE ReplacePrimary
  <2>1. /\ current \in Path /\ batch[current] \in Nat /\ step' \in {"lkg", "idle"}
        /\ primary' = [primary EXCEPT ![current] = batch[current]]
        /\ blocked' = {} /\ todo' \in {todo, todo \ {current}}
        /\ UNCHANGED <<failed, gaveUp, pending, backup>>
    BY <1>2, <1>7, CurrentInTodo DEF ReplacePrimary, Raise, Goto, Written, Leave, Sound, StoreInv,
       OrderInv, TypeOK
  <2> QED
    BY <1>1, <2>1 DEF Sound, StoreInv, TypeOK
<1>8. CASE FirstBackup
  <2>1. current \in Path /\ batch[current] \in Nat /\ primary[current] = batch[current]
    BY <1>8, CurrentInTodo DEF FirstBackup, StoreInv, OrderInv, StepInv, TypeOK
  <2>2. /\ step' = "idle" /\ backup' = [backup EXCEPT ![current] = batch[current]]
        /\ blocked' = {} /\ todo' = todo \ {current}
        /\ UNCHANGED <<failed, gaveUp, pending, primary>>
    BY <1>2, <1>8 DEF FirstBackup, Raise, Written, Leave, Sound
  <2> QED
    BY <1>1, <2>1, <2>2 DEF Sound, StoreInv, TypeOK
<1>9. CASE BeginShutdown
  BY <1>1, <1>9 DEF BeginShutdown, memory, disk, job, ghost, Sound
<1>10. CASE \/ \E p \in Path, d \in {Absent, Corrupt} : DamageFile(p, d)
            \/ \E p \in Path : RepairFile(p)
  BY <1>1, <1>10 DEF DamageFile, RepairFile, Sound, StoreInv, TypeOK, File
<1> QED
  BY <1>3, <1>4, <1>5, <1>6, <1>7, <1>8, <1>9, <1>10 DEF StoreStep

\* No step breaks it.
LEMMA SoundStep ==
  ASSUME StoreInv, RegistryInv, SoundInv, StateStep
  PROVE  SoundInv'
<1> SUFFICES ASSUME Sound' PROVE SoundInv'
  BY DEF SoundInv
<1>1. Sound
  BY SoundBefore
<1>2. ASSUME NEW r \in Registry, Request(r) PROVE SoundInv'
  BY <1>1, <1>2, SoundSaved, RequestFacts DEF SoundInv, vars, memory, disk, job, ghost, bounds, Sound
<1>3. CASE LoadState
  <2>1. CASE \E p \in Path : FileRejected(p)
    BY <1>1, <2>1 DEF FileRejected, MissingPrimary, SoundInv
  <2>2. CASE Fault
    BY <1>1, <2>2 DEF Fault, Sound
  <2>3. CASE RefuseStart /\ UNCHANGED vars
    BY <1>1, <2>3 DEF RefuseStart, SoundInv, vars, memory, disk, job, ghost, bounds, Sound
  <2>4. CASE Saved(Loaded)
    BY <1>1, <2>4, OnDiskType, SoundSaved
  <2> QED
    BY <1>3, <2>1, <2>2, <2>3, <2>4 DEF LoadState
<1>4. CASE PruneRoutes
  <2>1. [Memory EXCEPT !.routes = @ \cap clients] \in Registry
    BY DEF RegistryInv, StateTypeOK, Memory, Registry
  <2> QED
    BY <1>1, <1>4, <2>1, SoundSaved
       DEF PruneRoutes, SoundInv, vars, memory, disk, job, ghost, bounds, Sound
<1>5. CASE StoreStep
  BY <1>1, <1>5, SoundStore
<1>6. CASE NewProcess
  BY <1>1, <1>6 DEF NewProcess, Crash, Reboot, LoseMemory, SoundInv, disk
<1>7. ASSUME NEW d \in Device, 
              \/ AddClient(d) \/ RemoveClient(d) \/ RemoveByCommand(d) \/ AddRoute(d) \/ DeleteRoute(d)
      PROVE  SoundInv'
  <2>1. /\ Memory \in Registry
        /\ [Memory EXCEPT !.clients = @ \cup {d}, !.records = @ \cup {d}] \in Registry
        /\ Without(d) \in Registry /\ [Without(d) EXCEPT !.routes = @ \ {d}] \in Registry
        /\ [Memory EXCEPT !.routes = @ \cup {d}] \in Registry
        /\ [Memory EXCEPT !.routes = @ \ {d}] \in Registry
    BY DEF Without, Memory, Registry, RegistryInv, StateTypeOK
  <2> QED
    BY <1>2, <1>7, <2>1 DEF AddClient, RemoveClient, RemoveByCommand, AddRoute, DeleteRoute
<1>8. CASE RetryChange
  BY <1>2, <1>8 DEF RetryChange, RegistryInv, StateTypeOK
<1> QED
  BY <1>3, <1>4, <1>5, <1>6, <1>7, <1>8 DEF StateStep

-----------------------------------------------------------------------------
(* An orderly exit and the start after it.                                 *)

\* After an orderly exit without errors each file holds the newest document.
LEMMA StoppedFiles ==
  ASSUME StoreInv, StopInv, RegistryInv, SoundInv, Sound,
         phase = "stopped", serving = "up", ~rejected, NEW p \in Path
  PROVE  OnDisk(p) = Document(p, Memory) /\ primary[p] \in Nat
<1>1. holder = "none" /\ pending = Empty /\ todo = {} /\ failed = {}
  BY DEF StopInv, StoreInv, JobInv, Sound
<1>2. latest[p] > 0 /\ content[p][latest[p]] = Document(p, Memory)
  BY DEF RegistryInv, SnapshotInv
<1>3. primary[p] \in Nat /\ p \notin gaveUp
  BY <1>1, <1>2 DEF SoundInv, Empty
<1>4. primary[p] = latest[p]
  BY <1>1, <1>3 DEF StoreInv, NewestInv, Empty
<1> QED
  BY <1>2, <1>3, <1>4 DEF OnDisk

\* The new process finds the registry of the old one.
LEMMA CleanRestart ==
  ASSUME StoreInv, StopInv, RegistryInv, SoundInv, Sound, NewProcess, clean'
  PROVE  Loaded' = atStop' /\ ~Inconsistent'
<1>1. /\ phase = "stopped" /\ serving = "up" /\ ~rejected
      /\ atStop' = Memory /\ UNCHANGED <<primary, content>>
  BY DEF NewProcess, Crash, Reboot, LoseMemory, disk
<1>2. Memory \in Registry /\ records \subseteq clients
  BY DEF RegistryInv, StateTypeOK
<1>3. /\ OnDisk(RoutesFile) = routes /\ OnDisk(SubsystemFile) = records
      /\ OnDisk(ServerFile) = clients /\ primary[ServerFile] \in Nat
  BY <1>1, <1>2, StoppedFiles, Files, Documents DEF Memory
<1>4. \A p \in Path : OnDisk(p)' = OnDisk(p)
  BY <1>1 DEF OnDisk
<1> QED
  BY <1>1, <1>2, <1>3, <1>4, Files DEF Loaded, Inconsistent, Memory

\* Before it has loaded the files, the new process writes none.
LEMMA LoadingDisk ==
  ASSUME StoreInv, RegistryInv, SoundInv, Sound, Sound', serving = "loading", StoreStep
  PROVE  UNCHANGED <<primary, content, atStop, clean>>
<1>1. todo = {} /\ step = "idle" /\ current = None
  BY DEF RegistryInv, LoadingInv, StoreInv, JobInv
<1>2. ~\E p \in Path, d \in {Absent, Corrupt} : DamageFile(p, d)
  BY DEF DamageFile, Sound
<1>3. ~\E p \in Path : RepairFile(p)
  BY DEF RepairFile, SoundInv, StoreInv, TypeOK, File
<1> QED
  BY <1>1, <1>2, <1>3 DEF StoreStep, BeginFlush, BeginFinalFlush, TakePending, EndFlush, CheckFile,
     SaveBackup, ReplacePrimary, FirstBackup, BeginShutdown, disk

\* No step breaks it.
LEMMA CleanStep ==
  ASSUME StoreInv, StopInv, RegistryInv, SoundInv, CleanInv, StateStep
  PROVE  CleanInv'
<1> SUFFICES ASSUME Sound', clean', serving' = "loading" PROVE Loaded' = atStop' /\ ~Inconsistent'
  BY DEF CleanInv
<1>1. Sound
  BY SoundBefore
<1>2. CASE NewProcess
  BY <1>1, <1>2, CleanRestart
<1>3. CASE StoreStep
  <2>1. serving = "loading"
    BY <1>3 DEF StoreStep
  <2>2. UNCHANGED <<primary, content, atStop, clean>>
    BY <1>1, <1>3, <2>1, LoadingDisk
  <2>3. Loaded = atStop /\ ~Inconsistent
    BY <1>1, <2>1, <2>2 DEF CleanInv
  <2> QED
    BY <2>2, <2>3 DEF Loaded, Inconsistent, OnDisk
<1> QED
  BY <1>2, <1>3 DEF StateStep, AddClient, RemoveClient, RemoveByCommand, AddRoute, DeleteRoute, RetryChange, Request,
     LoadState, RefuseStart, PruneRoutes

-----------------------------------------------------------------------------
(* The theorems.                                                           *)

\* A fresh installation has no files and no registry.
LEMMA StateInitInv == StateInit => StateInv
<1> SUFFICES ASSUME StateInit PROVE StateInv
  OBVIOUS
<1> USE DEF StateInit
<1>1. StoreInv /\ StopInv
  BY InitInv DEF Init, StopInv
<1>2. StateTypeOK /\ \A p \in Path : latest[p] <= MaxVersion
  <2>1. Memory \in Registry /\ records \subseteq clients /\ atStop \in Registry
    BY DEF Memory, Registry, NoRegistry
  <2>2. content \in [Path -> [1 .. MaxVersion -> SUBSET Device]] /\ durable \in SUBSET Device
    OBVIOUS
  <2>3. \A p \in Path : latest[p] <= MaxVersion
    BY DEF Init
  <2> QED
    BY <1>1, <2>1, <2>2, <2>3 DEF StateTypeOK, StoreInv
<1>3. LoadingInv /\ SnapshotInv /\ NoDanglingRoute
  BY DEF LoadingInv, SnapshotInv, NoDanglingRoute, Init
<1>4. SoundInv
  BY DEF SoundInv, Init
<1>5. \A p \in Path : OnDisk(p) = {}
  BY DEF OnDisk, Init
<1>6. CleanInv
  BY <1>5, Files DEF CleanInv, Loaded, Inconsistent, NoRegistry
<1>7. DurableInv
  BY DEF DurableInv
<1> QED
  BY <1>1, <1>2, <1>3, <1>4, <1>6, <1>7 DEF StateInv, RegistryInv

\* No step breaks the invariant.
LEMMA StateNextInv == StateInv /\ [StateNext]_allVars => StateInv'
<1> SUFFICES ASSUME StateInv, [StateNext]_allVars PROVE StateInv'
  OBVIOUS
<1> USE DEF StateInv
<1>1. CASE StateNext
  <2>1. StoreInv' /\ StopInv' /\ RegistryInv'
    BY <1>1, RuntimeStoreInv, RegistryStep DEF StateNext
  <2>2. SoundInv' /\ CleanInv'
    BY <1>1, SoundStep, CleanStep DEF StateNext
  <2>3. DurableInv'
    BY <1>1, <2>1, DurableStep DEF RegistryInv, StateTypeOK
  <2> QED
    BY <2>1, <2>2, <2>3
<1>2. CASE UNCHANGED allVars
  <2>1. StoreInv' /\ StopInv'
    BY <1>2, StoreNextInv DEF allVars
  <2>2. RegistryInv'
    BY <1>2, <2>1 DEF allVars, stateVars, registry, vars, memory, job, ghost, RegistryInv, StoreInv,
       StateTypeOK, LoadingInv, SnapshotInv, NoDanglingRoute, Memory, Empty, Document
  <2>3. SoundInv'
    BY <1>2 DEF allVars, stateVars, vars, memory, disk, job, bounds, ghost, SoundInv, Sound
  <2>4. CleanInv' /\ DurableInv'
    BY <1>2 DEF allVars, stateVars, vars, disk, bounds, CleanInv, Sound, Loaded, Inconsistent, OnDisk,
       DurableInv, Surviving, Established
  <2> QED
    BY <2>1, <2>2, <2>3, <2>4
<1> QED
  BY <1>1, <1>2

\* It holds in every state of every behaviour.
THEOREM StateInvariant == StateSpec => []StateInv
<1>1. StateInit => StateInv
  BY StateInitInv
<1>2. StateInv /\ [StateNext]_allVars => StateInv'
  BY StateNextInv
<1> QED
  BY <1>1, <1>2, PTL DEF StateSpec

\* For any number of devices, documents, crashes, errors and damages: once the
\* server is up, a route without its client is one that a request to this very
\* server has left so (load_state, prune_invalid_routes_for_clients and
\* prune_routes_for_client_change).
THEOREM RoutesReferenceClients == StateSpec => []NoDanglingRoute
<1>1. StateInv => NoDanglingRoute
  BY DEF StateInv, RegistryInv
<1> QED
  BY <1>1, StateInvariant, PTL

\* Whatever mixture of old, new, missing and damaged files a start finds: if it
\* is accepted, each durable registration is back with its record.
THEOREM StartKeepsDurable == StateSpec => LoadKeepsDurable
<1>1. ASSUME StateInv, StateStep, serving = "loading", serving' = "loaded"
      PROVE  durable \subseteq clients' \cap records'
  <2>1. Become(Loaded) /\ \A p \in Path : ~FileRejected(p)
    BY <1>1 DEF StateStep, AddClient, RemoveClient, RemoveByCommand, AddRoute, DeleteRoute, RetryChange, Request, LoadState,
       RefuseStart, PruneRoutes, StoreStep, NewProcess
  <2>2. clients' = OnDisk(ServerFile) /\ records' = OnDisk(SubsystemFile)
    BY <2>1 DEF Become, Loaded
  <2>3. ASSUME durable # {}, NEW p \in {SubsystemFile, ServerFile} PROVE primary[p] \in Nat
    <3>1. p \in Path /\ Established(p)
      BY <1>1, <2>3, Files DEF StateInv, DurableInv
    <3>2. primary[p] \in File /\ ~FileRejected(p)
      BY <1>1, <2>1, <3>1 DEF StateInv, StoreInv, TypeOK
    <3> QED
      BY <3>1, <3>2 DEF FileRejected, MissingPrimary, Established, File
  <2>4. ASSUME NEW d \in durable PROVE d \in OnDisk(ServerFile) \cap OnDisk(SubsystemFile)
    BY <1>1, <2>3 DEF StateInv, DurableInv, Surviving
  <2> QED
    BY <2>2, <2>4
<1> DEFINE Kept == serving = "loading" /\ serving' = "loaded" => durable \subseteq clients' \cap records'
<1>2. StateInv /\ [StateNext]_allVars => [Kept]_allVars
  BY <1>1 DEF StateNext
<1> QED
  BY <1>2, StateInvariant, PTL DEF StateSpec, LoadKeepsDurable

\* After an orderly exit without errors the next start is accepted, and brings
\* back the registry of the exit.
THEOREM RestartRestores == StateSpec => CleanRestartRestores
<1> DEFINE Restored ==
      (serving = "loading" /\ clean /\ serving' # "loading" /\ phase' = "up"
       /\ faults' = 0 /\ damage = 0) => serving' = "loaded" /\ Memory' = atStop
<1>1. ASSUME StateInv, StateStep, serving = "loading", clean, serving' # "loading",
             faults' = 0, damage = 0
      PROVE  serving' = "loaded" /\ Memory' = atStop
  <2>1. LoadState
    BY <1>1 DEF StateStep, AddClient, RemoveClient, RemoveByCommand, AddRoute, DeleteRoute, RetryChange, Request,
       PruneRoutes, StoreStep, NewProcess
  <2>2. UNCHANGED bounds /\ Sound
    <3>1. faults \in Nat
      BY <1>1 DEF StateInv, StoreInv, TypeOK
    <3>2. Saved(Loaded) => UNCHANGED bounds
      BY DEF Saved, WriteBatch
    <3>3. ~Fault
      BY <1>1, <3>1 DEF Fault
    <3> QED
      BY <1>1, <2>1, <3>2, <3>3 DEF LoadState, vars, bounds, Sound
  <2>3. Loaded = atStop /\ ~Inconsistent /\ \A p \in Path : ~FileRejected(p)
    BY <1>1, <2>2 DEF StateInv, CleanInv, SoundInv, FileRejected, MissingPrimary
  <2>4. ~Fault
    BY <1>1, <2>2 DEF Fault, bounds, Sound
  <2>5. serving' = "loaded" /\ Become(Loaded)
    BY <2>1, <2>3, <2>4 DEF LoadState
  <2> QED
    BY <2>3, <2>5 DEF Become, Loaded, Memory
<1>2. StateInv /\ [StateNext]_allVars => [Restored]_allVars
  BY <1>1 DEF StateNext
<1> QED
  BY <1>2, StateInvariant, PTL DEF StateSpec, CleanRestartRestores
=============================================================================
