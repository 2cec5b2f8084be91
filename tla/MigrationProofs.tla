--------------------------- MODULE MigrationProofs ---------------------------
(***************************************************************************)
(* Proofs about Matter and the tools that move the files of the server, for *)
(* any files, nodes, threads, requests and bounds, whatever fails, crashes  *)
(* or overlaps: an inductive invariant of each component, and of the        *)
(* behaviours MCMigrations checks a small instance of.                      *)
(***************************************************************************)
EXTENDS MCMigrations, SequenceTheorems, FiniteSetTheorems, TLAPS

-----------------------------------------------------------------------------
(* The files that are copied out of the worktree: nothing is overwritten, a *)
(* bad copy needs a write at the wrong moment, success means complete.     *)

Version == 0 .. MaxWrites
Phase == {"idle", "copy", "staged", "done", "failed", "killed"}
RunRec == [phase : Phase, seen : [Files -> Version], have : SUBSET Files, todo : SUBSET Files,
           file : Files \cup {None}, read : Version]
CopyRec == [data : 0 .. Torn, time : Version]
UsedRec == [writes : Version, starts : 0 .. MaxStarts, crashes : 0 .. MaxCrashes]

-----------------------------------------------------------------------------
(* The copied files: the inductive invariant.                              *)

Shape ==
  /\ tool \in {"recordings", "packages", "state"} /\ service \in BOOLEAN
  /\ legacy \in [Files -> Version]
  /\ dest \in [Files -> CopyRec \cup {None}]
  /\ used \in UsedRec
  /\ run \in [Runs -> RunRec]

\* A run has a file in hand only between staging and linking.
StagedHasFile == \A r \in Runs : run[r].phase = "staged" <=> run[r].file # None

\* Before the first write every manifest and everything read is what the files
\* still are.
UntilWritten ==
  used.writes = 0 =>
    \A r \in Runs : /\ run[r].seen = legacy
                    /\ run[r].phase = "staged" => run[r].read = legacy[run[r].file]

\* Before the first write the files are what they were at the start.
Untouched == used.writes = 0 => legacy = [f \in Files |-> 0]

CopiesInv == Shape /\ StagedHasFile /\ UntilWritten /\ Untouched /\ GoodCopies

-----------------------------------------------------------------------------
(* The records.                                                            *)

LEMMA Numbers ==
  /\ MaxWrites \in Nat /\ MaxStarts \in Nat /\ MaxCrashes \in Nat
  /\ 0 \in Version /\ Version \subseteq 0 .. Torn /\ Torn \notin Version /\ Torn \in 0 .. Torn
  /\ None \notin CopyRec /\ None \notin Files
BY CopiesAssumption DEF Version, Torn, CopyRec

LEMMA IdleShape == Idle \in RunRec /\ Idle.phase = "idle" /\ Idle.file = None
                   /\ Idle.seen = [f \in Files |-> 0]
BY Numbers DEF Idle, RunRec, Phase

LEMMA CopyShape ==
  ASSUME NEW data \in 0 .. Torn, NEW time \in Version
  PROVE  Copy(data, time) \in CopyRec /\ Copy(data, time).data = data /\ Copy(data, time) # None
<1>1. Copy(data, time) \in CopyRec /\ Copy(data, time).data = data
  BY Numbers DEF Copy, CopyRec
<1> QED  BY <1>1, Numbers

\* A step of one run that copies nothing and leaves what is in hand.
LEMMA RunStep ==
  ASSUME CopiesInv, NEW r \in Runs, NEW n \in RunRec, run' = [run EXCEPT ![r] = n],
         UNCHANGED <<tool, legacy, dest, service>>,
         used' \in UsedRec, used'.writes = used.writes,
         n.phase = "staged" <=> n.file # None,
         used.writes = 0 => /\ n.seen = legacy
                            /\ n.phase = "staged" => n.read = legacy[n.file]
  PROVE  CopiesInv'
<1>1. Shape'
  BY DEF CopiesInv, Shape
<1>2. \A q \in Runs : run'[q] = IF q = r THEN n ELSE run[q]
  BY DEF CopiesInv, Shape
<1>3. StagedHasFile'
  BY <1>2 DEF CopiesInv, StagedHasFile
<1>4. UntilWritten'
  BY <1>2 DEF CopiesInv, UntilWritten
<1>5. Untouched'
  BY DEF CopiesInv, Untouched
<1>6. GoodCopies'
  BY DEF CopiesInv, GoodCopies, Present, Same, Copy
<1> QED  BY <1>1, <1>3, <1>4, <1>5, <1>6 DEF CopiesInv

\* A step that ends a run, or kills it.
LEMMA EndedRun ==
  ASSUME CopiesInv, NEW r \in Runs, NEW phase \in {"failed", "killed"},
         run' = [run EXCEPT ![r] = [Idle EXCEPT !.phase = phase]],
         UNCHANGED <<tool, legacy, dest, service>>, used' \in UsedRec, used'.writes = used.writes
  PROVE  CopiesInv'
<1> DEFINE n == [Idle EXCEPT !.phase = phase]
<1>1. n \in RunRec /\ n.phase = phase /\ n.file = None /\ n.seen = [f \in Files |-> 0]
  BY IdleShape DEF RunRec, Phase
<1> HIDE DEF n
<1>2. used.writes = 0 => n.seen = legacy
  BY <1>1 DEF CopiesInv, Untouched
<1>3. run' = [run EXCEPT ![r] = n]
  BY DEF n
<1> QED  BY <1>1, <1>2, <1>3, RunStep

-----------------------------------------------------------------------------
(* One lemma for each operation.                                           *)

LEMMA UsedStays ==
  ASSUME CopiesInv
  PROVE  /\ used \in UsedRec /\ used.writes \in Nat
         /\ Spend("starts", MaxStarts) => used' \in UsedRec /\ used'.writes = used.writes
         /\ Spend("crashes", MaxCrashes) => used' \in UsedRec /\ used'.writes = used.writes
         /\ Spend("writes", MaxWrites) => /\ used' \in UsedRec /\ used'.writes = used.writes + 1
<1>1. used \in UsedRec
  BY DEF CopiesInv, Shape
<1> QED  BY <1>1, Numbers DEF UsedRec, Version, Spend

LEMMA BeginInv ==
  ASSUME CopiesInv, NEW r \in Runs, Begin(r)
  PROVE  CopiesInv'
<1> DEFINE n == [Idle EXCEPT !.phase = "copy", !.seen = legacy, !.todo = Files, !.have = Present]
<1>1. n \in RunRec /\ n.phase = "copy" /\ n.file = None /\ n.seen = legacy
  <2>1. legacy \in [Files -> Version] /\ Present \subseteq Files
    BY DEF CopiesInv, Shape, Present
  <2> QED  BY <2>1, IdleShape DEF RunRec, Phase
<1>2. run' = [run EXCEPT ![r] = n] /\ UNCHANGED <<tool, legacy, dest, service, used>>
  BY DEF Begin
<1> HIDE DEF n
<1> QED  BY <1>1, <1>2, UsedStays, RunStep

LEMMA FailInv ==
  ASSUME CopiesInv, NEW r \in Runs, Fail(r), UNCHANGED <<tool, legacy, dest, service, used>>
  PROVE  CopiesInv'
BY UsedStays, EndedRun DEF Fail

LEMMA ValidateInv ==
  ASSUME CopiesInv, NEW r \in Runs, NEW f \in Files, Validate(r, f)
  PROVE  CopiesInv'
<1>1. UNCHANGED <<tool, legacy, dest, service, used>>
  BY DEF Validate
<1>2. CASE Fail(r)
  BY <1>1, <1>2, FailInv
<1>3. CASE run' = [run EXCEPT ![r].todo = @ \ {f}]
  <2> DEFINE n == [run[r] EXCEPT !.todo = @ \ {f}]
  <2>1. run[r] \in RunRec
    BY DEF CopiesInv, Shape
  <2>2. n \in RunRec /\ n.phase = run[r].phase /\ n.file = run[r].file /\ n.seen = run[r].seen
        /\ n.read = run[r].read
    BY <2>1 DEF RunRec
  <2>3. run' = [run EXCEPT ![r] = n]
    BY <1>3 DEF CopiesInv, Shape
  <2> HIDE DEF n
  <2>4. n.phase = "staged" <=> n.file # None
    BY <2>2 DEF CopiesInv, StagedHasFile
  <2>5. used.writes = 0 => n.seen = legacy /\ (n.phase = "staged" => n.read = legacy[n.file])
    BY <2>2 DEF CopiesInv, UntilWritten
  <2> QED  BY <1>1, <2>2, <2>3, <2>4, <2>5, UsedStays, RunStep
<1> QED  BY <1>2, <1>3 DEF Validate

LEMMA StageInv ==
  ASSUME CopiesInv, NEW r \in Runs, NEW f \in Files, Stage(r, f)
  PROVE  CopiesInv'
<1> DEFINE x == IF tool = "state" THEN run[r].seen[f] ELSE legacy[f]
<1> DEFINE n == [run[r] EXCEPT !.phase = "staged", !.file = f, !.read = x]
<1>1. run[r] \in RunRec /\ legacy \in [Files -> Version]
  BY DEF CopiesInv, Shape
<1>2. x \in Version
  BY <1>1 DEF RunRec
<1>3. used.writes = 0 => x = legacy[f] /\ run[r].seen = legacy
  BY DEF CopiesInv, UntilWritten
<1>4. run' = [run EXCEPT ![r] = n] /\ UNCHANGED <<tool, legacy, dest, service, used>>
  BY DEF Stage, CopiesInv, Shape
<1> HIDE DEF x
<1>5. n \in RunRec /\ n.phase = "staged" /\ n.file = f /\ n.seen = run[r].seen /\ n.read = x
  BY <1>1, <1>2 DEF RunRec, Phase
<1> HIDE DEF n
<1>6. n.file # None
  BY <1>5, Numbers
<1>7. used.writes = 0 => n.seen = legacy /\ (n.phase = "staged" => n.read = legacy[n.file])
  BY <1>3, <1>5
<1> QED  BY <1>4, <1>5, <1>6, <1>7, UsedStays, RunStep

\* A copy is linked only where nothing is.
LEMMA LinkInv ==
  ASSUME CopiesInv, NEW r \in Runs, Link(r)
  PROVE  CopiesInv'
<1> DEFINE f == run[r].file
<1>1. run[r] \in RunRec /\ run[r].phase = "staged" /\ f \in Files
      /\ UNCHANGED <<tool, legacy, service, used>>
  BY DEF Link, CopiesInv, Shape, StagedHasFile, RunRec
<1>2. CASE dest[f] # None
  BY <1>1, <1>2, FailInv DEF Link
<1>3. CASE dest[f] = None
  <2>1. dest' = [dest EXCEPT ![f] = Made(r)]
    BY <1>3 DEF Link
  <2>2. PICK n \in RunRec : /\ run' = [run EXCEPT ![r] = n]
                            /\ n.phase # "staged" /\ n.file = None
                            /\ used.writes = 0 => n.seen = legacy
    <3>1. CASE Fail(r)
      <4> DEFINE m == [Idle EXCEPT !.phase = "failed"]
      <4>1. m \in RunRec /\ m.phase = "failed" /\ m.file = None /\ m.seen = [g \in Files |-> 0]
        BY IdleShape DEF RunRec, Phase
      <4> QED  BY <3>1, <4>1 DEF Fail, CopiesInv, Untouched
    <3>2. CASE run' = [run EXCEPT ![r] = Linked(r)]
      <4>1. Linked(r) \in RunRec /\ Linked(r).phase = "copy" /\ Linked(r).file = None
            /\ Linked(r).seen = run[r].seen
        BY <1>1 DEF RunRec, Phase, Linked
      <4> QED  BY <3>2, <4>1 DEF CopiesInv, UntilWritten
    <3> QED  BY <1>3, <3>1, <3>2 DEF Link
  <2>3. \A q \in Runs : run'[q] = IF q = r THEN n ELSE run[q]
    BY <2>2 DEF CopiesInv, Shape
  <2>4. /\ legacy \in [Files -> Version] /\ run[r].seen \in [Files -> Version]
        /\ run[r].read \in Version /\ dest \in [Files -> CopyRec \cup {None}] /\ used.writes \in Nat
    BY <1>1, UsedStays DEF CopiesInv, Shape, RunRec
  <2>5. /\ Data(r) \in 0 .. Torn
        /\ Data(r) = Torn => tool # "state" /\ run[r].read # legacy[f]
    BY <2>4, Numbers DEF Data
  <2>6. Made(r) \in CopyRec /\ Made(r).data = Data(r)
    BY <1>1, <2>4, <2>5, CopyShape DEF Made
  <2>7. Made(r).data = Torn => tool # "state" /\ used.writes > 0
    BY <1>1, <2>4, <2>5, <2>6 DEF CopiesInv, UntilWritten
  <2>8. used.writes = 0 => Made(r) = Copy(legacy[f], legacy[f])
    BY <1>1 DEF CopiesInv, UntilWritten, Made, Data
  <2>9. \A g \in Files : dest'[g] = IF g = f THEN Made(r) ELSE dest[g]
    BY <2>1, <2>4
  <2>10. Shape'
    BY <1>1, <2>1, <2>2, <2>6 DEF CopiesInv, Shape
  <2>11. StagedHasFile'
    BY <2>2, <2>3 DEF CopiesInv, StagedHasFile
  <2>12. UntilWritten'
    BY <1>1, <2>2, <2>3 DEF CopiesInv, UntilWritten
  <2>13. Untouched'
    BY <1>1 DEF CopiesInv, Untouched
  <2>14. GoodCopies'
    <3>1. SUFFICES ASSUME NEW g \in Files, dest'[g] # None
                   PROVE  /\ dest'[g].data = Torn => tool # "state" /\ used.writes > 0
                          /\ used.writes = 0 => dest'[g] = Copy(legacy[g], legacy[g])
      BY <1>1 DEF GoodCopies, Present, Same, Copy
    <3>2. CASE g = f
      BY <2>7, <2>8, <2>9, <3>2
    <3>3. CASE g # f
      BY <2>9, <3>1, <3>3 DEF CopiesInv, GoodCopies, Present, Same
    <3> QED  BY <3>2, <3>3
  <2> QED  BY <2>10, <2>11, <2>12, <2>13, <2>14 DEF CopiesInv
<1> QED  BY <1>2, <1>3

LEMMA FinishInv ==
  ASSUME CopiesInv, NEW r \in Runs, Finish(r)
  PROVE  CopiesInv'
<1>1. UNCHANGED <<tool, legacy, dest, service, used>> /\ run[r].phase = "copy"
  BY DEF Finish
<1>2. CASE Fail(r)
  BY <1>1, <1>2, FailInv
<1>3. CASE run' = [run EXCEPT ![r].phase = "done"]
  <2> DEFINE n == [run[r] EXCEPT !.phase = "done"]
  <2>1. run[r] \in RunRec
    BY DEF CopiesInv, Shape
  <2>2. n \in RunRec /\ n.phase = "done" /\ n.file = run[r].file /\ n.seen = run[r].seen
    BY <2>1 DEF RunRec, Phase
  <2>3. run' = [run EXCEPT ![r] = n]
    BY <1>3 DEF CopiesInv, Shape
  <2> HIDE DEF n
  <2>4. n.file = None
    BY <1>1, <2>2 DEF CopiesInv, StagedHasFile
  <2>5. used.writes = 0 => n.seen = legacy
    BY <2>2 DEF CopiesInv, UntilWritten
  <2> QED  BY <1>1, <2>2, <2>3, <2>4, <2>5, UsedStays, RunStep
<1> QED  BY <1>2, <1>3 DEF Finish

LEMMA CrashInv ==
  ASSUME CopiesInv, NEW r \in Runs, Crash(r)
  PROVE  CopiesInv'
BY UsedStays, EndedRun DEF Crash

\* The preflight, its end and the service touch no file and no run.
LEMMA OutsideInv ==
  ASSUME CopiesInv, Preflight \/ Expire \/ StopService \/ StartService
  PROVE  CopiesInv'
<1>1. UNCHANGED <<tool, legacy, dest, run>> /\ service' \in BOOLEAN
  BY DEF CopiesInv, Shape, Preflight, Expire, StopService, StartService
<1>2. used' \in UsedRec /\ used'.writes = used.writes
  BY UsedStays DEF Preflight, Expire, StopService, StartService
<1> QED  BY <1>1, <1>2 DEF CopiesInv, Shape, StagedHasFile, UntilWritten, Untouched, GoodCopies,
            Present, Same, Copy

\* From the first write on a copy may be what it likes.
LEMMA WriteInv ==
  ASSUME CopiesInv, NEW f \in Files, Write(f)
  PROVE  CopiesInv'
<1>1. /\ used' \in UsedRec /\ used'.writes = used.writes + 1 /\ used.writes \in Nat
      /\ UNCHANGED <<tool, dest, service, run>>
      /\ legacy' = [legacy EXCEPT ![f] = used'.writes]
  BY UsedStays DEF Write
<1>2. used'.writes \in Version /\ used'.writes # 0 /\ used'.writes > 0
  BY <1>1 DEF UsedRec
<1>3. legacy' \in [Files -> Version]
  BY <1>1, <1>2 DEF CopiesInv, Shape
<1>4. Shape'
  BY <1>1, <1>3 DEF CopiesInv, Shape
<1>5. StagedHasFile' /\ UntilWritten' /\ Untouched'
  BY <1>1, <1>2 DEF CopiesInv, StagedHasFile, UntilWritten, Untouched
<1>6. GoodCopies'
  BY <1>1, <1>2 DEF CopiesInv, GoodCopies, Present
<1> QED  BY <1>4, <1>5, <1>6 DEF CopiesInv

-----------------------------------------------------------------------------
(* The theorems.                                                           *)

LEMMA InitInv == Init => CopiesInv
<1> SUFFICES ASSUME Init PROVE CopiesInv
  OBVIOUS
<1>1. Shape
  BY Numbers, IdleShape, CopiesAssumption DEF Init, Shape, UsedRec, Version
<1>2. StagedHasFile /\ UntilWritten /\ Untouched
  BY IdleShape DEF Init, StagedHasFile, UntilWritten, Untouched
<1>3. GoodCopies
  BY DEF Init, GoodCopies, Present
<1> QED  BY <1>1, <1>2, <1>3 DEF CopiesInv

LEMMA NextInv == CopiesInv /\ [Next]_vars => CopiesInv'
<1> SUFFICES ASSUME CopiesInv, [Next]_vars PROVE CopiesInv'
  OBVIOUS
<1>1. CASE UNCHANGED vars
  BY <1>1 DEF vars, CopiesInv, Shape, StagedHasFile, UntilWritten, Untouched, GoodCopies, Present,
     Same, Copy
<1> QED  BY <1>1, OutsideInv, BeginInv, ValidateInv, StageInv, LinkInv, FinishInv, CrashInv, WriteInv
         DEF Next, Steps

\* The invariant holds in every state of the tools.
THEOREM CopiesInvariant == Spec => []CopiesInv
BY InitInv, NextInv, PTL DEF Spec

LEMMA CopiesTyped == CopiesInv => TypeOK
<1> SUFFICES ASSUME CopiesInv PROVE TypeOK
  OBVIOUS
<1>1. \A r \in Runs : run[r] \in RunRec
  BY DEF CopiesInv, Shape
<1> QED  BY <1>1 DEF CopiesInv, Shape, StagedHasFile, TypeOK, RunRec, Phase, CopyRec, Version

\* Type correctness.
THEOREM CopiesTypes == Spec => []TypeOK
BY CopiesTyped, CopiesInvariant, PTL

\* Only a link changes a destination, and it makes a file where none is.
LEMMA NothingReplaced == CopiesInv /\ [Next]_vars => NeverOverwritten
<1> SUFFICES ASSUME CopiesInv, [Next]_vars, NEW f \in Files, dest[f] # None
             PROVE  dest'[f] = dest[f]
  BY DEF NeverOverwritten, Present
<1>1. ASSUME NEW r \in Runs, Link(r) PROVE dest'[f] = dest[f]
  BY <1>1 DEF Link, CopiesInv, Shape
<1>2. CASE UNCHANGED dest
  BY <1>2
<1> QED  BY <1>1, <1>2 DEF Next, Steps, Preflight, Expire, StopService, StartService, Begin, Validate,
            Stage, Finish, Crash, Write, vars

\* Only the last step of a run reports success.
LEMMA SuccessIsComplete == CopiesInv /\ [Next]_vars => DoneIsCopied
<1> SUFFICES ASSUME CopiesInv, [Next]_vars, NEW r \in Runs,
                    run[r].phase # "done", run'[r].phase = "done"
             PROVE  /\ \A f \in Files : dest'[f] # None /\ dest'[f].data = run[r].seen[f]
                    /\ tool # "packages" => legacy' = run[r].seen
  BY DEF DoneIsCopied
<1>1. Finish(r) /\ run' = [run EXCEPT ![r].phase = "done"]
  <2>1. run \in [Runs -> RunRec] /\ \A q \in Runs : run[q] \in RunRec
    BY DEF CopiesInv, Shape
  <2>2. ASSUME NEW q \in Runs, NEW n \in RunRec, run' = [run EXCEPT ![q] = n], n.phase # "done"
        PROVE  FALSE
    BY <2>1, <2>2
  <2>3. ASSUME NEW q \in Runs, Fail(q) PROVE FALSE
    <3> DEFINE n == [Idle EXCEPT !.phase = "failed"]
    <3>1. n \in RunRec /\ n.phase = "failed"
      BY IdleShape DEF RunRec, Phase
    <3>2. run' = [run EXCEPT ![q] = n]
      BY <2>3 DEF Fail
    <3> HIDE DEF n
    <3> QED  BY <2>2, <3>1, <3>2
  <2>4. ASSUME NEW q \in Runs, Begin(q) PROVE FALSE
    BY <2>1, <2>4 DEF Begin, Idle
  <2>5. ASSUME NEW q \in Runs, NEW f \in Files, Validate(q, f) PROVE FALSE
    BY <2>1, <2>3, <2>5 DEF Validate, RunRec
  <2>6. ASSUME NEW q \in Runs, NEW f \in Files, Stage(q, f) PROVE FALSE
    BY <2>1, <2>6 DEF Stage, RunRec
  <2>7. ASSUME NEW q \in Runs, Link(q) PROVE FALSE
    <3> DEFINE n == Linked(q)
    <3>1. run' = [run EXCEPT ![q] = n]
      BY <2>3, <2>7 DEF Link
    <3>2. run[q] \in RunRec
      BY <2>1
    <3>3. n \in RunRec /\ n.phase = "copy"
      BY <3>2 DEF Linked, RunRec, Phase
    <3> HIDE DEF n
    <3> QED  BY <2>2, <3>1, <3>3
  <2>8. ASSUME NEW q \in Runs, Crash(q) PROVE FALSE
    BY <2>1, <2>8 DEF Crash, Idle
  <2>9. ASSUME NEW q \in Runs, Finish(q) PROVE q = r /\ run' = [run EXCEPT ![r].phase = "done"]
    <3>1. run' = [run EXCEPT ![q].phase = "done"]
      BY <2>3, <2>9 DEF Finish
    <3> QED  BY <2>1, <3>1 DEF RunRec
  <2>10. run' # run
    OBVIOUS
  <2> QED  BY <2>4, <2>5, <2>6, <2>7, <2>8, <2>9, <2>10
           DEF Next, Steps, Preflight, Expire, StopService, StartService, Write, vars
<1>2. ~Fail(r)
  <2>1. run \in [Runs -> RunRec]
    BY DEF CopiesInv, Shape
  <2> QED  BY <2>1, IdleShape DEF Fail, Idle
<1>3. AllCopied(r) /\ SourceUnchanged(r) /\ UNCHANGED <<tool, legacy, dest>>
  BY <1>1, <1>2 DEF Finish
<1>4. ASSUME NEW f \in Files PROVE dest[f] # None /\ dest[f].data = run[r].seen[f]
  <2>1. run[r].seen \in [Files -> Version]
    BY DEF CopiesInv, Shape, RunRec
  <2>2. dest[f] = Copy(run[r].seen[f], run[r].seen[f]) /\ run[r].seen[f] \in Version
    BY <1>3, <2>1 DEF AllCopied, Same
  <2>3. run[r].seen[f] \in 0 .. Torn
    BY <2>2, Numbers
  <2> QED  BY <2>2, <2>3, CopyShape
<1> QED  BY <1>3, <1>4 DEF SourceUnchanged

\* Whatever runs overlap and are killed, and whatever the service writes: no
\* file outside the worktree is replaced, a copy is torn only by a write, never
\* by the state tool, and a run that reports success has copied every file.
THEOREM CopyingIsSafe == Spec => CopiesAreSafe
<1>1. CopiesInv => GoodCopies
  BY DEF CopiesInv
<1>2. CopiesInv /\ [Next]_vars => [NeverOverwritten /\ DoneIsCopied]_vars
  BY NothingReplaced, SuccessIsComplete
<1> QED  BY <1>1, <1>2, CopiesInvariant, PTL DEF Spec, CopiesAreSafe

-----------------------------------------------------------------------------
(* The retirement of keys.                                                 *)

\* Until something changes, what the cleanup has cleaned is verified.
KeysInv == Keys!TypeOK /\ Keys!CleanedIsVerified

LEMMA KeysInit == Keys!Init => KeysInv
<1> SUFFICES ASSUME Keys!Init PROVE KeysInv
  OBVIOUS
<1>1. Keys!TypeOK
  BY MigrationsAssumption DEF Keys!Init, Keys!TypeOK, Keys!Enrolment
<1>2. Keys!CleanedIsVerified
  BY DEF Keys!Init, Keys!CleanedIsVerified
<1> QED
  BY <1>1, <1>2 DEF KeysInv

\* What cleaning makes of a key record is a record.
LEMMA RecordEdited ==
  ASSUME NEW r \in Keys!Record
  PROVE  /\ r # None
         /\ \A p \in Keys!PendingSlot : [r EXCEPT !.pending = p] \in Keys!Record
         /\ \A v \in BOOLEAN : [r EXCEPT !.verified = v] \in Keys!Record
         /\ \A s \in Keys!PreviousSlot : [r EXCEPT !.previous = s] \in Keys!Record
         /\ \A s \in Keys!PreviousSlot, p \in Keys!PendingSlot :
              [r EXCEPT !.previous = s, !.pending = p] \in Keys!Record
         /\ \A c \in Keys!Slot, s \in Keys!PreviousSlot, p \in Keys!PendingSlot :
              [r EXCEPT !.current = c, !.previous = s, !.pending = p] \in Keys!Record
BY MigrationsAssumption DEF Keys!Record

LEMMA NewRecordShape ==
  /\ Keys!NewRecord \in Keys!Record
  /\ \A s \in Keys!PreviousSlot : [Keys!NewRecord EXCEPT !.previous = s] \in Keys!Record
  /\ [Keys!NewRecord EXCEPT !.verified = TRUE, !.previous = "grace"] \in Keys!Record
BY DEF Keys!NewRecord, Keys!Record, Keys!Slot, Keys!PreviousSlot, Keys!PendingSlot

\* A step of the server that gives a device another record or none changes.
LEMMA KeysChanged ==
  ASSUME KeysInv, keysCleanup' = "none",
         client' \in [Devices -> Keys!Group \cup {None}],
         key' \in [Devices -> Keys!Record \cup {None}],
         enrol' \in [Devices -> Keys!Enrolment],
         session' \in [Devices -> {None, "current", "older"}],
         \A d \in Devices : key'[d] = None => session'[d] # "current"
  PROVE  KeysInv'
BY DEF KeysInv, Keys!TypeOK, Keys!CleanedIsVerified

LEMMA ServerSteps ==
  ASSUME KeysInv, NEW d \in Devices,
         Keys!Register(d) \/ Keys!Issue(d) \/ Keys!Handoff(d) \/ Keys!Revoke(d)
           \/ Keys!BeginEnrolment(d) \/ Keys!Login(d)
  PROVE  KeysInv'
<1> USE DEF KeysInv, Keys!TypeOK
<1>0. MigrationsAssumption /\ \A e \in Devices : key[e] # None => key[e] \in Keys!Record
  BY MigrationsAssumption
<1>1. CASE Keys!Register(d)
  <2>1. keysCleanup' = "none" /\ UNCHANGED <<key, enrol, session>>
    BY <1>1 DEF Keys!Register, Keys!Changing
  <2>2. client' \in [Devices -> Keys!Group \cup {None}]
    BY <1>1 DEF Keys!Register
  <2> QED  BY <2>1, <2>2, KeysChanged
<1>2. CASE Keys!Issue(d)
  <2>1. keysCleanup' = "none" /\ UNCHANGED client
    BY <1>2 DEF Keys!Issue, Keys!Changing
  <2>2. session' \in [Devices -> {None, "current", "older"}]
    BY <1>2 DEF Keys!Issue, Keys!Older
  <2>3. enrol' \in [Devices -> Keys!Enrolment]
    BY <1>2 DEF Keys!Issue, Keys!Enrolment
  <2>4. PICK r \in Keys!Record : key' = [key EXCEPT ![d] = r]
    BY <1>2, NewRecordShape DEF Keys!Issue, Keys!PreviousSlot
  <2>5. key' \in [Devices -> Keys!Record \cup {None}]
    BY <2>4
  <2>6. session' = [session EXCEPT ![d] = IF @ = None THEN None ELSE "older"]
    BY <1>2 DEF Keys!Issue, Keys!Older
  <2>7. \A e \in Devices : key'[e] = None => session'[e] # "current"
    BY <2>4, <2>6, <1>0
  <2> QED  BY <2>1, <2>2, <2>3, <2>5, <2>7, KeysChanged
<1>3. CASE Keys!Handoff(d)
  <2>1. keysCleanup' = "none" /\ UNCHANGED <<client, enrol>> /\ key[d] \in Keys!Record
    BY <1>0, <1>3 DEF Keys!Handoff, Keys!Changing
  <2>2. session' = session \/ session' = [session EXCEPT ![d] = IF @ = None THEN None ELSE "older"]
    BY <1>3 DEF Keys!Handoff, Keys!Older
  <2>3. session' \in [Devices -> {None, "current", "older"}]
    BY <2>2
  <2>4. PICK r \in Keys!Record : key' = [key EXCEPT ![d] = r]
    <3>1. CASE key' = [key EXCEPT ![d].pending = "staged"]
      <4>1. key' = [key EXCEPT ![d] = [key[d] EXCEPT !.pending = "staged"]]
        BY <3>1
      <4> QED  BY <2>1, <4>1, RecordEdited DEF Keys!PendingSlot
    <3>2. CASE key' = [key EXCEPT ![d].verified = TRUE]
      <4>1. key' = [key EXCEPT ![d] = [key[d] EXCEPT !.verified = TRUE]]
        BY <3>2
      <4> QED  BY <2>1, <4>1, RecordEdited
    <3>3. CASE key' = [key EXCEPT ![d] = [Keys!NewRecord EXCEPT !.verified = TRUE, !.previous = "grace"]]
      BY <3>3, NewRecordShape
    <3> QED  BY <1>3, <3>1, <3>2, <3>3 DEF Keys!Handoff
  <2>5. key' \in [Devices -> Keys!Record \cup {None}]
    BY <2>4
  <2>6. \A e \in Devices : key'[e] = None => session'[e] # "current"
    BY <2>4, <2>2, <1>0, <2>1
  <2> QED  BY <2>1, <2>3, <2>5, <2>6, KeysChanged
<1>4. CASE Keys!Revoke(d)
  <2>1. keysCleanup' = "none" /\ UNCHANGED <<client, enrol, session>> /\ key[d] \in Keys!Record
    BY <1>0, <1>4 DEF Keys!Revoke, Keys!Changing
  <2>2. PICK r \in Keys!Record : key' = [key EXCEPT ![d] = r]
    <3> DEFINE s == IF key[d].previous = "missing" THEN "missing" ELSE "retired"
    <3>1. s \in Keys!PreviousSlot
      BY DEF Keys!PreviousSlot
    <3>2. [key[d] EXCEPT !.current = "retired", !.previous = s, !.pending = "missing"] \in Keys!Record
      BY <2>1, <3>1, RecordEdited DEF Keys!Slot, Keys!PendingSlot
    <3>3. key' = [key EXCEPT ![d] = [key[d] EXCEPT !.current = "retired", !.previous = s, !.pending = "missing"]]
      BY <1>4, <2>1 DEF Keys!Revoke, Keys!Record
    <3> QED  BY <3>2, <3>3
  <2>3. key' \in [Devices -> Keys!Record \cup {None}]
    BY <2>2
  <2>4. \A e \in Devices : key'[e] = None => session'[e] # "current"
    BY <2>1, <2>2, <1>0
  <2> QED  BY <2>1, <2>3, <2>4, KeysChanged
<1>5. CASE Keys!BeginEnrolment(d)
  <2>1. keysCleanup' = "none" /\ UNCHANGED <<client, key, session>>
    BY <1>5 DEF Keys!BeginEnrolment, Keys!Changing
  <2>2. enrol' \in [Devices -> Keys!Enrolment]
    BY <1>5 DEF Keys!BeginEnrolment, Keys!Enrolment
  <2> QED  BY <2>1, <2>2, KeysChanged
<1>6. CASE Keys!Login(d)
  <2>1. keysCleanup' = "none" /\ UNCHANGED <<client, key, enrol>> /\ key[d] # None
    BY <1>6 DEF Keys!Login, Keys!Changing
  <2>2. session' = [session EXCEPT ![d] = "current"]
    BY <1>6 DEF Keys!Login
  <2>3. \A e \in Devices : key'[e] = None => session'[e] # "current"
    BY <2>1, <2>2
  <2> QED  BY <2>1, <2>2, <2>3, KeysChanged
<1> QED  BY <1>1, <1>2, <1>3, <1>4, <1>5, <1>6

\* A clean that is done leaves of each client what verification asks for.
LEMMA CleanInv ==
  ASSUME KeysInv, Keys!Clean
  PROVE  KeysInv' /\ Keys!RetainsOnlyWorkingKeys
<1> USE DEF KeysInv, Keys!TypeOK
<1>1. UNCHANGED <<client, keysService>>
  BY DEF Keys!Clean
<1>2. CASE \E d \in Devices : Keys!Blocked(d)
  <2>1. keysCleanup' = "blocked" /\ UNCHANGED <<key, enrol, session>>
    BY <1>2 DEF Keys!Clean
  <2>2. KeysInv'
    BY <1>1, <2>1 DEF Keys!CleanedIsVerified
  <2> QED  BY <2>1, <2>2 DEF Keys!RetainsOnlyWorkingKeys
<1>3. CASE \A d \in Devices : ~Keys!Blocked(d)
  <2>1. /\ key' = [d \in Devices |-> Keys!Cleaned(d)]
        /\ enrol' = [d \in Devices |-> "missing"]
        /\ session' = [d \in Devices |-> IF Keys!KeptSession(d) THEN session[d] ELSE None]
        /\ keysCleanup' = "cleaned"
    BY <1>3 DEF Keys!Clean
  <2>2. ASSUME NEW d \in Devices, Keys!Owned(d)
        PROVE  /\ key[d] \in Keys!Record /\ key[d].current = "active" /\ key[d].verified = TRUE
               /\ key[d].previous # "grace" /\ key[d].pending = "missing"
    BY <1>3, <2>2 DEF Keys!Blocked, Keys!Record, Keys!PendingSlot
  <2>3. ASSUME NEW d \in Devices, Keys!Owned(d)
        PROVE  /\ key'[d] \in Keys!Record /\ key'[d].current = "active" /\ key'[d].verified = TRUE
               /\ key'[d].previous = "missing" /\ key'[d].pending = "missing"
               /\ key'[d] = [key'[d] EXCEPT !.previous = "missing", !.pending = "missing"]
    <3>1. key'[d] = [key[d] EXCEPT !.previous = "missing", !.pending = "missing"]
      BY <2>1, <2>3 DEF Keys!Cleaned
    <3>2. key[d] \in Keys!Record /\ key[d].current = "active" /\ key[d].verified = TRUE
      BY <2>2, <2>3
    <3> QED  BY <3>1, <3>2 DEF Keys!Record, Keys!PreviousSlot, Keys!PendingSlot
  <2>4. ASSUME NEW d \in Devices, ~Keys!Owned(d)
        PROVE  key'[d] = None /\ session'[d] = None
    BY <2>1, <2>4 DEF Keys!Cleaned, Keys!KeptSession
  <2>5. key' \in [Devices -> Keys!Record \cup {None}]
    <3>1. \A d \in Devices : key'[d] \in Keys!Record \cup {None}
      BY <2>3, <2>4
    <3> QED  BY <2>1, <3>1
  <2>6. session' \in [Devices -> {None, "current", "older"}] /\ enrol' \in [Devices -> Keys!Enrolment]
    BY <2>1 DEF Keys!Enrolment
  <2>7. \A d \in Devices : key'[d] = None => session'[d] # "current"
    BY ZenonT(30), <2>3, <2>4, MigrationsAssumption
  <2>8. Keys!TypeOK'
    BY <1>1, <2>5, <2>6, <2>7
  <2>9. \A d \in Devices : (Keys!Owned(d))' <=> Keys!Owned(d)
    BY <1>1 DEF Keys!Owned
  <2>10. \A d \in Devices : ~(Keys!Blocked(d))'
    <3>1. ASSUME NEW d \in Devices, Keys!Owned(d) PROVE ~(Keys!Blocked(d))'
      <4>1. enrol'[d] = "missing" /\ key'[d] # None
        BY <2>1, <2>3, <3>1, MigrationsAssumption
      <4> QED  BY <2>3, <3>1, <4>1 DEF Keys!Blocked
    <3>2. ASSUME NEW d \in Devices, ~Keys!Owned(d) PROVE ~(Keys!Blocked(d))'
      <4>1. enrol'[d] = "missing" /\ ~(Keys!Owned(d))'
        BY <2>1, <2>9, <3>2
      <4> QED  BY <4>1 DEF Keys!Blocked
    <3> QED  BY <3>1, <3>2
  <2>11. \A d \in Devices : key'[d] = (Keys!Cleaned(d))'
    BY <2>3, <2>4, <2>9 DEF Keys!Cleaned
  <2>12. \A d \in Devices : session'[d] # None => (Keys!KeptSession(d))'
    BY <2>1, <2>9 DEF Keys!KeptSession
  <2>13. \A d \in Devices : enrol'[d] = "missing"
    BY <2>1
  <2>14. \A d \in Devices : key'[d] # None => client'[d] \in Keys!FirstParty /\ key'[d].current = "active"
           /\ key'[d].previous = "missing"
    BY <2>3, <2>4, <2>9 DEF Keys!Owned
  <2>15. \A d \in Devices : (Keys!OwnerClass(d))' = "first-party-provisioned" <=> client'[d] \in Keys!FirstParty
    <3>1. \A d \in Devices : client'[d] \in Keys!Group \cup {None}
      BY <2>8
    <3> QED  BY <3>1, MigrationsAssumption DEF Keys!OwnerClass, Keys!FirstParty, Keys!Group
  <2>16. (Keys!InventoryEmpty)'
    BY <2>13, <2>14, <2>15
       DEF Keys!InventoryEmpty, Keys!Keyed, Keys!StaleCurrent, Keys!StalePrevious, Keys!ToReview,
           Keys!Enrolments
  <2>17. (Keys!GateReady)'
    BY <2>3, <2>9, <2>15, MigrationsAssumption DEF Keys!GateReady, Keys!Owned
  <2>18. (Keys!CleanedIsVerified)'
    BY <2>10, <2>11, <2>12, <2>13, <2>16, <2>17 DEF Keys!CleanedIsVerified, Keys!Verified
  <2>19. ASSUME NEW d \in Devices, client[d] \in Keys!FirstParty
         PROVE  /\ Keys!Accepted(key'[d]) = Keys!Accepted(key[d]) /\ Keys!Accepted(key[d]) # {}
                /\ session[d] = "current" => session'[d] = "current"
    <3>1. Keys!Owned(d)
      BY <2>19 DEF Keys!Owned
    <3>2. key[d] # None /\ key'[d] # None
      BY <2>2, <2>3, <3>1, MigrationsAssumption
    <3>3. Keys!Accepted(key[d]) = {"current"} /\ Keys!Accepted(key'[d]) = {"current"}
      BY <2>2, <2>3, <3>1, <3>2 DEF Keys!Accepted
    <3>4. session[d] = "current" => session'[d] = "current"
      BY <2>1, <3>1 DEF Keys!KeptSession
    <3> QED  BY <3>3, <3>4
  <2>20. Keys!RetainsOnlyWorkingKeys
    BY <2>19 DEF Keys!RetainsOnlyWorkingKeys
  <2> QED  BY <2>8, <2>18, <2>20
<1> QED  BY <1>2, <1>3

\* What was cleaned has no key in its grace and no enrolment.
LEMMA CleanedHasNoGrace ==
  ASSUME KeysInv, keysCleanup = "cleaned"
  PROVE  /\ \A d \in Devices : enrol[d] = "missing" /\ (key[d] # None => key[d].previous = "missing")
         /\ key = [d \in Devices |-> IF key[d] # None /\ key[d].previous = "grace"
                                     THEN [key[d] EXCEPT !.previous = "retired"] ELSE key[d]]
<1>1. Keys!Verified
  BY DEF KeysInv, Keys!CleanedIsVerified
<1>2. ASSUME NEW d \in Devices, key[d] # None PROVE key[d].previous = "missing"
  <2>1. key[d] = [key[d] EXCEPT !.previous = "missing", !.pending = "missing"]
    BY <1>1, <1>2 DEF Keys!Verified, Keys!Cleaned
  <2>2. key[d] \in Keys!Record
    BY <1>2 DEF KeysInv, Keys!TypeOK
  <2> QED  BY <2>1, <2>2 DEF Keys!Record
<1> QED  BY <1>1, <1>2 DEF Keys!Verified, KeysInv, Keys!TypeOK

\* Stopping and starting the service.
LEMMA KeysStays ==
  ASSUME KeysInv, UNCHANGED <<client, key, enrol, session, keysCleanup>>
  PROVE  KeysInv'
<1>1. Keys!TypeOK'
  BY DEF KeysInv, Keys!TypeOK
<1>2. Keys!CleanedIsVerified'
  BY ZenonT(30) DEF KeysInv, Keys!CleanedIsVerified, Keys!Verified, Keys!GateReady, Keys!Blocked, Keys!Owned, Keys!Cleaned,
         Keys!KeptSession, Keys!InventoryEmpty, Keys!Keyed, Keys!StaleCurrent, Keys!StalePrevious,
         Keys!ToReview, Keys!Enrolments, Keys!OwnerClass
<1> QED  BY <1>1, <1>2 DEF KeysInv

\* Time, and the end of a grace, change nothing in what was cleaned.
LEMMA ElapseInv ==
  ASSUME KeysInv, Keys!Elapse
  PROVE  KeysInv'
<1> USE DEF KeysInv, Keys!TypeOK
<1>1. UNCHANGED <<client, session, keysCleanup>>
  BY DEF Keys!Elapse
<1>2. enrol' = [d \in Devices |-> IF enrol[d] = "pending" THEN "expired" ELSE enrol[d]]
  BY DEF Keys!Elapse
<1>3. key' = [d \in Devices |-> IF key[d] # None /\ key[d].previous = "grace"
                                THEN [key[d] EXCEPT !.previous = "retired"] ELSE key[d]]
  BY DEF Keys!Elapse
<1>4. enrol' \in [Devices -> Keys!Enrolment]
  BY <1>2 DEF Keys!Enrolment
<1>5. \A d \in Devices : key[d] # None => /\ key[d] \in Keys!Record
        /\ [key[d] EXCEPT !.previous = "retired"] \in Keys!Record
  BY RecordEdited DEF Keys!PreviousSlot
<1>6. key' \in [Devices -> Keys!Record \cup {None}]
  BY <1>3, <1>5
<1>7. \A d \in Devices : key'[d] = None => key[d] = None
  BY <1>3, <1>5, MigrationsAssumption
<1>8. Keys!TypeOK'
  BY <1>1, <1>4, <1>6, <1>7
<1>9. CASE keysCleanup = "cleaned"
  <2>3. enrol' = enrol
    BY <1>2, <1>9, CleanedHasNoGrace
  <2>4. key' = key
    BY <1>3, <1>9, CleanedHasNoGrace
  <2> QED  BY <1>1, <2>3, <2>4, KeysStays
<1>10. CASE keysCleanup # "cleaned"
  BY <1>1, <1>8, <1>10 DEF Keys!CleanedIsVerified
<1> QED  BY <1>9, <1>10

\* Only a cleanup that is done says so with the service stopped: whatever else
\* says it, said it before, and left keys and sessions as they were.
LEMMA CleanedSince ==
  ASSUME KeysInv, keysCleanup = "cleaned", UNCHANGED <<client, key, session>>
  PROVE  Keys!RetainsOnlyWorkingKeys
<1>1. ASSUME NEW d \in Devices, client[d] \in Keys!FirstParty
      PROVE  Keys!Accepted(key[d]) # {}
  <2>1. Keys!GateReady
    BY DEF KeysInv, Keys!CleanedIsVerified
  <2>2. Keys!OwnerClass(d) = "first-party-provisioned"
    BY <1>1, MigrationsAssumption DEF Keys!OwnerClass, Keys!FirstParty, Keys!Group
  <2>3. key[d] # None /\ key[d].current = "active"
    BY <2>1, <2>2 DEF Keys!GateReady
  <2>4. "current" \in Keys!Accepted(key[d])
    BY <2>3 DEF Keys!Accepted
  <2> QED  BY <2>4
<1> QED  BY <1>1 DEF Keys!RetainsOnlyWorkingKeys

LEMMA KeysNext == KeysInv /\ [Keys!Next]_(Keys!vars) => KeysInv' /\ Keys!RetainsOnlyWorkingKeys
<1> SUFFICES ASSUME KeysInv, [Keys!Next]_(Keys!vars) PROVE KeysInv' /\ Keys!RetainsOnlyWorkingKeys
  OBVIOUS
<1>1. CASE Keys!Clean
  BY <1>1, CleanInv
<1>2. ASSUME NEW d \in Devices,
             Keys!Register(d) \/ Keys!Issue(d) \/ Keys!Handoff(d) \/ Keys!Revoke(d)
               \/ Keys!BeginEnrolment(d) \/ Keys!Login(d)
      PROVE  KeysInv' /\ Keys!RetainsOnlyWorkingKeys
  <2>1. keysCleanup' = "none"
    BY <1>2 DEF Keys!Register, Keys!Issue, Keys!Handoff, Keys!Revoke, Keys!BeginEnrolment, Keys!Login,
                Keys!Changing
  <2>2. Keys!RetainsOnlyWorkingKeys
    BY <2>1 DEF Keys!RetainsOnlyWorkingKeys
  <2> QED  BY <1>2, <2>2, ServerSteps
<1>3. CASE Keys!Elapse
  <2>1. KeysInv'
    BY <1>3, ElapseInv
  <2>2. keysCleanup' = keysCleanup /\ UNCHANGED <<client, session>>
    BY <1>3 DEF Keys!Elapse
  <2>3. CASE keysCleanup = "cleaned"
    <3>1. key' = key
      BY <1>3, <2>3, CleanedHasNoGrace DEF Keys!Elapse
    <3> QED  BY <2>1, <2>2, <2>3, <3>1, CleanedSince
  <2>4. CASE keysCleanup # "cleaned"
    BY <2>1, <2>2, <2>4 DEF Keys!RetainsOnlyWorkingKeys
  <2> QED  BY <2>3, <2>4
<1>4. CASE UNCHANGED <<client, key, enrol, session, keysCleanup>>
  BY <1>4, KeysStays, CleanedSince DEF Keys!RetainsOnlyWorkingKeys
<1> QED  BY <1>1, <1>2, <1>3, <1>4 DEF Keys!Next, Keys!Stop, Keys!Start, Keys!vars

-----------------------------------------------------------------------------
(* The residue in the checkout.                                            *)

\* While a cleanup runs, what it has still to remove is what the preflight saw
\* and is kept elsewhere, and nothing blocks it: the service does not run, and
\* nobody else comes near.
TargetsKept ==
  removing # None =>
    \A r \in removing : src[r] = residueHandoff.seen[r] /\ Residue!Recovered(r)

ResidueInv ==
  /\ Residue!TypeOK /\ TargetsKept
  /\ residueUsed \in [touches : Nat, kills : Nat, faults : Nat]

ResidueSafe ==
  /\ Residue!OnlyWithRecovery /\ Residue!OnlyTheInspected
  /\ Residue!ArchiveKept /\ Residue!VerifiedIsClean

LEMMA ResidueInit == Residue!Init => ResidueInv
<1> SUFFICES ASSUME Residue!Init PROVE ResidueInv
  OBVIOUS
<1>1. 0 \in Residue!Version
  BY MigrationsAssumption DEF Residue!Version
<1>2. Residue!TypeOK
  BY <1>1 DEF Residue!Init, Residue!TypeOK, Residue!Held, Residue!Both
<1>3. TargetsKept
  BY DEF Residue!Init, TargetsKept
<1>4. residueUsed \in [touches : Nat, kills : Nat, faults : Nat]
  BY DEF Residue!Init
<1> QED  BY <1>2, <1>3, <1>4 DEF ResidueInv

\* A step outside a cleanup that ends outside of it.
LEMMA OutsideCleanup ==
  ASSUME ResidueInv, removing = None, removing' = None,
         src' \in [Residue!Targets \cup Blockers -> Residue!Held],
         doc' \in [State -> SUBSET Residue!Both],
         live' \in [History -> Residue!Held], rotated' \in [History -> Residue!Held],
         archive' \in [History -> Residue!Held], residueCopy' \in [CopiedFiles -> Residue!Held],
         residueUsed' \in [touches : Nat, kills : Nat, faults : Nat],
         Residue!ArchiveKept, Residue!VerifiedIsClean
  PROVE  ResidueInv' /\ ResidueSafe
<1>1. Residue!TypeOK'
  BY DEF Residue!TypeOK
<1>2. TargetsKept'
  BY DEF TargetsKept
<1>3. Residue!OnlyWithRecovery /\ Residue!OnlyTheInspected
  BY DEF Residue!OnlyWithRecovery, Residue!OnlyTheInspected, Residue!Removed
<1> QED  BY <1>1, <1>2, <1>3 DEF ResidueInv, ResidueSafe

LEMMA ResidueSpend ==
  ASSUME ResidueInv, NEW b \in {"touches", "kills", "faults"}, NEW max, Residue!Spend(b, max)
  PROVE  residueUsed' \in [touches : Nat, kills : Nat, faults : Nat]
BY DEF ResidueInv, Residue!Spend

\* The service is stopped during a cleanup.
LEMMA ServiceSteps ==
  ASSUME ResidueInv,
         \/ \E h \in History : Residue!Archive(h) \/ Residue!Rotate(h)
         \/ Residue!Preflight \/ Residue!Verify \/ Residue!Stop
         \/ \E c \in CopiedFiles : Residue!DeleteCopy(c)
         \/ \E s \in State : Residue!SaveDocument(s)
         \/ \E r \in Residue!Targets \cup Blockers : Residue!Touch(r)
  PROVE  ResidueInv' /\ ResidueSafe
<1> USE DEF ResidueInv, Residue!TypeOK, Residue!external
<1>1. removing = None /\ removing' = None
  BY DEF Residue!Archive, Residue!Rotate, Residue!Preflight, Residue!Verify, Residue!Stop,
         Residue!DeleteCopy, Residue!SaveDocument, Residue!Touch
<1>2. ASSUME NEW h \in History, Residue!Archive(h)
      PROVE  ResidueInv' /\ ResidueSafe
  <2>1. /\ archive' = [archive EXCEPT ![h] = src[h]] /\ archive[h] = None /\ verified' = verified
        /\ UNCHANGED <<src, doc, live, rotated, residueCopy, residueUsed>>
    BY <1>2 DEF Residue!Archive
  <2>2. src[h] \in Residue!Held
    BY DEF Residue!Targets
  <2>3. archive' \in [History -> Residue!Held]
    BY <2>1, <2>2
  <2>4. Residue!ArchiveKept /\ Residue!VerifiedIsClean
    BY <2>1 DEF Residue!ArchiveKept, Residue!VerifiedIsClean
  <2> QED  BY <1>1, <2>1, <2>3, <2>4, OutsideCleanup
<1>3. ASSUME NEW h \in History, Residue!Rotate(h)
      PROVE  ResidueInv' /\ ResidueSafe
  <2>1. /\ live' = [live EXCEPT ![h] = None] /\ rotated' = [rotated EXCEPT ![h] = live[h]]
        /\ UNCHANGED <<src, doc, archive, residueCopy, residueUsed, verified>>
    BY <1>3 DEF Residue!Rotate
  <2>2. live' \in [History -> Residue!Held] /\ rotated' \in [History -> Residue!Held]
    BY <2>1 DEF Residue!Held
  <2>4. Residue!ArchiveKept /\ Residue!VerifiedIsClean
    BY <2>1 DEF Residue!ArchiveKept, Residue!VerifiedIsClean
  <2> QED  BY <1>1, <2>1, <2>2, <2>4, OutsideCleanup
<1>4. CASE Residue!Preflight \/ Residue!Verify \/ Residue!Stop
  <2>1. UNCHANGED <<src, doc, live, rotated, archive, residueCopy, residueUsed>>
    BY <1>4 DEF Residue!Preflight, Residue!Verify, Residue!Stop
  <2>2. Residue!ArchiveKept /\ Residue!VerifiedIsClean
    BY <1>4, <2>1 DEF Residue!ArchiveKept, Residue!VerifiedIsClean, Residue!Preflight, Residue!Verify,
       Residue!Stop, Residue!Present
  <2> QED  BY <1>1, <2>1, <2>2, OutsideCleanup
<1>5. ASSUME NEW c \in CopiedFiles, Residue!DeleteCopy(c)
      PROVE  ResidueInv' /\ ResidueSafe
  <2>1. /\ residueCopy' = [residueCopy EXCEPT ![c] = None] /\ Residue!Spend("faults", MaxFaults)
        /\ UNCHANGED <<src, doc, live, rotated, archive, verified>>
    BY <1>5 DEF Residue!DeleteCopy
  <2>2. residueCopy' \in [CopiedFiles -> Residue!Held]
    BY <2>1 DEF Residue!Held
  <2>4. Residue!ArchiveKept /\ Residue!VerifiedIsClean
    BY <2>1 DEF Residue!ArchiveKept, Residue!VerifiedIsClean
  <2> QED  BY <1>1, <2>1, <2>2, <2>4, ResidueSpend, OutsideCleanup
<1>6. ASSUME NEW s \in State, Residue!SaveDocument(s)
      PROVE  ResidueInv' /\ ResidueSafe
  <2>1. /\ doc' = [doc EXCEPT ![s] = Residue!Both]
        /\ UNCHANGED <<src, live, rotated, archive, residueCopy, residueUsed, verified>>
    BY <1>6 DEF Residue!SaveDocument
  <2>2. doc' \in [State -> SUBSET Residue!Both]
    BY <2>1
  <2>4. Residue!ArchiveKept /\ Residue!VerifiedIsClean
    BY <2>1 DEF Residue!ArchiveKept, Residue!VerifiedIsClean
  <2> QED  BY <1>1, <2>1, <2>2, <2>4, OutsideCleanup
<1>7. ASSUME NEW r \in Residue!Targets \cup Blockers, Residue!Touch(r)
      PROVE  ResidueInv' /\ ResidueSafe
  <2>1. /\ src' = [src EXCEPT ![r] = residueUsed.touches + 1] /\ Residue!Spend("touches", MaxTouches)
        /\ UNCHANGED <<doc, live, rotated, archive, residueCopy, verified>>
    BY <1>7 DEF Residue!Touch
  <2>2. residueUsed.touches + 1 \in Residue!Held
    BY <2>1, MigrationsAssumption DEF Residue!Spend, Residue!Held, Residue!Version
  <2>3. src' \in [Residue!Targets \cup Blockers -> Residue!Held]
    BY <2>1, <2>2
  <2>4. Residue!ArchiveKept /\ Residue!VerifiedIsClean
    BY <2>1 DEF Residue!ArchiveKept, Residue!VerifiedIsClean
  <2> QED  BY <1>1, <2>1, <2>3, <2>4, ResidueSpend, OutsideCleanup
<1> QED  BY <1>2, <1>3, <1>4, <1>5, <1>6, <1>7

\* Operators and disks do not work on the files while a cleanup does.
LEMMA OperatorSteps ==
  ASSUME ResidueInv,
         \/ Residue!Start \/ Residue!Expire
         \/ \E b \in Blockers : Residue!Resolve(b)
         \/ \E c \in CopiedFiles : Residue!Discard(c) \/ Residue!Recopy(c)
         \/ \E s \in State, side \in Residue!Both : Residue!Damage(s, side)
  PROVE  ResidueInv' /\ ResidueSafe
<1> USE DEF ResidueInv, Residue!TypeOK, Residue!external
<1>1. removing = None /\ removing' = None /\ UNCHANGED <<live, rotated, archive, verified>>
  BY DEF Residue!Start, Residue!Expire, Residue!Resolve, Residue!Discard, Residue!Recopy, Residue!Damage
<1>2. Residue!ArchiveKept /\ Residue!VerifiedIsClean
  BY <1>1 DEF Residue!ArchiveKept, Residue!VerifiedIsClean
<1>3. CASE Residue!Start \/ Residue!Expire
  <2>1. UNCHANGED <<src, doc, residueCopy>>
    BY <1>3 DEF Residue!Start, Residue!Expire
  <2>2. residueUsed' \in [touches : Nat, kills : Nat, faults : Nat]
    BY <1>3, ResidueSpend DEF Residue!Start, Residue!Expire
  <2> QED  BY <1>1, <1>2, <2>1, <2>2, OutsideCleanup
<1>4. ASSUME NEW b \in Blockers, Residue!Resolve(b)
      PROVE  ResidueInv' /\ ResidueSafe
  <2>1. src' = [src EXCEPT ![b] = None] /\ UNCHANGED <<doc, residueCopy, residueUsed>>
    BY <1>4 DEF Residue!Resolve
  <2>2. src' \in [Residue!Targets \cup Blockers -> Residue!Held]
    BY <2>1 DEF Residue!Held
  <2> QED  BY <1>1, <1>2, <2>1, <2>2, OutsideCleanup
<1>5. ASSUME NEW c \in CopiedFiles, Residue!Recopy(c)
      PROVE  ResidueInv' /\ ResidueSafe
  <2>1. residueCopy' = [residueCopy EXCEPT ![c] = src[c]] /\ UNCHANGED <<src, doc, residueUsed>>
    BY <1>5 DEF Residue!Recopy
  <2>2. src[c] \in Residue!Held
    BY DEF Residue!Targets
  <2>3. residueCopy' \in [CopiedFiles -> Residue!Held]
    BY <2>1, <2>2
  <2> QED  BY <1>1, <1>2, <2>1, <2>3, OutsideCleanup
<1>6. ASSUME NEW s \in State, NEW side \in Residue!Both, Residue!Damage(s, side)
      PROVE  ResidueInv' /\ ResidueSafe
  <2>1. /\ doc' = [doc EXCEPT ![s] = @ \ {side}] /\ Residue!Spend("faults", MaxFaults)
        /\ UNCHANGED <<src, residueCopy>>
    BY <1>6 DEF Residue!Damage
  <2>2. doc' \in [State -> SUBSET Residue!Both]
    BY <2>1
  <2> QED  BY <1>1, <1>2, <2>1, <2>2, ResidueSpend, OutsideCleanup
<1>7. ASSUME NEW c \in CopiedFiles, Residue!Discard(c)
      PROVE  ResidueInv' /\ ResidueSafe
  <2>1. residueCopy' = [residueCopy EXCEPT ![c] = None] /\ UNCHANGED <<src, doc, residueUsed>>
    BY <1>7 DEF Residue!Discard
  <2>2. residueCopy' \in [CopiedFiles -> Residue!Held]
    BY <2>1 DEF Residue!Held
  <2> QED  BY <1>1, <1>2, <2>1, <2>2, OutsideCleanup
<1> QED  BY <1>3, <1>4, <1>5, <1>6, <1>7

\* The cleanup: it looks at everything first, and then removes file by file.
LEMMA CleanupSteps ==
  ASSUME ResidueInv,
         Residue!BeginCleanup \/ Residue!EndCleanup \/ Residue!Kill
           \/ \E r \in Residue!Targets : Residue!Remove(r)
  PROVE  ResidueInv' /\ ResidueSafe
<1> USE DEF ResidueInv, Residue!TypeOK, Residue!external
<1>1. UNCHANGED <<doc, live, rotated, archive, residueCopy, verified, residueService>>
  BY DEF Residue!BeginCleanup, Residue!EndCleanup, Residue!Kill, Residue!Remove
<1>2. Residue!ArchiveKept /\ Residue!VerifiedIsClean
  BY <1>1 DEF Residue!ArchiveKept, Residue!VerifiedIsClean
<1>3. residueUsed' \in [touches : Nat, kills : Nat, faults : Nat]
  BY ResidueSpend DEF Residue!BeginCleanup, Residue!EndCleanup, Residue!Kill, Residue!Remove
<1>4. CASE Residue!BeginCleanup
  <2>1. /\ UNCHANGED <<src, residueHandoff>> /\ removing' = Residue!Present(Residue!Targets)
        /\ ~residueService /\ residueHandoff # None /\ ~residueHandoff.complete
        /\ \A r \in Residue!Targets : src[r] = residueHandoff.seen[r]
        /\ \A r \in removing' : Residue!Recovered(r)
    BY <1>4 DEF Residue!BeginCleanup
  <2>2. removing' \subseteq Residue!Targets
    BY <2>1 DEF Residue!Present
  <2>3. Residue!TypeOK'
    BY <1>1, <2>1, <2>2
  <2>4. \A r \in removing' : src'[r] = residueHandoff'.seen[r] /\ (Residue!Recovered(r))'
    BY <1>1, <2>1, <2>2 DEF Residue!Recovered, Residue!HoldsHistory
  <2>5. Residue!OnlyWithRecovery /\ Residue!OnlyTheInspected
    BY <2>1 DEF Residue!OnlyWithRecovery, Residue!OnlyTheInspected, Residue!Removed
  <2> QED  BY <1>2, <1>3, <2>3, <2>4, <2>5 DEF TargetsKept, ResidueSafe
<1>5. CASE Residue!EndCleanup \/ Residue!Kill
  <2>1. removing' = None /\ UNCHANGED src
    BY <1>5 DEF Residue!EndCleanup, Residue!Kill
  <2>2. Residue!OnlyWithRecovery /\ Residue!OnlyTheInspected
    BY <2>1 DEF Residue!OnlyWithRecovery, Residue!OnlyTheInspected, Residue!Removed
  <2>3. Residue!TypeOK' /\ TargetsKept'
    BY <1>1, <2>1 DEF TargetsKept
  <2> QED  BY <1>2, <1>3, <2>2, <2>3 DEF ResidueSafe
<1>6. ASSUME NEW r \in Residue!Targets, Residue!Remove(r)
      PROVE  ResidueInv' /\ ResidueSafe
  <2>1. /\ removing # None /\ r \in removing /\ removing' = removing \ {r}
        /\ src' = [src EXCEPT ![r] = None] /\ UNCHANGED residueHandoff
    BY <1>6 DEF Residue!Remove
  <2>2. src' \in [Residue!Targets \cup Blockers -> Residue!Held]
    BY <2>1 DEF Residue!Held
  <2>3. removing' \subseteq Residue!Targets
    BY <2>1
  <2>4. Residue!TypeOK'
    BY <1>1, <2>1, <2>2, <2>3
  <2>5. \A q \in removing' : src'[q] = src[q]
    BY <2>1, <2>3
  <2>6. \A q \in removing' : src'[q] = residueHandoff'.seen[q] /\ (Residue!Recovered(q))'
    BY <1>1, <2>1, <2>5 DEF TargetsKept, Residue!Recovered, Residue!HoldsHistory
  <2>7. \A q \in Residue!Targets \cup Blockers : Residue!Removed(q) => q = r
    BY <2>1 DEF Residue!Removed
  <2>8. Residue!OnlyWithRecovery /\ Residue!OnlyTheInspected
    BY <2>1, <2>7 DEF Residue!OnlyWithRecovery, Residue!OnlyTheInspected, TargetsKept
  <2> QED  BY <1>2, <1>3, <2>4, <2>6, <2>8 DEF TargetsKept, ResidueSafe
<1> QED  BY <1>4, <1>5, <1>6

LEMMA ResidueNext == ResidueInv /\ [Residue!Next]_(Residue!vars) => ResidueInv' /\ ResidueSafe
<1> SUFFICES ASSUME ResidueInv, [Residue!Next]_(Residue!vars) PROVE ResidueInv' /\ ResidueSafe
  OBVIOUS
<1>1. CASE UNCHANGED Residue!vars
  <2> USE <1>1 DEF Residue!vars
  <2>1. Residue!TypeOK'
    BY DEF ResidueInv, Residue!TypeOK
  <2>2. TargetsKept'
    BY DEF ResidueInv, TargetsKept, Residue!Recovered, Residue!HoldsHistory
  <2>3. ResidueSafe
    BY DEF ResidueSafe, Residue!OnlyWithRecovery, Residue!OnlyTheInspected, Residue!ArchiveKept,
           Residue!VerifiedIsClean, Residue!Removed
  <2> QED  BY <2>1, <2>2, <2>3 DEF ResidueInv
<1> QED  BY <1>1, ServiceSteps, OperatorSteps, CleanupSteps DEF Residue!Next

-----------------------------------------------------------------------------
(* The rotation of credentials.                                           *)

Bundle == [Names -> Rotation!Version \cup {None}]
KeptRec == [dir : BOOLEAN, previous : Bundle, manifest : Rotation!Status \cup {None}]
OpRec == [phase : Rotation!Phases, todo : SUBSET Names]
CleanupRec == [phase : {"none", "sources", "group"}, todo : SUBSET Names]
RotationShape ==
  /\ cred \in Bundle /\ base \in Bundle /\ snapshot \in Bundle /\ cand \in Bundle \cup {None}
  /\ kept \in KeptRec /\ op \in OpRec /\ cleanup \in CleanupRec
  /\ op.phase = "none" => op.todo = {}
  /\ cleanup.phase = "none" => cleanup.todo = {}
  /\ rotationLegacy \subseteq Rotation!Sources
  /\ rotationUsed \in [rotations : Rotation!Version, stops : Nat, faults : Nat]

OneTool == op = Rotation!NoOp \/ cleanup = Rotation!NoOp
WithoutState ==
  ~kept.dir => /\ kept = Rotation!NotKept /\ cred = base
               /\ op.phase \in {"none", "copy", "stage"} /\ cleanup = Rotation!NoOp
Retained == kept.previous = base /\ kept.manifest \in Rotation!Status \ {"rolled-back"}
WithState ==
  kept.dir => /\ Rotation!Full(cred) /\ Rotation!Full(base)
              /\ op.phase \in {"none", "backup", "install", "restore", "rollback"}
              /\ cred # base => Retained
              /\ \/ \A n \in Names : kept.previous[n] \in {None, base[n]}
                 \/ op = Rotation!NoOp /\ cred = base /\ \E n \in Names : kept.previous[n] = None
Places ==
  /\ op.phase = "stage" => cand # None
  /\ op.phase = "backup" => cred = base /\ \A n \in Names \ op.todo : kept.previous[n] = base[n]
  /\ op.phase \in {"backup", "install"} => Rotation!Full(cand)
  /\ op.phase = "install" => Retained
  /\ op.phase \in {"restore", "rollback"} => \A n \in Names \ op.todo : cred[n] = base[n]
  /\ op.phase = "rollback" => Retained
CleanupPlaces ==
  cleanup # Rotation!NoOp =>
    /\ cand # None /\ \A n \in Names : cand[n] \in {None, cred[n]}
    /\ cleanup.phase = "group" /\ cleanup.todo # Names => cred = base
    /\ cleanup.phase = "group" => \A n \in Names \ cleanup.todo : cand[n] = None
    /\ cleanup.phase = "sources" => cleanup.todo = Names
AloneInv == RotationShape /\ OneTool /\ WithoutState /\ WithState /\ Places /\ CleanupPlaces
GoesBack == op.phase = "rollback" => read = base

\* That much holds although a rotation tool may run beside a removal: it is a
\* rollback or a copy, and has its directories or does not need them.
Apart ==
  /\ ~kept.dir => kept = Rotation!NotKept
  /\ op.phase \in {"backup", "install", "restore"} => kept.dir /\ kept.manifest # "activated"
  /\ op.phase = "stage" => ~kept.dir
  /\ op.phase \in {"stage", "backup", "install"} => cand # None
  /\ cleanup # Rotation!NoOp =>
       kept.dir /\ cand # None /\ op.phase \notin {"stage", "backup", "install", "restore"}
ToolsShape == RotationShape /\ Apart /\ read \in Bundle /\ mixed \in BOOLEAN
RotationInv == ToolsShape /\ (~mixed => AloneInv /\ GoesBack)

LEMMA ShapeTypes ==
  ASSUME RotationShape
  PROVE  /\ cred \in Bundle /\ base \in Bundle /\ snapshot \in Bundle /\ cand \in Bundle \cup {None}
         /\ kept \in KeptRec /\ op \in OpRec /\ cleanup \in CleanupRec
         /\ rotationUsed \in [rotations : Rotation!Version, stops : Nat, faults : Nat]
         /\ None \notin Bundle /\ None \notin Rotation!Status
         /\ op = Rotation!NoOp <=> op.phase = "none"
         /\ cleanup = Rotation!NoOp <=> cleanup.phase = "none"
         /\ Rotation!NoOp \in OpRec /\ Rotation!NoOp \in CleanupRec
         /\ Rotation!NoOp.phase = "none" /\ Rotation!NoOp.todo = {}
<1>1. op = Rotation!NoOp <=> op.phase = "none"
  BY DEF RotationShape, OpRec, Rotation!NoOp
<1>2. cleanup = Rotation!NoOp <=> cleanup.phase = "none"
  BY DEF RotationShape, CleanupRec, Rotation!NoOp
<1>3. /\ Rotation!NoOp \in OpRec /\ Rotation!NoOp \in CleanupRec
      /\ Rotation!NoOp.phase = "none" /\ Rotation!NoOp.todo = {}
  BY DEF OpRec, CleanupRec, Rotation!NoOp, Rotation!Phases
<1> QED
  BY <1>1, <1>2, <1>3, MigrationsAssumption DEF RotationShape, Bundle

LEMMA RotationTypes ==
  ASSUME AloneInv
  PROVE  /\ cred \in Bundle /\ base \in Bundle /\ snapshot \in Bundle /\ cand \in Bundle \cup {None}
         /\ kept \in KeptRec /\ op \in OpRec /\ cleanup \in CleanupRec
         /\ rotationUsed \in [rotations : Rotation!Version, stops : Nat, faults : Nat]
         /\ None \notin Bundle /\ None \notin Rotation!Status
         /\ op = Rotation!NoOp <=> op.phase = "none"
         /\ cleanup = Rotation!NoOp <=> cleanup.phase = "none"
         /\ Rotation!NoOp \in OpRec /\ Rotation!NoOp \in CleanupRec
         /\ Rotation!NoOp.phase = "none" /\ Rotation!NoOp.todo = {}
<1>1. RotationShape
  BY DEF AloneInv
<1> QED  BY <1>1, ShapeTypes

\* Records after a step.
LEMMA KeptEdited ==
  ASSUME kept \in KeptRec
  PROVE  /\ \A m \in Rotation!Status : [kept EXCEPT !.manifest = m] \in KeptRec
         /\ \A n \in Names : /\ base \in Bundle => [kept EXCEPT !.previous[n] = base[n]] \in KeptRec
                             /\ [kept EXCEPT !.previous[n] = None] \in KeptRec
BY DEF KeptRec, Bundle

LEMMA OpEdited ==
  ASSUME op \in OpRec
  PROVE  /\ \A n \in Names : Rotation!Left(n) \in OpRec
         /\ \A n \in Names : Rotation!Left(n).phase = op.phase /\ Rotation!Left(n).todo = op.todo \ {n}
         /\ \A p \in Rotation!Phases, t \in SUBSET Names : [phase |-> p, todo |-> t] \in OpRec
BY DEF OpRec, Rotation!Left

\* Steps of the service, the preflight and the removal of old sources.
LEMMA RotationQuiet ==
  ASSUME AloneInv, UNCHANGED <<cred, cand, kept, op, base>>, snapshot' \in Bundle,
         rotationLegacy' \subseteq Rotation!Sources,
         cleanup' \in CleanupRec, cleanup'.phase = "none" => cleanup'.todo = {},
         OneTool', CleanupPlaces', cleanup # Rotation!NoOp \/ cleanup' = Rotation!NoOp \/ kept.dir,
         rotationUsed' \in [rotations : Rotation!Version, stops : Nat, faults : Nat]
  PROVE  AloneInv'
<1>1. RotationShape'
  BY RotationTypes DEF AloneInv, RotationShape
<1>2. WithoutState' /\ WithState' /\ Places'
  BY DEF AloneInv, WithoutState, WithState, Places, Retained, Rotation!Full
<1> QED  BY <1>1, <1>2 DEF AloneInv

LEMMA RotationSpend ==
  ASSUME RotationShape
  PROVE  /\ Rotation!Spend("stops", MaxStops) =>
              rotationUsed' \in [rotations : Rotation!Version, stops : Nat, faults : Nat]
         /\ Rotation!Spend("faults", MaxRotationFaults) =>
              rotationUsed' \in [rotations : Rotation!Version, stops : Nat, faults : Nat]
         /\ Rotation!Spend("rotations", MaxRotations) =>
              rotationUsed' \in [rotations : Rotation!Version, stops : Nat, faults : Nat]
<1> USE ShapeTypes
<1>1. Rotation!Spend("stops", MaxStops) =>
        rotationUsed' \in [rotations : Rotation!Version, stops : Nat, faults : Nat]
  BY DEF Rotation!Spend
<1>2. Rotation!Spend("faults", MaxRotationFaults) =>
        rotationUsed' \in [rotations : Rotation!Version, stops : Nat, faults : Nat]
  BY DEF Rotation!Spend
<1>3. Rotation!Spend("rotations", MaxRotations) =>
        rotationUsed' \in [rotations : Rotation!Version, stops : Nat, faults : Nat]
  BY MigrationsAssumption DEF Rotation!Spend, Rotation!Version
<1> QED  BY <1>1, <1>2, <1>3

LEMMA OutsideSteps ==
  ASSUME AloneInv, Rotation!Preflight \/ Rotation!Expire \/ Rotation!Stop \/ Rotation!Start
  PROVE  AloneInv'
<1>1. UNCHANGED <<cred, cand, kept, rotationLegacy, op, cleanup, base>>
  BY DEF Rotation!Preflight, Rotation!Expire, Rotation!Stop, Rotation!Start
<1>2. snapshot' \in Bundle
  BY RotationTypes DEF Rotation!Preflight, Rotation!Expire, Rotation!Stop, Rotation!Start
<1>3. rotationUsed' \in [rotations : Rotation!Version, stops : Nat, faults : Nat]
  BY RotationTypes, RotationSpend DEF AloneInv, Rotation!Preflight, Rotation!Expire, Rotation!Stop, Rotation!Start
<1>4. OneTool' /\ CleanupPlaces'
  BY <1>1 DEF AloneInv, OneTool, CleanupPlaces
<1>5. /\ cleanup' \in CleanupRec
      /\ cleanup'.phase = "none" => cleanup'.todo = {}
      /\ rotationLegacy' \subseteq Rotation!Sources
  BY <1>1 DEF AloneInv, RotationShape
<1>6. cleanup # Rotation!NoOp \/ cleanup' = Rotation!NoOp
  BY <1>1
<1> QED  BY <1>1, <1>2, <1>3, <1>4, <1>5, <1>6, RotationQuiet

\* The removal begins only with an activated rotation, and is killed anywhere.
LEMMA RemovalSteps ==
  ASSUME AloneInv, Rotation!BeginCleanup => op = Rotation!NoOp,
         Rotation!BeginCleanup \/ Rotation!RemoveSource \/ Rotation!KillCleanup
  PROVE  AloneInv'
<1>1. UNCHANGED <<cred, cand, kept, snapshot, op, base>>
  BY DEF Rotation!BeginCleanup, Rotation!RemoveSource, Rotation!KillCleanup
<1>2. rotationUsed' \in [rotations : Rotation!Version, stops : Nat, faults : Nat]
  BY RotationTypes, RotationSpend DEF AloneInv, Rotation!BeginCleanup, Rotation!RemoveSource, Rotation!KillCleanup
<1>3. rotationLegacy' \subseteq Rotation!Sources
  BY DEF AloneInv, RotationShape, Rotation!BeginCleanup, Rotation!RemoveSource, Rotation!KillCleanup
<1>4. CASE Rotation!BeginCleanup
  <2>1. cleanup' = [phase |-> "sources", todo |-> Names] /\ op = Rotation!NoOp /\ Rotation!Finalizable
    BY <1>4 DEF Rotation!BeginCleanup
  <2>2. cleanup' \in CleanupRec /\ cleanup'.phase = "sources" /\ cleanup'.todo = Names
    BY <2>1 DEF CleanupRec
  <2>3. kept.dir
    BY <2>1, RotationTypes DEF Rotation!Finalizable, AloneInv, WithoutState, Rotation!NotKept,
       Rotation!Status
  <2>4. CleanupPlaces'
    BY <1>1, <2>1, <2>2 DEF CleanupPlaces, Rotation!Finalizable, Rotation!Full
  <2>5. OneTool'
    BY <1>1, <2>1 DEF OneTool
  <2> QED  BY <1>1, <1>2, <1>3, <2>2, <2>3, <2>4, <2>5, RotationTypes, RotationQuiet
<1>5. CASE Rotation!RemoveSource
  <2>1. cleanup.phase = "sources" /\ (cleanup' = cleanup \/ cleanup' = [cleanup EXCEPT !.phase = "group"])
    BY <1>5 DEF Rotation!RemoveSource
  <2>2. /\ cleanup' \in CleanupRec /\ cleanup'.phase \in {"sources", "group"}
        /\ cleanup'.todo = cleanup.todo /\ cleanup # Rotation!NoOp
    BY <2>1, RotationTypes DEF CleanupRec
  <2>3. cleanup.todo = Names
    BY <2>1, <2>2 DEF AloneInv, CleanupPlaces
  <2>4. CleanupPlaces'
    BY <1>1, <2>2, <2>3 DEF AloneInv, CleanupPlaces
  <2>5. OneTool'
    BY <1>1, <2>2 DEF AloneInv, OneTool
  <2> QED  BY <1>1, <1>2, <1>3, <2>2, <2>4, <2>5, RotationTypes, RotationQuiet
<1>6. CASE Rotation!KillCleanup
  <2>1. cleanup' = Rotation!NoOp /\ cleanup # Rotation!NoOp
    BY <1>6 DEF Rotation!KillCleanup
  <2>2. CleanupPlaces' /\ OneTool'
    BY <2>1 DEF CleanupPlaces, OneTool
  <2> QED  BY <1>1, <1>2, <1>3, <2>1, <2>2, RotationTypes, RotationQuiet
<1> QED  BY <1>4, <1>5, <1>6

\* What is removed of a bundle is the active credential.
LEMMA RemoveBundleInv ==
  ASSUME AloneInv, NEW n \in Names, Rotation!RemoveBundle(n)
  PROVE  AloneInv'
<1> USE RotationTypes
<1>1. /\ cleanup.phase = "group" /\ n \in cleanup.todo /\ cleanup # Rotation!NoOp
      /\ cand' = [cand EXCEPT ![n] = None] /\ kept' = [kept EXCEPT !.previous[n] = None]
      /\ cleanup' = [cleanup EXCEPT !.todo = @ \ {n}] /\ base' = cred
      /\ UNCHANGED <<cred, rotationLegacy, snapshot, op, rotationUsed>>
  BY DEF Rotation!RemoveBundle
<1>2. op = Rotation!NoOp /\ kept.dir
  BY <1>1 DEF AloneInv, OneTool, WithoutState
<1>3. cand \in Bundle /\ cand # None
  BY <1>1 DEF AloneInv, CleanupPlaces
<1>4. /\ cleanup' \in CleanupRec /\ cleanup'.phase = "group" /\ cleanup'.todo = cleanup.todo \ {n}
  BY <1>1 DEF CleanupRec
<1>5. cand' \in Bundle /\ \A m \in Names : cand'[m] = IF m = n THEN None ELSE cand[m]
  BY <1>1, <1>3 DEF Bundle
<1>6. kept' \in KeptRec /\ kept'.dir = kept.dir /\ kept'.previous[n] = None
  <2>1. kept' \in KeptRec
    BY <1>1, KeptEdited
  <2> QED  BY <1>1, <2>1 DEF KeptRec, Bundle
<1>7. RotationShape'
  BY <1>1, <1>4, <1>5, <1>6 DEF AloneInv, RotationShape
<1>8. OneTool'
  BY <1>1, <1>2 DEF OneTool
<1>9. WithoutState'
  BY <1>2, <1>6 DEF WithoutState
<1>10. WithState'
  BY <1>1, <1>2, <1>6 DEF AloneInv, WithState, Rotation!Full
<1>11. Places'
  BY <1>1, <1>2 DEF Places
<1>12. CleanupPlaces'
  BY <1>1, <1>3, <1>4, <1>5 DEF AloneInv, CleanupPlaces
<1> QED  BY <1>7, <1>8, <1>9, <1>10, <1>11, <1>12 DEF AloneInv

LEMMA EndRemovalInv ==
  ASSUME AloneInv, Rotation!EndCleanup
  PROVE  AloneInv' /\ \A n \in Names : cand[n] = None
<1> USE RotationTypes
<1>1. /\ cleanup.phase = "group" /\ cleanup.todo = {} /\ cleanup # Rotation!NoOp
      /\ cleanup' = Rotation!NoOp /\ cand' = None /\ kept' = Rotation!NotKept
      /\ UNCHANGED <<cred, rotationLegacy, snapshot, op, base, rotationUsed>>
  BY DEF Rotation!EndCleanup
<1>2. op = Rotation!NoOp
  BY <1>1 DEF AloneInv, OneTool
<1>3. cred = base
  <2>1. CASE Names = {}
    BY <2>1 DEF Bundle
  <2>2. CASE Names # {}
    BY <1>1, <2>2 DEF AloneInv, CleanupPlaces
  <2> QED  BY <2>1, <2>2
<1>4. kept' \in KeptRec /\ ~kept'.dir
  BY <1>1 DEF Rotation!NotKept, KeptRec, Bundle, Rotation!Empty
<1>5. RotationShape'
  BY <1>1, <1>4 DEF AloneInv, RotationShape
<1>6. OneTool' /\ CleanupPlaces'
  BY <1>1 DEF OneTool, CleanupPlaces
<1>7. WithoutState'
  BY <1>1, <1>2, <1>3 DEF WithoutState
<1>8. WithState'
  BY <1>4 DEF WithState
<1>9. Places'
  BY <1>1, <1>2 DEF Places
<1>10. \A n \in Names : cand[n] = None
  BY <1>1 DEF AloneInv, CleanupPlaces
<1> QED  BY <1>5, <1>6, <1>7, <1>8, <1>9, <1>10 DEF AloneInv

-----------------------------------------------------------------------------
\* A rotation tool runs without a removal.
LEMMA ToolAlone ==
  ASSUME AloneInv, op # Rotation!NoOp
  PROVE  /\ cleanup = Rotation!NoOp /\ op.phase # "none"
         /\ cleanup' = cleanup => OneTool' /\ CleanupPlaces'
<1>1. cleanup = Rotation!NoOp
  BY DEF AloneInv, OneTool
<1> QED  BY <1>1, RotationTypes DEF OneTool, CleanupPlaces

\* A tool begins.
LEMMA BeginTool ==
  ASSUME AloneInv, Rotation!Free, cleanup = Rotation!NoOp
  PROVE  /\ op = Rotation!NoOp /\ cleanup = Rotation!NoOp /\ op.phase = "none"
         /\ cleanup' = cleanup => OneTool' /\ CleanupPlaces'
BY RotationTypes DEF Rotation!Free, OneTool, CleanupPlaces

LEMMA CopySteps ==
  ASSUME AloneInv, Rotation!BeginCopy => cleanup = Rotation!NoOp,
         Rotation!BeginCopy \/ \E n \in Names : Rotation!CopyOne(n)
  PROVE  AloneInv'
<1> USE RotationTypes
<1>1. UNCHANGED <<cand, kept, rotationLegacy, snapshot, cleanup, rotationUsed>>
  BY DEF Rotation!BeginCopy, Rotation!CopyOne
<1>2. OneTool' /\ CleanupPlaces'
  BY <1>1, BeginTool, ToolAlone DEF Rotation!BeginCopy, Rotation!CopyOne
<1>3. CASE Rotation!BeginCopy
  <2>1. op' = [phase |-> "copy", todo |-> {n \in Names : cred[n] = None}] /\ UNCHANGED <<cred, base>>
        /\ ~Rotation!Full(cred)
    BY <1>3 DEF Rotation!BeginCopy
  <2>2. op' \in OpRec /\ op'.phase = "copy"
    BY <2>1 DEF OpRec, Rotation!Phases
  <2>3. ~kept.dir
    BY <2>1 DEF AloneInv, WithState
  <2>4. RotationShape'
    BY <1>1, <2>1, <2>2 DEF AloneInv, RotationShape
  <2>5. WithoutState'
    BY <1>1, <2>1, <2>2 DEF AloneInv, WithoutState
  <2>6. WithState' /\ Places'
    BY <1>1, <2>2, <2>3 DEF WithState, Places
  <2> QED  BY <1>2, <2>4, <2>5, <2>6 DEF AloneInv
<1>4. ASSUME NEW n \in Names, Rotation!CopyOne(n) PROVE AloneInv'
  <2>1. /\ op.phase = "copy" /\ cred' = [cred EXCEPT ![n] = 0] /\ base' = cred'
        /\ op' = Rotation!Left(n)
    BY <1>4 DEF Rotation!CopyOne
  <2>2. op' \in OpRec /\ op'.phase = "copy"
    BY <2>1, OpEdited
  <2>3. ~kept.dir
    BY <2>1 DEF AloneInv, WithState
  <2>4. cred' \in Bundle
    BY <2>1, MigrationsAssumption DEF Bundle, Rotation!Version
  <2>5. RotationShape'
    BY <1>1, <2>1, <2>2, <2>4 DEF AloneInv, RotationShape
  <2>6. WithoutState'
    BY <1>1, <2>1, <2>2 DEF AloneInv, WithoutState
  <2>7. WithState' /\ Places'
    BY <1>1, <2>2, <2>3 DEF WithState, Places
  <2> QED  BY <1>2, <2>5, <2>6, <2>7 DEF AloneInv
<1> QED  BY <1>3, <1>4

\* A tool that ends, is killed or fails while it copies or stages.
LEMMA EndTool ==
  ASSUME AloneInv, op # Rotation!NoOp, op' = Rotation!NoOp,
         UNCHANGED <<cred, kept, rotationLegacy, snapshot, cleanup, base>>,
         cand' = cand \/ cand' = None,
         rotationUsed' \in [rotations : Rotation!Version, stops : Nat, faults : Nat]
  PROVE  AloneInv'
<1> USE RotationTypes
<1>1. OneTool' /\ CleanupPlaces'
  BY ToolAlone
<1>2. RotationShape'
  BY DEF AloneInv, RotationShape
<1>3. WithoutState'
  BY DEF AloneInv, WithoutState
<1>4. WithState'
  BY DEF AloneInv, WithState, Retained, Rotation!Full
<1>5. Places'
  BY DEF Places
<1> QED  BY <1>1, <1>2, <1>3, <1>4, <1>5 DEF AloneInv

LEMMA StageSteps ==
  ASSUME AloneInv, Rotation!BeginStage => cleanup = Rotation!NoOp,
         Rotation!BeginStage \/ \E n \in Names : Rotation!StageOne(n)
  PROVE  AloneInv'
<1> USE RotationTypes
<1>1. UNCHANGED <<cred, kept, rotationLegacy, snapshot, cleanup, base>>
  BY DEF Rotation!BeginStage, Rotation!StageOne
<1>2. OneTool' /\ CleanupPlaces'
  BY <1>1, BeginTool, ToolAlone DEF Rotation!BeginStage, Rotation!StageOne
<1>3. cand' \in Bundle /\ op' \in OpRec /\ op'.phase = "stage" /\ ~kept.dir
  <2>1. CASE Rotation!BeginStage
    <3>1. cand' = Rotation!Empty /\ op' = [phase |-> "stage", todo |-> Names] /\ ~kept.dir
      BY <2>1 DEF Rotation!BeginStage, Rotation!Begin
    <3> QED  BY <3>1 DEF Rotation!Empty, Bundle, OpRec, Rotation!Phases
  <2>2. ASSUME NEW n \in Names, Rotation!StageOne(n)
        PROVE  cand' \in Bundle /\ op' \in OpRec /\ op'.phase = "stage" /\ ~kept.dir
    <3>1. /\ op.phase = "stage" /\ op' = Rotation!Left(n)
          /\ cand' = [cand EXCEPT ![n] = IF n \in Changes THEN rotationUsed.rotations ELSE cred[n]]
      BY <2>2 DEF Rotation!StageOne
    <3>2. op' \in OpRec /\ op'.phase = "stage"
      BY <3>1, OpEdited
    <3>3. cand \in Bundle /\ ~kept.dir
      BY <3>1 DEF AloneInv, Places, WithState
    <3>4. rotationUsed.rotations \in Rotation!Version \cup {None} /\ cred[n] \in Rotation!Version \cup {None}
      BY DEF Bundle
    <3>5. cand' \in Bundle
      BY <3>1, <3>3, <3>4 DEF Bundle
    <3> QED  BY <3>2, <3>3, <3>5
  <2> QED  BY <2>1, <2>2
<1>4. rotationUsed' \in [rotations : Rotation!Version, stops : Nat, faults : Nat]
  BY RotationSpend DEF AloneInv, Rotation!BeginStage, Rotation!StageOne
<1>5. RotationShape'
  BY <1>1, <1>3, <1>4 DEF AloneInv, RotationShape
<1>6. WithoutState'
  BY <1>1, <1>3 DEF AloneInv, WithoutState
<1>7. WithState'
  BY <1>1, <1>3 DEF WithState
<1>8. Places'
  BY <1>3 DEF Places
<1> QED  BY <1>2, <1>5, <1>6, <1>7, <1>8 DEF AloneInv

\* From here on the tools have the directory of the rotation.
LEMMA BeginActivateInv ==
  ASSUME RotationShape, Rotation!BeginActivate, cleanup = Rotation!NoOp
  PROVE  AloneInv'
<1> USE ShapeTypes
<1>1. /\ ~kept.dir /\ Rotation!Full(cred) /\ Rotation!Full(cand) /\ kept' = [Rotation!NotKept EXCEPT !.dir = TRUE]
      /\ op' = [phase |-> "backup", todo |-> Names] /\ base' = cred
      /\ UNCHANGED <<cred, cand, rotationLegacy, snapshot, cleanup, rotationUsed>>
  BY DEF Rotation!BeginActivate, Rotation!Begin
<1>2. OneTool' /\ CleanupPlaces'
  BY <1>1 DEF OneTool, CleanupPlaces
<1>3. op' \in OpRec /\ op'.phase = "backup" /\ op'.todo = Names
  BY <1>1 DEF OpRec, Rotation!Phases
<1>4. kept' \in KeptRec /\ kept'.dir /\ \A n \in Names : kept'.previous[n] = None
  BY <1>1 DEF Rotation!NotKept, KeptRec, Bundle, Rotation!Empty
<1>5. RotationShape'
  BY <1>1, <1>3, <1>4 DEF RotationShape
<1>6. WithoutState'
  BY <1>4 DEF WithoutState
<1>7. WithState'
  BY <1>1, <1>3, <1>4 DEF WithState, Rotation!Full
<1>8. Places'
  BY <1>1, <1>3 DEF Places, Rotation!Full
<1> QED  BY <1>2, <1>5, <1>6, <1>7, <1>8 DEF AloneInv

\* What a tool that works on the directory may rely on.
LEMMA Working ==
  ASSUME AloneInv, op.phase \in {"backup", "install", "restore", "rollback"}
  PROVE  /\ kept.dir /\ op # Rotation!NoOp /\ Rotation!Full(cred) /\ Rotation!Full(base)
         /\ cred # base => Retained
         /\ \A n \in Names : kept.previous[n] \in {None, base[n]}
BY RotationTypes DEF AloneInv, WithoutState, WithState

LEMMA BackupInv ==
  ASSUME AloneInv, NEW n \in Names, Rotation!Backup(n)
  PROVE  AloneInv'
<1> USE RotationTypes
<1>1. /\ op.phase = "backup" /\ kept' = [kept EXCEPT !.previous[n] = base[n]] /\ op' = Rotation!Left(n)
      /\ UNCHANGED <<cred, cand, rotationLegacy, snapshot, cleanup, base, rotationUsed>>
  BY DEF Rotation!Backup
<1>2. /\ kept.dir /\ op # Rotation!NoOp /\ Rotation!Full(cred) /\ Rotation!Full(base)
      /\ \A m \in Names : kept.previous[m] \in {None, base[m]}
  BY <1>1, Working
<1>3. cred = base /\ \A m \in Names \ op.todo : kept.previous[m] = base[m]
  BY <1>1 DEF AloneInv, Places
<1>4. OneTool' /\ CleanupPlaces'
  BY <1>1, <1>2, ToolAlone
<1>5. op' \in OpRec /\ op'.phase = "backup" /\ op'.todo = op.todo \ {n}
  BY <1>1, OpEdited
<1>6. /\ kept' \in KeptRec /\ kept'.dir = kept.dir
      /\ \A m \in Names : kept'.previous[m] = IF m = n THEN base[n] ELSE kept.previous[m]
  <2>1. kept' \in KeptRec
    BY <1>1, KeptEdited
  <2> QED  BY <1>1, <2>1 DEF KeptRec, Bundle
<1>7. RotationShape'
  BY <1>1, <1>5, <1>6 DEF AloneInv, RotationShape
<1>8. WithoutState'
  BY <1>2, <1>6 DEF WithoutState
<1>9. WithState'
  BY <1>1, <1>2, <1>3, <1>5, <1>6 DEF WithState, Rotation!Full
<1>10. Places'
  BY <1>1, <1>3, <1>5, <1>6 DEF AloneInv, Places, Rotation!Full
<1> QED  BY <1>4, <1>7, <1>8, <1>9, <1>10 DEF AloneInv

LEMMA PrepareInv ==
  ASSUME AloneInv, Rotation!Prepare
  PROVE  AloneInv'
<1> USE RotationTypes
<1>1. /\ op.phase = "backup" /\ op.todo = {} /\ kept' = [kept EXCEPT !.manifest = "prepared"]
      /\ op' = [phase |-> "install", todo |-> Names]
      /\ UNCHANGED <<cred, cand, rotationLegacy, snapshot, cleanup, base, rotationUsed>>
  BY DEF Rotation!Prepare, Rotation!Begin
<1>2. /\ kept.dir /\ op # Rotation!NoOp /\ Rotation!Full(cred) /\ Rotation!Full(base)
  BY <1>1, Working
<1>3. cred = base /\ Rotation!Full(cand) /\ \A m \in Names : kept.previous[m] = base[m]
  BY <1>1 DEF AloneInv, Places
<1>4. kept.previous = base
  BY <1>3 DEF KeptRec, Bundle
<1>5. OneTool' /\ CleanupPlaces'
  BY <1>1, <1>2, ToolAlone
<1>6. op' \in OpRec /\ op'.phase = "install"
  BY <1>1 DEF OpRec, Rotation!Phases
<1>7. /\ kept' \in KeptRec /\ kept'.dir = kept.dir /\ kept'.previous = base
      /\ kept'.manifest = "prepared"
  BY <1>1, <1>4 DEF KeptRec, Rotation!Status
<1>8. RotationShape'
  BY <1>1, <1>6, <1>7 DEF AloneInv, RotationShape
<1>9. WithoutState'
  BY <1>2, <1>7 DEF WithoutState
<1>10. Retained'
  BY <1>1, <1>7 DEF Retained, Rotation!Status
<1>11. WithState'
  BY <1>1, <1>2, <1>6, <1>7, <1>10 DEF WithState, Rotation!Full
<1>12. Places'
  BY <1>1, <1>3, <1>6, <1>10 DEF Places, Rotation!Full
<1> QED  BY <1>5, <1>8, <1>9, <1>11, <1>12 DEF AloneInv

\* The candidates are installed and old files are put back one by one.
LEMMA WriteSteps ==
  ASSUME AloneInv, GoesBack, NEW n \in Names, Rotation!Install(n) \/ Rotation!Restore(n)
  PROVE  AloneInv'
<1> USE RotationTypes
<1> DEFINE v == IF op.phase = "install" THEN cand[n]
                ELSE IF op.phase = "restore" THEN base[n] ELSE read[n]
<1>1. /\ op.phase \in {"install", "restore", "rollback"} /\ n \in op.todo
      /\ cred' = [cred EXCEPT ![n] = v] /\ op' = Rotation!Left(n)
      /\ UNCHANGED <<cand, kept, rotationLegacy, snapshot, cleanup, base, rotationUsed>>
  BY DEF Rotation!Install, Rotation!Restore
<1>2. /\ kept.dir /\ op # Rotation!NoOp /\ Rotation!Full(cred) /\ Rotation!Full(base)
      /\ cred # base => Retained
      /\ \A m \in Names : kept.previous[m] \in {None, base[m]}
  BY <1>1, Working
<1>3. op.phase \in {"install", "rollback"} => Retained
  BY DEF AloneInv, Places
<1>4. op.phase = "install" => Rotation!Full(cand)
  BY DEF AloneInv, Places
<1>5. v \in Rotation!Version \cup {None} /\ v # None
  BY <1>1, <1>2, <1>4 DEF Rotation!Full, GoesBack, Bundle
<1>6. op.phase \in {"restore", "rollback"} => v = base[n]
  BY DEF GoesBack
<1> HIDE DEF v
<1>7. cred' \in Bundle /\ \A m \in Names : cred'[m] = IF m = n THEN v ELSE cred[m]
  BY <1>1, <1>5 DEF Bundle
<1>8. Rotation!Full(cred)'
  BY <1>2, <1>5, <1>7 DEF Rotation!Full
<1>9. OneTool' /\ CleanupPlaces'
  BY <1>1, <1>2, ToolAlone
<1>10. op' \in OpRec /\ op'.phase = op.phase /\ op'.todo = op.todo \ {n}
  BY <1>1, OpEdited
<1>11. cred' # base => Retained
  <2>1. CASE op.phase = "restore" /\ cred = base
    <3>1. cred' = base
      BY <1>1, <1>6, <2>1 DEF Bundle
    <3> QED  BY <3>1
  <2> QED  BY <1>1, <1>2, <1>3, <2>1
<1>12. Retained' <=> Retained
  BY <1>1 DEF Retained
<1>13. RotationShape'
  BY <1>1, <1>7, <1>10 DEF AloneInv, RotationShape
<1>14. WithoutState'
  BY <1>1, <1>2 DEF WithoutState
<1>15. WithState'
  BY <1>1, <1>2, <1>8, <1>10, <1>11, <1>12 DEF WithState, Rotation!Full
<1>16. Places'
  <2>1. op.phase \in {"restore", "rollback"} => \A m \in Names \ op'.todo : cred'[m] = base[m]
    BY <1>1, <1>6, <1>7, <1>10 DEF AloneInv, Places
  <2>2. op.phase = "install" => Rotation!Full(cand)'
    BY <1>1, <1>4 DEF Rotation!Full
  <2> QED  BY <1>1, <1>3, <1>10, <1>12, <2>1, <2>2 DEF Places
<1> QED  BY <1>9, <1>13, <1>14, <1>15, <1>16 DEF AloneInv

\* The manifest comes last.
LEMMA ManifestSteps ==
  ASSUME AloneInv, Rotation!Activated \/ Rotation!Restored
  PROVE  AloneInv' /\ (Rotation!Restored => cred' = base)
<1> USE RotationTypes
<1>1. /\ op.phase \in {"install", "restore", "rollback"} /\ op' = Rotation!NoOp
      /\ UNCHANGED <<cred, cand, rotationLegacy, snapshot, cleanup, base, rotationUsed>>
  BY DEF Rotation!Activated, Rotation!Restored
<1>2. /\ kept.dir /\ op # Rotation!NoOp /\ Rotation!Full(cred) /\ Rotation!Full(base)
      /\ cred # base => Retained
      /\ \A m \in Names : kept.previous[m] \in {None, base[m]}
  BY <1>1, Working
<1>3. Rotation!Restored => cred = base
  <2>1. Rotation!Restored => op.phase \in {"restore", "rollback"} /\ op.todo = {}
    BY DEF Rotation!Restored
  <2>2. Rotation!Restored => \A m \in Names : cred[m] = base[m]
    BY <2>1 DEF AloneInv, Places
  <2> QED  BY <2>2 DEF Bundle
<1>4. PICK m \in {"activated", "rolled-back", "rolled-back-after-failure"} :
        /\ kept' = [kept EXCEPT !.manifest = m]
        /\ Rotation!Activated => m = "activated"
  <2>1. CASE Rotation!Activated
    BY <2>1 DEF Rotation!Activated
  <2>2. CASE Rotation!Restored
    <3>1. op.phase # "install"
      BY <2>2 DEF Rotation!Restored
    <3>2. ~Rotation!Activated
      BY <3>1 DEF Rotation!Activated
    <3> QED  BY <1>2, <2>2, <3>2 DEF Rotation!Restored
  <2> QED  BY <2>1, <2>2
<1>5. /\ kept' \in KeptRec /\ kept'.dir = kept.dir /\ kept'.previous = kept.previous /\ kept'.manifest = m
  BY <1>4 DEF KeptRec, Rotation!Status
<1>6. cred' # base' => Retained'
  <2>1. CASE Rotation!Restored
    BY <1>1, <1>3, <2>1
  <2>2. CASE Rotation!Activated
    <3>1. Retained
      BY <2>2 DEF Rotation!Activated, AloneInv, Places
    <3> QED  BY <1>1, <1>4, <1>5, <2>2, <3>1 DEF Retained, Rotation!Status
  <2> QED  BY <2>1, <2>2
<1>7. OneTool' /\ CleanupPlaces'
  BY <1>1, <1>2, ToolAlone
<1>8. RotationShape'
  BY <1>1, <1>5 DEF AloneInv, RotationShape
<1>9. WithoutState'
  BY <1>2, <1>5 DEF WithoutState
<1>10. WithState'
  BY <1>1, <1>2, <1>5, <1>6 DEF WithState, Rotation!Full
<1>11. Places'
  BY <1>1 DEF Places
<1> QED  BY <1>1, <1>3, <1>7, <1>8, <1>9, <1>10, <1>11 DEF AloneInv

\* A tool that goes back, because it failed or because it was asked to.
LEMMA GoBack ==
  ASSUME AloneInv, NEW p \in {"restore", "rollback"}, op' = [phase |-> p, todo |-> Names],
         UNCHANGED <<cred, cand, kept, rotationLegacy, snapshot, cleanup, base>>, kept.dir,
         \A n \in Names : kept.previous[n] \in {None, base[n]},
         cleanup = Rotation!NoOp, p = "rollback" => Retained,
         rotationUsed' \in [rotations : Rotation!Version, stops : Nat, faults : Nat]
  PROVE  AloneInv'
<1> USE RotationTypes
<1>1. op' \in OpRec /\ op'.phase = p /\ op'.todo = Names
  BY DEF OpRec, Rotation!Phases
<1>2. OneTool' /\ CleanupPlaces'
  BY DEF OneTool, CleanupPlaces
<1>3. RotationShape'
  BY <1>1 DEF AloneInv, RotationShape
<1>4. WithoutState'
  BY DEF WithoutState
<1>5. WithState'
  BY <1>1 DEF AloneInv, WithState, Retained, Rotation!Full
<1>6. Places'
  BY <1>1 DEF Places, Retained
<1> QED  BY <1>2, <1>3, <1>4, <1>5, <1>6 DEF AloneInv

LEMMA RollbackInv ==
  ASSUME AloneInv, Rotation!BeginRollback, cleanup = Rotation!NoOp
  PROVE  AloneInv'
<1> USE RotationTypes
<1>1. /\ kept.dir /\ kept.manifest \in Rotation!Status \ {"rolled-back"} /\ Rotation!Full(kept.previous)
      /\ op' = [phase |-> "rollback", todo |-> Names]
      /\ UNCHANGED <<cred, cand, kept, rotationLegacy, snapshot, cleanup, base, rotationUsed>>
  BY DEF Rotation!BeginRollback, Rotation!Begin
<1>2. cleanup = Rotation!NoOp
  OBVIOUS
<1>3. \A n \in Names : kept.previous[n] # None
  BY <1>1 DEF Rotation!Full
<1>4. \A n \in Names : kept.previous[n] = base[n]
  BY <1>1, <1>3 DEF AloneInv, WithState
<1>5. kept.previous = base
  BY <1>4 DEF KeptRec, Bundle
<1>6. Retained
  BY <1>1, <1>5 DEF Retained
<1> QED  BY <1>1, <1>2, <1>4, <1>6, GoBack

LEMMA FaultSteps ==
  ASSUME AloneInv,
         Rotation!EndCopy \/ Rotation!EndStage \/ Rotation!Fault \/ Rotation!Kill
  PROVE  AloneInv'
<1> USE RotationTypes
<1>1. UNCHANGED <<cred, kept, rotationLegacy, snapshot, cleanup, base>> /\ op # Rotation!NoOp
  BY DEF Rotation!EndCopy, Rotation!EndStage, Rotation!Fault, Rotation!Kill
<1>2. rotationUsed' \in [rotations : Rotation!Version, stops : Nat, faults : Nat]
  BY RotationSpend DEF AloneInv, Rotation!EndCopy, Rotation!EndStage, Rotation!Fault, Rotation!Kill
<1>3. CASE op' = Rotation!NoOp
  <2>1. cand' = cand \/ cand' = None
    BY DEF Rotation!EndCopy, Rotation!EndStage, Rotation!Fault, Rotation!Kill
  <2> QED  BY <1>1, <1>2, <1>3, <2>1, EndTool
<1>4. CASE op' # Rotation!NoOp
  <2>1. /\ op.phase \in {"backup", "install"} /\ op' = [phase |-> "restore", todo |-> Names]
        /\ cand' = cand
    BY <1>4 DEF Rotation!EndCopy, Rotation!EndStage, Rotation!Fault, Rotation!Kill, Rotation!Begin
  <2>2. kept.dir /\ \A n \in Names : kept.previous[n] \in {None, base[n]}
    BY <2>1, Working
  <2> QED  BY <1>1, <1>2, <2>1, <2>2, ToolAlone, GoBack
<1> QED  BY <1>3, <1>4

-----------------------------------------------------------------------------
(* A rotation tool beside a removal, which takes no lock: the types, and    *)
(* what the tools need, are kept.                                           *)

\* Steps that change no tool, and no directory.
LEMMA ToolsOutside ==
  ASSUME ToolsShape,
         \/ Rotation!Preflight \/ Rotation!Expire \/ Rotation!Stop \/ Rotation!Start
         \/ Rotation!BeginCleanup \/ Rotation!RemoveSource \/ Rotation!KillCleanup
  PROVE  ToolsShape'
<1>0. RotationShape /\ Apart /\ read \in Bundle /\ mixed \in BOOLEAN
  BY DEF ToolsShape
<1> USE <1>0, ShapeTypes
<1>1. UNCHANGED <<cred, cand, kept, op, base, read>> /\ mixed' \in BOOLEAN
  BY DEF Rotation!Preflight, Rotation!Expire, Rotation!Stop, Rotation!Start, Rotation!BeginCleanup,
         Rotation!RemoveSource, Rotation!KillCleanup
<1>2. snapshot' \in Bundle
  BY DEF Rotation!Preflight, Rotation!Expire, Rotation!Stop, Rotation!Start, Rotation!BeginCleanup,
         Rotation!RemoveSource, Rotation!KillCleanup
<1>3. rotationUsed' \in [rotations : Rotation!Version, stops : Nat, faults : Nat]
  BY RotationSpend DEF Rotation!Preflight, Rotation!Expire, Rotation!Stop, Rotation!Start,
     Rotation!BeginCleanup, Rotation!RemoveSource, Rotation!KillCleanup
<1>4. rotationLegacy' \subseteq Rotation!Sources
  BY DEF RotationShape, Rotation!Preflight, Rotation!Expire, Rotation!Stop, Rotation!Start,
         Rotation!BeginCleanup, Rotation!RemoveSource, Rotation!KillCleanup
<1>5. /\ cleanup' \in CleanupRec
      /\ cleanup'.phase = "none" => cleanup'.todo = {}
  <2>1. CASE Rotation!BeginCleanup
    BY <2>1 DEF Rotation!BeginCleanup, CleanupRec
  <2>2. CASE Rotation!RemoveSource
    <3>1. cleanup.phase = "sources" /\ (cleanup' = cleanup \/ cleanup' = [cleanup EXCEPT !.phase = "group"])
      BY <2>2 DEF Rotation!RemoveSource
    <3> QED  BY <3>1 DEF CleanupRec
  <2>3. CASE Rotation!KillCleanup
    BY <2>3 DEF Rotation!KillCleanup
  <2>4. CASE cleanup' = cleanup
    BY <2>4 DEF RotationShape
  <2> QED
    BY <2>1, <2>2, <2>3, <2>4
       DEF Rotation!Preflight, Rotation!Expire, Rotation!Stop, Rotation!Start
<1>6. cleanup' # Rotation!NoOp =>
        kept.dir /\ cand # None /\ op.phase \notin {"stage", "backup", "install", "restore"}
  <2>1. CASE Rotation!BeginCleanup
    <3>1. kept.manifest = "activated" /\ Rotation!Full(cand)
      BY <2>1 DEF Rotation!BeginCleanup, Rotation!Finalizable
    <3>2. kept.dir
      BY <3>1 DEF Apart, Rotation!NotKept, Rotation!Status
    <3> QED  BY <3>1, <3>2 DEF Apart, Rotation!Full
  <2>2. CASE ~Rotation!BeginCleanup
    <3>1. cleanup' # Rotation!NoOp => cleanup # Rotation!NoOp
      <4>1. Rotation!RemoveSource => cleanup # Rotation!NoOp
        BY DEF Rotation!RemoveSource
      <4> QED
        BY <2>2, <4>1 DEF Rotation!Preflight, Rotation!Expire, Rotation!Stop, Rotation!Start,
                          Rotation!KillCleanup
    <3> QED  BY <3>1 DEF Apart
  <2> QED  BY <2>1, <2>2
<1>7. RotationShape'
  BY <1>1, <1>2, <1>3, <1>4, <1>5 DEF RotationShape
<1>8. Apart'
  BY <1>1, <1>6 DEF Apart
<1> QED  BY <1>1, <1>7, <1>8 DEF ToolsShape

\* The removal of the bundles.
LEMMA ToolsRemoval ==
  ASSUME ToolsShape, Rotation!EndCleanup \/ \E n \in Names : Rotation!RemoveBundle(n)
  PROVE  ToolsShape'
<1>0. RotationShape /\ Apart /\ read \in Bundle /\ mixed \in BOOLEAN
  BY DEF ToolsShape
<1> USE <1>0, ShapeTypes
<1>1. ASSUME NEW n \in Names, Rotation!RemoveBundle(n) PROVE ToolsShape'
  <2>1. /\ cleanup.phase = "group" /\ cleanup # Rotation!NoOp
        /\ cand' = [cand EXCEPT ![n] = None] /\ kept' = [kept EXCEPT !.previous[n] = None]
        /\ cleanup' = [cleanup EXCEPT !.todo = @ \ {n}] /\ base' = cred
        /\ UNCHANGED <<cred, rotationLegacy, snapshot, op, rotationUsed, read, mixed>>
    BY <1>1 DEF Rotation!RemoveBundle
  <2>2. kept.dir /\ cand \in Bundle /\ op.phase \notin {"stage", "backup", "install", "restore"}
    BY <2>1 DEF Apart
  <2>3. cleanup' \in CleanupRec /\ cleanup'.phase = "group"
    BY <2>1 DEF CleanupRec
  <2>4. cand' \in Bundle
    BY <2>1, <2>2 DEF Bundle
  <2>5. kept' \in KeptRec
    BY <2>1, KeptEdited
  <2>6. kept'.dir
    BY <2>1, <2>2 DEF KeptRec
  <2>7. RotationShape'
    BY <2>1, <2>3, <2>4, <2>5 DEF RotationShape
  <2>8. Apart'
    BY <2>1, <2>2, <2>4, <2>6 DEF Apart
  <2> QED  BY <2>1, <2>7, <2>8 DEF ToolsShape
<1>2. CASE Rotation!EndCleanup
  <2>1. /\ cleanup # Rotation!NoOp /\ cleanup' = Rotation!NoOp /\ cand' = None /\ kept' = Rotation!NotKept
        /\ UNCHANGED <<cred, rotationLegacy, snapshot, op, base, rotationUsed, read, mixed>>
    BY <1>2 DEF Rotation!EndCleanup
  <2>2. op.phase \notin {"stage", "backup", "install", "restore"}
    BY <2>1 DEF Apart
  <2>3. kept' \in KeptRec
    BY <2>1 DEF Rotation!NotKept, KeptRec, Bundle, Rotation!Empty
  <2>4. RotationShape'
    BY <2>1, <2>3 DEF RotationShape
  <2>5. Apart'
    BY <2>1, <2>2 DEF Apart
  <2> QED  BY <2>1, <2>4, <2>5 DEF ToolsShape
<1> QED  BY <1>1, <1>2

\* The tools that begin.
LEMMA ToolsBegin ==
  ASSUME ToolsShape,
         \/ Rotation!BeginCopy \/ Rotation!BeginStage \/ Rotation!BeginActivate \/ Rotation!BeginRollback
  PROVE  ToolsShape'
<1>0. RotationShape /\ Apart /\ read \in Bundle /\ mixed \in BOOLEAN
  BY DEF ToolsShape
<1> USE <1>0, ShapeTypes
<1>1. /\ UNCHANGED <<cred, rotationLegacy, snapshot, cleanup>>
      /\ op'.phase \in {"copy", "stage", "backup", "rollback"} /\ op' \in OpRec
      /\ mixed' \in BOOLEAN
  <2>1. mixed' = (mixed \/ cleanup # Rotation!NoOp) \/ mixed' = (cleanup # Rotation!NoOp)
    BY DEF Rotation!BeginCopy, Rotation!BeginStage, Rotation!BeginActivate, Rotation!BeginRollback,
           Rotation!Mixes
  <2>2. mixed' \in BOOLEAN
    BY <2>1, Zenon
  <2>3. /\ UNCHANGED <<cred, rotationLegacy, snapshot, cleanup>>
        /\ \E p \in {"copy", "stage", "backup", "rollback"}, t \in SUBSET Names :
             op' = [phase |-> p, todo |-> t]
    BY DEF Rotation!BeginCopy, Rotation!BeginStage, Rotation!BeginActivate, Rotation!BeginRollback,
           Rotation!Begin
  <2>4. op'.phase \in {"copy", "stage", "backup", "rollback"} /\ op' \in OpRec
    BY <2>3 DEF OpRec, Rotation!Phases
  <2> QED  BY <2>2, <2>3, <2>4
<1>2. rotationUsed' \in [rotations : Rotation!Version, stops : Nat, faults : Nat]
  BY RotationSpend DEF Rotation!BeginCopy, Rotation!BeginStage, Rotation!BeginActivate, Rotation!BeginRollback
<1>3. ~kept.dir => cleanup = Rotation!NoOp
  BY DEF Apart
<1>4. CASE Rotation!BeginCopy \/ Rotation!BeginRollback
  <2>1. UNCHANGED <<cand, kept, base>> /\ op'.phase \in {"copy", "rollback"}
    BY <1>4 DEF Rotation!BeginCopy, Rotation!BeginRollback, Rotation!Begin
  <2>2. read' \in Bundle
    BY <1>4 DEF Rotation!BeginCopy, Rotation!BeginRollback, KeptRec
  <2>3. RotationShape'
    BY <1>1, <1>2, <2>1 DEF RotationShape
  <2>4. Apart'
    BY <1>1, <2>1 DEF Apart
  <2> QED  BY <1>1, <2>2, <2>3, <2>4 DEF ToolsShape
<1>5. CASE Rotation!BeginStage
  <2>1. ~kept.dir /\ cand' = Rotation!Empty /\ op'.phase = "stage" /\ UNCHANGED <<kept, base, read>>
    BY <1>5 DEF Rotation!BeginStage, Rotation!Begin
  <2>2. cand' \in Bundle
    BY <2>1 DEF Rotation!Empty, Bundle
  <2>3. RotationShape'
    BY <1>1, <1>2, <2>1, <2>2 DEF RotationShape
  <2>4. Apart'
    BY <1>1, <1>3, <2>1, <2>2 DEF Apart
  <2> QED  BY <1>1, <2>1, <2>3, <2>4 DEF ToolsShape
<1>6. CASE Rotation!BeginActivate
  <2>1. /\ ~kept.dir /\ kept' = [Rotation!NotKept EXCEPT !.dir = TRUE] /\ Rotation!Full(cand)
        /\ op'.phase = "backup" /\ base' = cred /\ UNCHANGED <<cand, read>>
    BY <1>6 DEF Rotation!BeginActivate, Rotation!Begin
  <2>2. kept' \in KeptRec /\ kept'.dir /\ kept'.manifest = None
    BY <2>1 DEF Rotation!NotKept, KeptRec, Bundle, Rotation!Empty
  <2>3. cand # None
    BY <2>1 DEF Rotation!Full
  <2>4. None # "activated"
    BY DEF Rotation!Status
  <2>5. RotationShape'
    BY <1>1, <1>2, <2>1, <2>2 DEF RotationShape
  <2>6. Apart'
    BY <1>1, <1>3, <2>1, <2>2, <2>3, <2>4 DEF Apart
  <2> QED  BY <1>1, <2>1, <2>5, <2>6 DEF ToolsShape
<1> QED  BY <1>4, <1>5, <1>6

\* The files a tool writes one by one.
LEMMA ToolsWrite ==
  ASSUME ToolsShape, NEW n \in Names,
         \/ Rotation!CopyOne(n) \/ Rotation!StageOne(n) \/ Rotation!Backup(n)
         \/ Rotation!Install(n) \/ Rotation!Restore(n)
  PROVE  ToolsShape'
<1>0. RotationShape /\ Apart /\ read \in Bundle /\ mixed \in BOOLEAN
  BY DEF ToolsShape
<1> USE <1>0, ShapeTypes
<1>1. /\ op' = Rotation!Left(n)
      /\ UNCHANGED <<rotationLegacy, snapshot, cleanup, rotationUsed, read, mixed>>
  BY DEF Rotation!CopyOne, Rotation!StageOne, Rotation!Backup, Rotation!Install, Rotation!Restore
<1>2. op' \in OpRec /\ op'.phase = op.phase /\ op.phase # "none"
  <2>1. op.phase # "none"
    BY DEF Rotation!CopyOne, Rotation!StageOne, Rotation!Backup, Rotation!Install, Rotation!Restore
  <2> QED  BY <1>1, <2>1, OpEdited
<1>3. CASE Rotation!StageOne(n)
  <2>1. /\ op.phase = "stage" /\ UNCHANGED <<cred, kept, base>>
        /\ cand' = [cand EXCEPT ![n] = IF n \in Changes THEN rotationUsed.rotations ELSE cred[n]]
    BY <1>3 DEF Rotation!StageOne
  <2>2. cand \in Bundle
    BY <2>1 DEF Apart
  <2>3. rotationUsed.rotations \in Rotation!Version \cup {None} /\ cred[n] \in Rotation!Version \cup {None}
    BY DEF Bundle
  <2>4. cand' \in Bundle
    BY <2>1, <2>2, <2>3 DEF Bundle
  <2>5. RotationShape'
    BY <1>1, <1>2, <2>1, <2>4 DEF RotationShape
  <2>6. Apart'
    BY <1>1, <1>2, <2>1, <2>4 DEF Apart
  <2> QED  BY <1>1, <2>5, <2>6 DEF ToolsShape
<1>4. CASE Rotation!Backup(n)
  <2>1. kept' = [kept EXCEPT !.previous[n] = base[n]] /\ op.phase = "backup" /\ UNCHANGED <<cred, cand, base>>
    BY <1>4 DEF Rotation!Backup
  <2>2. kept' \in KeptRec
    BY <2>1, KeptEdited
  <2>3. kept'.dir = kept.dir /\ kept'.manifest = kept.manifest
    BY <2>1 DEF KeptRec
  <2>4. kept.dir
    BY <2>1 DEF Apart
  <2>5. RotationShape'
    BY <1>1, <1>2, <2>1, <2>2 DEF RotationShape
  <2>6. Apart'
    BY <1>1, <1>2, <2>1, <2>3, <2>4 DEF Apart
  <2> QED  BY <1>1, <2>5, <2>6 DEF ToolsShape
<1>5. CASE Rotation!CopyOne(n) \/ Rotation!Install(n) \/ Rotation!Restore(n)
  <2>1. UNCHANGED <<cand, kept>>
    BY <1>5 DEF Rotation!CopyOne, Rotation!Install, Rotation!Restore
  <2>2. cred' \in Bundle
    <3>1. CASE Rotation!CopyOne(n)
      BY <3>1, MigrationsAssumption DEF Rotation!CopyOne, Bundle, Rotation!Version
    <3>2. CASE Rotation!Install(n)
      <4>1. cand \in Bundle /\ cred' = [cred EXCEPT ![n] = cand[n]]
        BY <3>2 DEF Rotation!Install, Apart
      <4> QED  BY <4>1 DEF Bundle
    <3>3. CASE Rotation!Restore(n)
      BY <3>3 DEF Rotation!Restore, Bundle
    <3> QED  BY <1>5, <3>1, <3>2, <3>3
  <2>3. base' \in Bundle
    BY <1>5, <2>2 DEF Rotation!CopyOne, Rotation!Install, Rotation!Restore
  <2>4. RotationShape'
    BY <1>1, <1>2, <2>1, <2>2, <2>3 DEF RotationShape
  <2>5. Apart'
    BY <1>1, <1>2, <2>1 DEF Apart
  <2> QED  BY <1>1, <2>4, <2>5 DEF ToolsShape
<1> QED  BY <1>3, <1>4, <1>5

\* The steps between, the ends and the failures of the tools.
LEMMA ToolsEnd ==
  ASSUME ToolsShape,
         \/ Rotation!EndCopy \/ Rotation!EndStage \/ Rotation!Prepare \/ Rotation!Activated
         \/ Rotation!Restored \/ Rotation!Fault \/ Rotation!Kill
  PROVE  ToolsShape'
<1>0. RotationShape /\ Apart /\ read \in Bundle /\ mixed \in BOOLEAN
  BY DEF ToolsShape
<1> USE <1>0, ShapeTypes
<1>1. UNCHANGED <<cred, base, rotationLegacy, snapshot, cleanup, read, mixed>> /\ op.phase # "none"
  BY DEF Rotation!EndCopy, Rotation!EndStage, Rotation!Prepare, Rotation!Activated, Rotation!Restored,
         Rotation!Fault, Rotation!Kill
<1>2. rotationUsed' \in [rotations : Rotation!Version, stops : Nat, faults : Nat]
  BY RotationSpend DEF Rotation!EndCopy, Rotation!EndStage, Rotation!Prepare, Rotation!Activated,
     Rotation!Restored, Rotation!Fault, Rotation!Kill
<1>3. CASE Rotation!Prepare
  <2>1. /\ op.phase = "backup" /\ kept' = [kept EXCEPT !.manifest = "prepared"]
        /\ op' = [phase |-> "install", todo |-> Names] /\ cand' = cand
    BY <1>3 DEF Rotation!Prepare, Rotation!Begin
  <2>2. op' \in OpRec /\ op'.phase = "install"
    BY <2>1 DEF OpRec, Rotation!Phases
  <2>3. kept' \in KeptRec /\ kept'.dir = kept.dir /\ kept'.manifest = "prepared"
    BY <2>1 DEF KeptRec, Rotation!Status
  <2>4. RotationShape'
    BY <1>1, <1>2, <2>1, <2>2, <2>3 DEF RotationShape
  <2>5. Apart'
    BY <1>1, <2>1, <2>2, <2>3 DEF Apart
  <2> QED  BY <1>1, <2>4, <2>5 DEF ToolsShape
<1>4. CASE Rotation!Activated \/ Rotation!Restored
  <2>1. op' = Rotation!NoOp /\ cand' = cand
    BY <1>4 DEF Rotation!Activated, Rotation!Restored
  <2>2. kept' \in KeptRec /\ kept'.dir = kept.dir /\ (~kept.dir => kept' = kept)
    <3>1. CASE Rotation!Activated
      <4>1. kept' = [kept EXCEPT !.manifest = "activated"] /\ kept.dir
        BY <3>1 DEF Rotation!Activated, Apart
      <4> QED  BY <4>1 DEF KeptRec, Rotation!Status
    <3>2. CASE Rotation!Restored
      <4>1. ~kept.dir => kept' = kept
        BY <3>2 DEF Rotation!Restored
      <4>2. kept.dir => \E m \in {"rolled-back", "rolled-back-after-failure"} : kept' = [kept EXCEPT !.manifest = m]
        BY <3>2 DEF Rotation!Restored
      <4> QED  BY <4>1, <4>2 DEF KeptRec, Rotation!Status
    <3> QED  BY <1>4, <3>1, <3>2
  <2>3. RotationShape'
    BY <1>1, <1>2, <2>1, <2>2 DEF RotationShape
  <2>4. Apart'
    BY <1>1, <2>1, <2>2 DEF Apart
  <2> QED  BY <1>1, <2>3, <2>4 DEF ToolsShape
<1>5. CASE Rotation!EndCopy \/ Rotation!EndStage \/ Rotation!Fault \/ Rotation!Kill
  <2>1. /\ kept' = kept
        /\ \/ cand' = cand
           \/ cand' = None /\ op.phase = "stage" /\ op' = Rotation!NoOp
        /\ \/ op' = Rotation!NoOp
           \/ op.phase \in {"backup", "install"} /\ op' = [phase |-> "restore", todo |-> Names]
    BY <1>5 DEF Rotation!EndCopy, Rotation!EndStage, Rotation!Fault, Rotation!Kill, Rotation!Begin
  <2>2. /\ op' \in OpRec
        /\ op'.phase = "none" => op'.todo = {}
        /\ \/ op' = Rotation!NoOp
           \/ op.phase \in {"backup", "install"} /\ op'.phase = "restore"
    BY <2>1 DEF OpRec, Rotation!Phases
  <2>3. RotationShape'
    BY <1>1, <1>2, <2>1, <2>2 DEF RotationShape
  <2>4. Apart'
    BY <1>1, <2>1, <2>2 DEF Apart
  <2> QED  BY <1>1, <2>3, <2>4 DEF ToolsShape
<1> QED  BY <1>3, <1>4, <1>5

LEMMA ToolsNext == ToolsShape /\ [Rotation!Next]_(Rotation!vars) => ToolsShape'
<1> SUFFICES ASSUME ToolsShape, [Rotation!Next]_(Rotation!vars) PROVE ToolsShape'
  OBVIOUS
<1>1. CASE UNCHANGED Rotation!vars
  BY <1>1 DEF Rotation!vars, ToolsShape, RotationShape, Apart
<1> QED
  BY <1>1, ToolsOutside, ToolsRemoval, ToolsBegin, ToolsWrite, ToolsEnd
     DEF Rotation!Next, Rotation!Continuing, Rotation!Removing

-----------------------------------------------------------------------------
LEMMA RotationInit == Rotation!Init => RotationInv
<1> SUFFICES ASSUME Rotation!Init PROVE RotationInv
  OBVIOUS
<1> USE DEF Rotation!Init
<1>1. RotationShape
  BY MigrationsAssumption
     DEF RotationShape, Bundle, KeptRec, OpRec, CleanupRec, Rotation!Empty, Rotation!NotKept, Rotation!NoOp,
         Rotation!Version, Rotation!Phases
<1>2. OneTool /\ CleanupPlaces
  BY DEF OneTool, CleanupPlaces
<1>3. WithoutState /\ WithState /\ Places
  BY DEF WithoutState, WithState, Places, Rotation!NotKept, Rotation!NoOp
<1>4. Apart /\ GoesBack
  BY DEF Apart, GoesBack, Rotation!NoOp, Rotation!NotKept
<1>5. read \in Bundle /\ mixed \in BOOLEAN
  BY DEF Bundle, Rotation!Empty
<1> QED  BY <1>1, <1>2, <1>3, <1>4, <1>5 DEF RotationInv, ToolsShape, AloneInv

RotationSafe ==
  Rotation!RolledBackMeansRestored /\ Rotation!RemovesRetiredOnly

\* Only the end of a restoration writes that the group went back.
LEMMA RolledBack ==
  ASSUME RotationInv, [Rotation!Next]_(Rotation!vars)
  PROVE  Rotation!RolledBackMeansRestored
<1>0. SUFFICES ASSUME AloneInv PROVE Rotation!RolledBackMeansRestored
  BY DEF RotationInv, Rotation!RolledBackMeansRestored
<1> USE <1>0, RotationTypes
<1>1. SUFFICES ASSUME kept'.manifest # kept.manifest,
                      kept'.manifest \in {"rolled-back", "rolled-back-after-failure"}
               PROVE  Rotation!Restored
  BY ManifestSteps DEF Rotation!RolledBackMeansRestored
<1>2. kept' # kept
  BY <1>1
<1>3. ASSUME NEW n \in Names, Rotation!Backup(n) \/ Rotation!RemoveBundle(n) PROVE FALSE
  BY <1>1, <1>3 DEF Rotation!Backup, Rotation!RemoveBundle, KeptRec
<1>4. CASE Rotation!BeginActivate \/ Rotation!EndCleanup
  BY <1>1, <1>4 DEF Rotation!BeginActivate, Rotation!EndCleanup, Rotation!NotKept, Rotation!Status
<1>5. CASE Rotation!Prepare \/ Rotation!Activated
  BY <1>1, <1>5 DEF Rotation!Prepare, Rotation!Activated, KeptRec
<1> QED
  BY <1>2, <1>3, <1>4, <1>5
     DEF Rotation!Next, Rotation!Continuing, Rotation!Removing, Rotation!vars,
         Rotation!BeginCopy, Rotation!CopyOne, Rotation!EndCopy, Rotation!BeginStage, Rotation!StageOne,
         Rotation!EndStage, Rotation!Install, Rotation!Restore, Rotation!BeginRollback, Rotation!Fault,
         Rotation!Kill, Rotation!Preflight, Rotation!Expire, Rotation!BeginCleanup, Rotation!RemoveSource,
         Rotation!KillCleanup, Rotation!Stop, Rotation!Start

\* Only the removal changes the candidate while it runs.
LEMMA RetiredOnly ==
  ASSUME RotationInv, [Rotation!Next]_(Rotation!vars)
  PROVE  Rotation!RemovesRetiredOnly
<1>1. SUFFICES ASSUME AloneInv, NEW n \in Names, cand # None, cand[n] # None, cleanup # Rotation!NoOp,
                      cand'[n] = None
               PROVE  cred[n] = cand[n]
  BY DEF RotationInv, Rotation!RemovesRetiredOnly
<1> QED  BY <1>1 DEF AloneInv, CleanupPlaces

\* A rollback puts back what there was, as long as no removal runs beside it.
LEMMA GoingBack ==
  ASSUME AloneInv, GoesBack, Rotation!Next, ~mixed'
  PROVE  GoesBack'
<1> USE RotationTypes
<1>1. SUFFICES ASSUME op'.phase = "rollback" PROVE read' = base'
  BY DEF GoesBack
<1>2. CASE Rotation!BeginRollback
  <2>1. Rotation!Full(kept.previous) /\ kept.dir /\ read' = kept.previous /\ base' = base /\ Rotation!Free
    BY <1>2 DEF Rotation!BeginRollback
  <2>2. \A n \in Names : kept.previous[n] = base[n]
    BY <2>1 DEF AloneInv, WithState, Rotation!Full
  <2> QED  BY <2>1, <2>2 DEF KeptRec, Bundle
<1>3. ASSUME op.phase = "rollback", UNCHANGED <<read, base>> PROVE read' = base'
  BY <1>3 DEF GoesBack
<1>4. ASSUME NEW n \in Names,
             \/ Rotation!CopyOne(n) \/ Rotation!StageOne(n) \/ Rotation!Backup(n)
             \/ Rotation!Install(n) \/ Rotation!Restore(n)
      PROVE  read' = base'
  <2>1. op' = Rotation!Left(n)
    BY <1>4 DEF Rotation!CopyOne, Rotation!StageOne, Rotation!Backup, Rotation!Install, Rotation!Restore
  <2>2. op.phase = "rollback"
    BY <1>1, <2>1, OpEdited
  <2> QED
    BY <1>3, <1>4, <2>2
       DEF Rotation!CopyOne, Rotation!StageOne, Rotation!Backup, Rotation!Install, Rotation!Restore
<1>5. ASSUME NEW n \in Names, Rotation!RemoveBundle(n) PROVE read' = base'
  <2>1. op' = op /\ cleanup # Rotation!NoOp
    BY <1>5 DEF Rotation!RemoveBundle
  <2> QED  BY <1>1, <2>1 DEF AloneInv, OneTool
<1>6. CASE \/ Rotation!EndCopy \/ Rotation!EndStage \/ Rotation!Prepare \/ Rotation!Activated
           \/ Rotation!Restored \/ Rotation!Fault \/ Rotation!Kill \/ Rotation!BeginCopy
           \/ Rotation!BeginStage \/ Rotation!BeginActivate
  <2>1. op'.phase # "rollback"
    BY <1>6 DEF Rotation!EndCopy, Rotation!EndStage, Rotation!Prepare, Rotation!Activated, Rotation!Restored,
       Rotation!Fault, Rotation!Kill, Rotation!BeginCopy, Rotation!BeginStage, Rotation!BeginActivate,
       Rotation!Begin
  <2> QED  BY <1>1, <2>1
<1>7. CASE \/ Rotation!Preflight \/ Rotation!Expire \/ Rotation!Stop \/ Rotation!Start
           \/ Rotation!BeginCleanup \/ Rotation!RemoveSource \/ Rotation!KillCleanup \/ Rotation!EndCleanup
  <2>1. UNCHANGED <<op, read, base>>
    BY <1>7 DEF Rotation!Preflight, Rotation!Expire, Rotation!Stop, Rotation!Start, Rotation!BeginCleanup,
       Rotation!RemoveSource, Rotation!KillCleanup, Rotation!EndCleanup
  <2> QED  BY <1>1, <1>3, <2>1
<1> QED
  BY <1>2, <1>4, <1>5, <1>6, <1>7 DEF Rotation!Next, Rotation!Continuing, Rotation!Removing

\* A step after which no tool ran beside a removal: none did before it, or a
\* rotation begins.
LEMMA AloneNext ==
  ASSUME ToolsShape, ~mixed => AloneInv /\ GoesBack, Rotation!Next, ~mixed'
  PROVE  AloneInv' /\ GoesBack'
<1>0. RotationShape /\ Apart /\ mixed \in BOOLEAN
  BY DEF ToolsShape
<1> USE <1>0
<1>1. CASE Rotation!BeginActivate
  <2>1. ~kept.dir /\ op'.phase = "backup"
    BY <1>1 DEF Rotation!BeginActivate, Rotation!Begin
  <2>2. cleanup = Rotation!NoOp
    BY <2>1 DEF Apart
  <2>3. AloneInv'
    BY <1>1, <2>2, BeginActivateInv
  <2> QED  BY <2>1, <2>3 DEF GoesBack
<1>2. CASE ~Rotation!BeginActivate
  <2>1. ~mixed
    <3>1. ASSUME NEW n \in Names,
                 \/ Rotation!CopyOne(n) \/ Rotation!StageOne(n) \/ Rotation!Backup(n)
                 \/ Rotation!Install(n) \/ Rotation!Restore(n) \/ Rotation!RemoveBundle(n)
          PROVE  ~mixed
      <4>1. mixed' = mixed
        BY <3>1
           DEF Rotation!CopyOne, Rotation!StageOne, Rotation!Backup, Rotation!Install, Rotation!Restore,
               Rotation!RemoveBundle
      <4> QED  BY <4>1, Zenon
    <3>2. ASSUME \/ Rotation!EndCopy \/ Rotation!EndStage \/ Rotation!Prepare \/ Rotation!Activated
                 \/ Rotation!Restored \/ Rotation!Fault \/ Rotation!Kill \/ Rotation!Preflight
                 \/ Rotation!Expire \/ Rotation!Stop \/ Rotation!Start \/ Rotation!RemoveSource
                 \/ Rotation!KillCleanup \/ Rotation!EndCleanup
          PROVE  ~mixed
      <4>1. mixed' = mixed
        BY <3>2
           DEF Rotation!EndCopy, Rotation!EndStage, Rotation!Prepare, Rotation!Activated, Rotation!Restored,
               Rotation!Fault, Rotation!Kill, Rotation!Preflight, Rotation!Expire, Rotation!Stop,
               Rotation!Start, Rotation!RemoveSource, Rotation!KillCleanup, Rotation!EndCleanup
      <4> QED  BY <4>1, Zenon
    <3>3. ASSUME \/ Rotation!BeginCopy \/ Rotation!BeginStage \/ Rotation!BeginRollback
                 \/ Rotation!BeginCleanup
          PROVE  ~mixed
      <4>1. mixed' = (mixed \/ cleanup # Rotation!NoOp) \/ mixed' = (mixed \/ op # Rotation!NoOp)
        BY <3>3
           DEF Rotation!BeginCopy, Rotation!BeginStage, Rotation!BeginRollback, Rotation!BeginCleanup,
               Rotation!Mixes
      <4> QED  BY <4>1, Zenon
    <3> QED
      BY <1>2, <3>1, <3>2, <3>3 DEF Rotation!Next, Rotation!Continuing, Rotation!Removing
  <2>2. AloneInv /\ GoesBack
    BY <2>1
  <2>3. /\ Rotation!BeginCopy \/ Rotation!BeginStage \/ Rotation!BeginRollback => cleanup = Rotation!NoOp
        /\ Rotation!BeginCleanup => op = Rotation!NoOp
    BY DEF Rotation!BeginCopy, Rotation!BeginStage, Rotation!BeginRollback, Rotation!BeginCleanup,
           Rotation!Mixes
  <2>4. AloneInv'
    BY <1>2, <2>2, <2>3, OutsideSteps, RemovalSteps, RemoveBundleInv, EndRemovalInv, CopySteps, StageSteps,
       BackupInv, PrepareInv, WriteSteps, ManifestSteps, RollbackInv, FaultSteps
       DEF Rotation!Next, Rotation!Continuing, Rotation!Removing
  <2> QED  BY <2>2, <2>4, GoingBack
<1> QED  BY <1>1, <1>2

LEMMA RotationNext == RotationInv /\ [Rotation!Next]_(Rotation!vars) => RotationInv' /\ RotationSafe
<1> SUFFICES ASSUME RotationInv, [Rotation!Next]_(Rotation!vars) PROVE RotationInv'
  BY RolledBack, RetiredOnly DEF RotationSafe
<1>1. ToolsShape /\ (~mixed => AloneInv /\ GoesBack)
  BY DEF RotationInv
<1>2. ToolsShape'
  BY <1>1, ToolsNext
<1>3. CASE UNCHANGED Rotation!vars
  <2>1. AloneInv => AloneInv'
    BY <1>3
       DEF Rotation!vars, AloneInv, RotationShape, OneTool, WithoutState, WithState, Places, CleanupPlaces,
           Retained, Rotation!Full
  <2>2. GoesBack' = GoesBack /\ mixed' = mixed
    BY <1>3 DEF Rotation!vars, GoesBack
  <2> QED  BY <1>1, <1>2, <2>1, <2>2 DEF RotationInv
<1>4. CASE Rotation!Next
  <2>1. ~mixed' => AloneInv' /\ GoesBack'
    BY <1>1, <1>4, AloneNext
  <2> QED  BY <1>2, <2>1 DEF RotationInv
<1> QED  BY <1>3, <1>4

\* With a state the bundle it was made from is there to go back to.
LEMMA RotationFacts == RotationInv => Rotation!TypeOK /\ Rotation!RollbackRetained
<1> SUFFICES ASSUME RotationInv PROVE Rotation!TypeOK /\ Rotation!RollbackRetained
  OBVIOUS
<1>1. RotationShape /\ Apart /\ read \in Bundle /\ mixed \in BOOLEAN
  BY DEF RotationInv, ToolsShape
<1>2. Rotation!TypeOK
  BY <1>1, ShapeTypes DEF RotationShape, Apart, Rotation!TypeOK, Bundle, KeptRec, OpRec
<1>3. ASSUME AloneInv PROVE Rotation!RollbackRetained
  BY <1>3, RotationTypes DEF AloneInv, WithoutState, WithState, Retained, Rotation!RollbackRetained
<1>4. ASSUME mixed PROVE Rotation!RollbackRetained
  BY <1>4, Zenon DEF Rotation!RollbackRetained
<1> QED  BY <1>2, <1>3, <1>4 DEF RotationInv

-----------------------------------------------------------------------------
(* The syncs and subscriptions of Matter.                                  *)

\* Monitors run while the loop joins them, and a report is in the hands of a
\* monitor that is live.
MonitorsJoined ==
  \A n \in Node : /\ monitor[n] # "none" => loop = "joining"
                  /\ event[n] # None => monitor[n] = "live"

\* Who reads and stores, and who repairs, holds the locks.
LocksHeld ==
  /\ \A s \in Sync : sync[s] \in {"reading", "applying"} => subscriptionLock = s
  /\ \A r \in Repair : /\ repair[r] \in {"locked", "repairing"} => syncLock = r
                       /\ repair[r] = "repairing" => subscriptionLock = r

\* What is on its way to a client is no older than what the client shows.
OnTheWay ==
  \A n \in Node : /\ stored[n] <= sensor[n]
                  /\ event[n] # None => stored[n] <= event[n] /\ event[n] <= sensor[n]
                  /\ \A s \in Sync : sync[s] = "applying" =>
                       stored[n] <= got[s][n] /\ got[s][n] <= sensor[n]

SyncInv == Matter!TypeOK /\ MonitorsJoined /\ LocksHeld /\ OnTheWay

\* A sync that reads or stores has the nodes to itself.
LEMMA NodesDrained ==
  ASSUME SyncInv, NEW s \in Sync, sync[s] \in {"reading", "applying"}
  PROVE  /\ subscriptionLock = s /\ loop \notin {"locked", "starting", "joining"}
         /\ \A n \in Node : monitor[n] = "none" /\ event[n] = None
         /\ \A t \in Sync : t # s => sync[t] = "idle"
         /\ \A r \in Repair : repair[r] \notin {"locked", "repairing"}
<1>1. subscriptionLock = s /\ subscriptionLock # Loop
  BY MigrationsAssumption DEF SyncInv, LocksHeld
<1>2. loop \notin {"locked", "starting", "joining"}
  BY <1>1 DEF SyncInv, Matter!TypeOK
<1>3. \A n \in Node : monitor[n] = "none" /\ event[n] = None
  BY <1>2 DEF SyncInv, MonitorsJoined
<1>4. syncLock = s
  BY DEF SyncInv, Matter!TypeOK
<1>5. \A t \in Sync : t # s => sync[t] = "idle"
  BY <1>4 DEF SyncInv, Matter!TypeOK
<1>6. \A r \in Repair : repair[r] \notin {"locked", "repairing"}
  BY <1>4, MigrationsAssumption DEF SyncInv, LocksHeld
<1> QED  BY <1>1, <1>2, <1>3, <1>5, <1>6

LEMMA SyncDrained == SyncInv => Matter!Drained
BY NodesDrained DEF Matter!Drained

LEMMA SyncInit == Matter!Init => SyncInv
<1> SUFFICES ASSUME Matter!Init PROVE SyncInv
  OBVIOUS
<1> USE DEF Matter!Init
<1>1. Matter!TypeOK
  <2>1. 0 \in 0 .. MaxChanges /\ None # Loop
    BY MigrationsAssumption DEF Matter!Thread
  <2>2. {restart, active, maintenance, started} \subseteq BOOLEAN
    OBVIOUS
  <2>3. {sensor, stored} \subseteq [Node -> 0 .. MaxChanges]
    BY <2>1
  <2>4. got \in [Sync -> [Node -> 0 .. MaxChanges]]
    BY <2>1
  <2> QED  BY <2>1, <2>2, <2>3, <2>4 DEF Matter!TypeOK
<1>2. MonitorsJoined /\ LocksHeld /\ OnTheWay
  BY DEF MonitorsJoined, LocksHeld, OnTheWay
<1> QED  BY <1>1, <1>2 DEF SyncInv

\* The loop takes and gives up the lock; its monitors are joined in between.
LEMMA LoopSteps ==
  ASSUME SyncInv, Matter!LoopStep
  PROVE  SyncInv' /\ UNCHANGED stored
<1> USE DEF Matter!WaitForStartup, Matter!TakeTurn, Matter!CheckTurn, Matter!StartMonitors, Matter!Join,
            Matter!NextRound, Matter!LoopAt, Matter!ClearRestart, Matter!monitors, Matter!syncs, Matter!locks,
            Matter!events
<1>1. UNCHANGED <<event, sync, got, repair, syncLock, maintenanceLock, active, maintenance, started,
                  sensor, stored>>
  BY DEF Matter!LoopStep
<1>2. \/ /\ monitor' = monitor /\ loop' # "joining"
         /\ loop = "joining" => \A n \in Node : monitor[n] = "none"
      \/ loop = "starting" /\ loop' = "joining" /\ monitor' = [n \in Node |-> "check"]
  BY DEF Matter!LoopStep
<1>3. /\ subscriptionLock' \in {subscriptionLock, Loop, None} /\ restart' \in {restart, FALSE}
      /\ subscriptionLock' # subscriptionLock =>
           \/ subscriptionLock = None /\ subscriptionLock' = Loop
           \/ loop \in {"locked", "joining"} /\ subscriptionLock' = None
      /\ loop' \in {"startup", "top", "locked", "starting", "joining", "waiting"}
  BY DEF Matter!LoopStep
<1>4. subscriptionLock' = Loop <=> loop' \in {"locked", "starting", "joining"}
  <2>1. subscriptionLock = Loop <=> loop \in {"locked", "starting", "joining"}
    BY DEF SyncInv, Matter!TypeOK
  <2>2. None # Loop
    BY MigrationsAssumption DEF Matter!Thread
  <2> QED  BY <2>1, <2>2 DEF Matter!LoopStep
<1>5. monitor' \in [Node -> {"none", "check", "opening", "live", "broken", "delay"}]
  BY <1>2 DEF SyncInv, Matter!TypeOK
<1>6. Matter!TypeOK'
  <2>1. subscriptionLock' \in Matter!Thread \cup {None}
    BY <1>3 DEF SyncInv, Matter!TypeOK, Matter!Thread
  <2> QED  BY <1>1, <1>3, <1>4, <1>5, <2>1 DEF SyncInv, Matter!TypeOK
<1>7. MonitorsJoined'
  <2>1. CASE loop' # "joining"
    BY <1>1, <1>2, <2>1 DEF SyncInv, MonitorsJoined
  <2>2. CASE loop = "starting" /\ loop' = "joining"
    BY <1>1, <2>2 DEF SyncInv, MonitorsJoined
  <2> QED  BY <1>2, <2>1, <2>2
<1>8. LocksHeld'
  <2>1. subscriptionLock # subscriptionLock' =>
          /\ \A s \in Sync : sync[s] \notin {"reading", "applying"}
          /\ \A r \in Repair : repair[r] # "repairing"
    <3>1. CASE subscriptionLock = None
      BY <3>1, MigrationsAssumption DEF SyncInv, LocksHeld, Matter!Thread
    <3>2. CASE loop \in {"locked", "joining"}
      <4>1. subscriptionLock = Loop
        BY <3>2 DEF SyncInv, Matter!TypeOK
      <4> QED  BY <4>1, MigrationsAssumption DEF SyncInv, LocksHeld
    <3> QED  BY <1>3, <3>1, <3>2
  <2> QED  BY <1>1, <2>1 DEF SyncInv, LocksHeld
<1>9. OnTheWay'
  BY <1>1 DEF SyncInv, OnTheWay
<1> QED  BY <1>1, <1>6, <1>7, <1>8, <1>9 DEF SyncInv

\* A monitor takes the value of its sensor, and stores it before it stops.
LEMMA MonitorSteps ==
  ASSUME SyncInv, NEW n \in Node, Matter!MonitorStep(n) \/ Matter!Receive(n) \/ Matter!Break(n)
  PROVE  SyncInv' /\ Matter!NeverOlder
<1> USE DEF Matter!Check, Matter!Open, Matter!Handle, Matter!StopMonitor, Matter!Recover, Matter!Retry,
            Matter!Receive, Matter!Break, Matter!MonitorAt, Matter!monitors, Matter!syncs, Matter!locks,
            Matter!events, Matter!MonitorStep
<1>1. /\ UNCHANGED <<loop, sync, got, repair, syncLock, subscriptionLock, maintenanceLock, restart,
                     active, maintenance, started, sensor>>
  OBVIOUS
<1>2. PICK place \in {"none", "check", "opening", "live", "broken", "delay"} :
        /\ monitor' = [monitor EXCEPT ![n] = place]
        /\ place # "none" => monitor[n] # "none"
  BY DEF SyncInv, Matter!TypeOK, MonitorsJoined
<1>3. monitor' \in [Node -> {"none", "check", "opening", "live", "broken", "delay"}]
      /\ \A m \in Node : m # n => monitor'[m] = monitor[m]
  BY <1>2 DEF SyncInv, Matter!TypeOK
<1>4. monitor'[n] # "none" => monitor[n] # "none"
  BY <1>2 DEF SyncInv, Matter!TypeOK
<1>5. CASE Matter!Receive(n)
  <2>1. event' = [event EXCEPT ![n] = sensor[n]] /\ monitor[n] = "live" /\ UNCHANGED <<monitor, stored>>
    BY <1>5
  <2>2. event' \in [Node -> 0 .. MaxChanges \cup {None}]
    BY <2>1 DEF SyncInv, Matter!TypeOK
  <2>3. Matter!TypeOK'
    BY <1>1, <2>1, <2>2 DEF SyncInv, Matter!TypeOK
  <2>4. MonitorsJoined'
    BY <1>1, <2>1 DEF SyncInv, MonitorsJoined, Matter!TypeOK
  <2>5. OnTheWay'
    BY <1>1, <2>1 DEF SyncInv, OnTheWay, Matter!TypeOK
  <2>6. LocksHeld'
    BY <1>1 DEF SyncInv, LocksHeld
  <2>7. Matter!NeverOlder
    BY <2>1 DEF Matter!NeverOlder, SyncInv, Matter!TypeOK
  <2> QED  BY <2>3, <2>4, <2>5, <2>6, <2>7 DEF SyncInv
<1>6. CASE Matter!Handle(n)
  <2>1. /\ event[n] # None /\ stored' = [stored EXCEPT ![n] = event[n]]
        /\ event' = [event EXCEPT ![n] = None] /\ UNCHANGED monitor
    BY <1>6
  <2>2. event[n] \in 0 .. MaxChanges
    BY <2>1 DEF SyncInv, Matter!TypeOK
  <2>3. stored' \in [Node -> 0 .. MaxChanges] /\ event' \in [Node -> 0 .. MaxChanges \cup {None}]
    BY <2>1, <2>2 DEF SyncInv, Matter!TypeOK
  <2>4. Matter!TypeOK'
    BY <1>1, <2>1, <2>3 DEF SyncInv, Matter!TypeOK
  <2>5. MonitorsJoined'
    BY <1>1, <2>1 DEF SyncInv, MonitorsJoined, Matter!TypeOK
  <2>6. \A s \in Sync : sync[s] # "applying"
    BY <2>1, NodesDrained
  <2>7. OnTheWay'
    BY <1>1, <2>1, <2>6 DEF SyncInv, OnTheWay, Matter!TypeOK
  <2>8. LocksHeld'
    BY <1>1 DEF SyncInv, LocksHeld
  <2>9. Matter!NeverOlder
    BY <2>1 DEF Matter!NeverOlder, SyncInv, OnTheWay, Matter!TypeOK
  <2> QED  BY <2>4, <2>5, <2>7, <2>8, <2>9 DEF SyncInv
<1>7. CASE ~Matter!Receive(n) /\ ~Matter!Handle(n)
  <2>1. UNCHANGED <<event, stored>> /\ (monitor[n] = "live" => event[n] = None)
    BY <1>7
  <2>2. Matter!TypeOK'
    BY <1>1, <1>3, <2>1 DEF SyncInv, Matter!TypeOK
  <2>3. MonitorsJoined'
    BY <1>1, <1>3, <1>4, <2>1 DEF SyncInv, MonitorsJoined
  <2>4. OnTheWay'
    BY <1>1, <2>1 DEF SyncInv, OnTheWay
  <2>5. LocksHeld'
    BY <1>1 DEF SyncInv, LocksHeld
  <2>6. Matter!NeverOlder
    BY <2>1 DEF Matter!NeverOlder, SyncInv, Matter!TypeOK
  <2> QED  BY <2>2, <2>3, <2>4, <2>5, <2>6 DEF SyncInv
<1> QED  BY <1>5, <1>6, <1>7

LEMMA ChangeInv ==
  ASSUME SyncInv, NEW n \in Node, Matter!Change(n)
  PROVE  SyncInv' /\ UNCHANGED stored
<1>1. /\ sensor[n] < MaxChanges /\ sensor' = [sensor EXCEPT ![n] = @ + 1]
      /\ UNCHANGED <<loop, monitor, event, sync, got, repair, syncLock, subscriptionLock, maintenanceLock,
                     restart, active, maintenance, started, stored>>
  BY DEF Matter!Change, Matter!monitors, Matter!syncs, Matter!locks, Matter!events
<1>2. sensor' \in [Node -> 0 .. MaxChanges] /\ \A m \in Node : sensor[m] <= sensor'[m]
  BY <1>1, MigrationsAssumption DEF SyncInv, Matter!TypeOK
<1>3. Matter!TypeOK'
  BY <1>1, <1>2 DEF SyncInv, Matter!TypeOK
<1>4. MonitorsJoined' /\ LocksHeld'
  BY <1>1 DEF SyncInv, MonitorsJoined, LocksHeld
<1>5. OnTheWay'
  <2> SUFFICES ASSUME NEW m \in Node
               PROVE  /\ stored[m] <= sensor'[m]
                      /\ event[m] # None => stored[m] <= event[m] /\ event[m] <= sensor'[m]
                      /\ \A s \in Sync : sync[s] = "applying" =>
                           stored[m] <= got[s][m] /\ got[s][m] <= sensor'[m]
    BY <1>1 DEF OnTheWay
  <2>1. /\ sensor[m] \in Nat /\ sensor'[m] \in Nat /\ sensor[m] <= sensor'[m] /\ stored[m] \in Nat
        /\ event[m] # None => event[m] \in Nat
        /\ \A s \in Sync : got[s][m] \in Nat
    BY <1>2 DEF SyncInv, Matter!TypeOK
  <2>2. /\ stored[m] <= sensor[m]
        /\ event[m] # None => stored[m] <= event[m] /\ event[m] <= sensor[m]
        /\ \A s \in Sync : sync[s] = "applying" => stored[m] <= got[s][m] /\ got[s][m] <= sensor[m]
    BY DEF SyncInv, OnTheWay
  <2> QED  BY <2>1, <2>2
<1> QED  BY <1>1, <1>3, <1>4, <1>5 DEF SyncInv

\* What syncs and repairs leave alone, and what the invariant needs of the rest.
LEMMA ThreadStep ==
  ASSUME SyncInv, UNCHANGED <<loop, monitor, event, sensor>>,
         sync' \in [Sync -> {"idle", "begun", "announced", "draining", "reading", "applying", "ending"}],
         got' \in [Sync -> [Node -> 0 .. MaxChanges]],
         repair' \in [Repair -> {"idle", "begun", "announced", "locked", "repairing"}],
         syncLock' \in Sync \cup Repair \cup {None},
         subscriptionLock' \in Sync \cup Repair \cup {None, subscriptionLock},
         subscriptionLock' # subscriptionLock => subscriptionLock # Loop,
         maintenanceLock' \in Repair \cup {None},
         {restart', active', maintenance', started'} \subseteq BOOLEAN,
         stored' \in [Node -> 0 .. MaxChanges],
         \A s \in Sync : sync'[s] # "idle" => syncLock' = s,
         LocksHeld', OnTheWay'
  PROVE  SyncInv'
<1>1. subscriptionLock' = Loop <=> subscriptionLock = Loop
  BY MigrationsAssumption DEF Matter!Thread
<1>2. subscriptionLock' \in Matter!Thread \cup {None}
  BY DEF SyncInv, Matter!TypeOK, Matter!Thread
<1>3. subscriptionLock' = Loop <=> loop' \in {"locked", "starting", "joining"}
  BY <1>1 DEF SyncInv, Matter!TypeOK
<1>4. {sensor', stored'} \subseteq [Node -> 0 .. MaxChanges]
  BY DEF SyncInv, Matter!TypeOK
<1>5. Matter!TypeOK'
  BY <1>2, <1>3, <1>4 DEF SyncInv, Matter!TypeOK
<1>6. MonitorsJoined'
  BY DEF SyncInv, MonitorsJoined
<1> QED  BY <1>5, <1>6 DEF SyncInv

LEMMA SyncSteps ==
  ASSUME SyncInv, NEW s \in Sync, Matter!Begin(s) \/ Matter!SyncStep(s)
  PROVE  SyncInv' /\ Matter!NeverOlder
<1> USE DEF Matter!SyncAt, Matter!monitors, Matter!syncs, Matter!locks, Matter!events
<1>0. /\ sync \in [Sync -> {"idle", "begun", "announced", "draining", "reading", "applying", "ending"}]
      /\ got \in [Sync -> [Node -> 0 .. MaxChanges]]
      /\ repair \in [Repair -> {"idle", "begun", "announced", "locked", "repairing"}]
      /\ syncLock \in Sync \cup Repair \cup {None} /\ subscriptionLock \in Matter!Thread \cup {None}
      /\ maintenanceLock \in Repair \cup {None}
      /\ restart \in BOOLEAN /\ active \in BOOLEAN /\ maintenance \in BOOLEAN /\ started \in BOOLEAN
      /\ sensor \in [Node -> 0 .. MaxChanges] /\ stored \in [Node -> 0 .. MaxChanges]
      /\ \A t \in Sync : sync[t] # "idle" => syncLock = t
  BY DEF SyncInv, Matter!TypeOK
<1>1. UNCHANGED <<loop, monitor, event, sensor, repair, maintenance, maintenanceLock>>
  BY DEF Matter!Begin, Matter!SyncStep, Matter!Announce, Matter!RequestRestart, Matter!Drain, Matter!Read,
         Matter!Apply, Matter!Finish, Matter!LockSubscriptions
<1>2. \A n \in Node : stored[n] <= stored[n]
  BY <1>0
<1>3. CASE Matter!Begin(s)
  <2>1. /\ sync[s] = "idle" /\ UNCHANGED <<got, subscriptionLock, restart, active, stored>>
        /\ \/ syncLock = None /\ syncLock' = s /\ sync' = [sync EXCEPT ![s] = "begun"]
           \/ syncLock' = syncLock /\ sync' = sync
        /\ started' \in BOOLEAN
    BY <1>0, <1>3 DEF Matter!Begin
  <2>2. \A t \in Sync : sync'[t] # "idle" => syncLock' = t
    BY <1>0, <2>1, MigrationsAssumption DEF Matter!Thread
  <2>3. LocksHeld'
    BY <1>0, <1>1, <2>1, MigrationsAssumption DEF SyncInv, LocksHeld, Matter!Thread
  <2>4. OnTheWay'
    BY <1>0, <1>1, <2>1 DEF SyncInv, OnTheWay
  <2>5. SyncInv'
    BY <1>0, <1>1, <2>1, <2>2, <2>3, <2>4, ThreadStep
  <2> QED  BY <1>2, <2>1, <2>5 DEF Matter!NeverOlder
<1>4. CASE Matter!Announce(s) \/ Matter!RequestRestart(s)
  <2>1. PICK place \in {"announced", "draining"} : sync' = [sync EXCEPT ![s] = place]
    BY <1>4 DEF Matter!Announce, Matter!RequestRestart
  <2>2. /\ sync[s] # "idle" /\ UNCHANGED <<got, syncLock, subscriptionLock, started, stored>>
        /\ restart' \in BOOLEAN /\ active' \in BOOLEAN
    BY <1>0, <1>4 DEF Matter!Announce, Matter!RequestRestart
  <2>3. \A t \in Sync : sync'[t] # "idle" => syncLock' = t
    BY <1>0, <2>1, <2>2
  <2>4. LocksHeld'
    BY <1>0, <1>1, <2>1, <2>2 DEF SyncInv, LocksHeld
  <2>5. OnTheWay'
    BY <1>0, <1>1, <2>1, <2>2 DEF SyncInv, OnTheWay
  <2>6. SyncInv'
    BY <1>0, <1>1, <2>1, <2>2, <2>3, <2>4, <2>5, ThreadStep
  <2> QED  BY <1>2, <2>2, <2>6 DEF Matter!NeverOlder
<1>5. CASE Matter!Drain(s)
  <2>1. /\ sync[s] = "draining" /\ subscriptionLock = None /\ subscriptionLock' = s
        /\ sync' = [sync EXCEPT ![s] = "reading"]
        /\ UNCHANGED <<got, syncLock, restart, active, started, stored>>
    BY <1>5 DEF Matter!Drain, Matter!LockSubscriptions
  <2>2. \A t \in Sync : sync'[t] # "idle" => syncLock' = t
    BY <1>0, <2>1
  <2>3. LocksHeld'
    BY <1>0, <1>1, <2>1, MigrationsAssumption DEF SyncInv, LocksHeld, Matter!Thread
  <2>4. OnTheWay'
    BY <1>0, <1>1, <2>1 DEF SyncInv, OnTheWay
  <2>5. subscriptionLock # Loop
    BY <2>1, MigrationsAssumption DEF Matter!Thread
  <2>6. SyncInv'
    BY <1>0, <1>1, <2>1, <2>2, <2>3, <2>4, <2>5, ThreadStep
  <2> QED  BY <1>2, <2>1, <2>6 DEF Matter!NeverOlder
<1>6. CASE Matter!Read(s)
  <2>1. PICK ok \in SUBSET Node :
          got' = [got EXCEPT ![s] = [n \in Node |-> IF n \in ok THEN sensor[n] ELSE stored[n]]]
    BY <1>6 DEF Matter!Read
  <2>2. /\ sync[s] = "reading" /\ sync' = [sync EXCEPT ![s] = "applying"]
        /\ UNCHANGED <<syncLock, subscriptionLock, restart, active, started, stored>>
    BY <1>6 DEF Matter!Read
  <2> DEFINE seen == [n \in Node |-> IF n \in ok THEN sensor[n] ELSE stored[n]]
  <2>3. seen \in [Node -> 0 .. MaxChanges]
    BY <1>0
  <2>4. \A n \in Node : stored[n] <= seen[n] /\ seen[n] <= sensor[n]
    BY <1>0, <1>2 DEF SyncInv, OnTheWay
  <2> HIDE DEF seen
  <2>5. got' \in [Sync -> [Node -> 0 .. MaxChanges]] /\ got'[s] = seen
    BY <1>0, <2>1, <2>3 DEF seen
  <2>6. \A t \in Sync : t # s => sync[t] = "idle"
    BY <2>2, NodesDrained
  <2>7. \A t \in Sync : sync'[t] # "idle" => syncLock' = t
    BY <1>0, <2>2
  <2>8. LocksHeld'
    BY <1>0, <1>1, <2>2 DEF SyncInv, LocksHeld
  <2>9. OnTheWay'
    <3>1. \A t \in Sync : sync'[t] = "applying" => t = s
      BY <1>0, <2>2, <2>6
    <3> QED  BY <1>1, <2>2, <2>4, <2>5, <3>1 DEF SyncInv, OnTheWay
  <2>10. SyncInv'
    BY <1>0, <1>1, <2>2, <2>5, <2>7, <2>8, <2>9, ThreadStep
  <2> QED  BY <1>2, <2>2, <2>10 DEF Matter!NeverOlder
<1>7. CASE Matter!Apply(s)
  <2>1. /\ sync[s] = "applying" /\ sync' = [sync EXCEPT ![s] = "ending"]
        /\ stored' = got[s] /\ got' = [got EXCEPT ![s] = [n \in Node |-> 0]]
        /\ subscriptionLock' = None /\ UNCHANGED <<syncLock, restart, active, started>>
    BY <1>7 DEF Matter!Apply
  <2>2. /\ subscriptionLock = s /\ subscriptionLock # Loop
        /\ \A n \in Node : event[n] = None
        /\ \A t \in Sync : t # s => sync[t] = "idle"
        /\ \A r \in Repair : repair[r] \notin {"locked", "repairing"}
    BY <2>1, NodesDrained, MigrationsAssumption
  <2>3. \A n \in Node : stored[n] <= got[s][n] /\ got[s][n] <= sensor[n]
    BY <2>1 DEF SyncInv, OnTheWay
  <2>4. \A t \in Sync : sync'[t] # "idle" => syncLock' = t
    BY <1>0, <2>1
  <2>5. LocksHeld'
    BY <1>0, <1>1, <2>1, <2>2 DEF LocksHeld
  <2>6. OnTheWay'
    BY <1>0, <1>1, <2>1, <2>2, <2>3 DEF OnTheWay
  <2>7. got' \in [Sync -> [Node -> 0 .. MaxChanges]] /\ stored' \in [Node -> 0 .. MaxChanges]
    BY <1>0, <2>1, MigrationsAssumption
  <2>8. SyncInv'
    BY <1>0, <1>1, <2>1, <2>2, <2>4, <2>5, <2>6, <2>7, ThreadStep
  <2>9. Matter!NeverOlder
    <3>1. \A n \in Node : stored[n] \in Nat /\ got[s][n] \in Nat
      BY <1>0
    <3> QED  BY <2>1, <2>3, <3>1 DEF Matter!NeverOlder
  <2> QED  BY <2>8, <2>9
<1>8. CASE Matter!Finish(s)
  <2>1. /\ sync[s] = "ending" /\ sync' = [sync EXCEPT ![s] = "idle"]
        /\ active' = FALSE /\ restart' = TRUE /\ syncLock' = None /\ started' \in BOOLEAN
        /\ UNCHANGED <<got, subscriptionLock, stored>>
    BY <1>0, <1>8 DEF Matter!Finish
  <2>2. syncLock = s
    BY <1>0, <2>1
  <2>3. \A t \in Sync : sync'[t] = "idle"
    BY <1>0, <2>1, <2>2
  <2>4. \A r \in Repair : repair[r] \notin {"locked", "repairing"}
    BY <2>2, MigrationsAssumption DEF SyncInv, LocksHeld
  <2>5. LocksHeld'
    BY <1>1, <2>3, <2>4 DEF LocksHeld
  <2>6. OnTheWay'
    BY <1>1, <2>1, <2>3 DEF SyncInv, OnTheWay
  <2>7. SyncInv'
    BY <1>0, <1>1, <2>1, <2>3, <2>5, <2>6, ThreadStep
  <2> QED  BY <1>2, <2>1, <2>7 DEF Matter!NeverOlder
<1> QED  BY <1>3, <1>4, <1>5, <1>6, <1>7, <1>8 DEF Matter!SyncStep

LEMMA RepairSteps ==
  ASSUME SyncInv, NEW r \in Repair, Matter!BeginRepair(r) \/ Matter!RepairStep(r)
  PROVE  SyncInv' /\ UNCHANGED stored
<1> USE DEF Matter!RepairAt, Matter!monitors, Matter!syncs, Matter!locks, Matter!events
<1>0. /\ sync \in [Sync -> {"idle", "begun", "announced", "draining", "reading", "applying", "ending"}]
      /\ got \in [Sync -> [Node -> 0 .. MaxChanges]]
      /\ repair \in [Repair -> {"idle", "begun", "announced", "locked", "repairing"}]
      /\ syncLock \in Sync \cup Repair \cup {None} /\ subscriptionLock \in Matter!Thread \cup {None}
      /\ maintenanceLock \in Repair \cup {None}
      /\ restart \in BOOLEAN /\ active \in BOOLEAN /\ maintenance \in BOOLEAN /\ started \in BOOLEAN
      /\ sensor \in [Node -> 0 .. MaxChanges] /\ stored \in [Node -> 0 .. MaxChanges]
      /\ \A t \in Sync : sync[t] # "idle" => syncLock = t
      /\ None \notin Sync \cup Repair /\ None # Loop
  BY MigrationsAssumption DEF SyncInv, Matter!TypeOK, Matter!Thread
<1>1. UNCHANGED <<loop, monitor, event, sensor, sync, got, active, started, stored>>
  BY DEF Matter!BeginRepair, Matter!RepairStep, Matter!AnnounceRepair, Matter!LockSync,
         Matter!DrainForRepair, Matter!FinishRepair
<1>2. OnTheWay'
  BY <1>1 DEF SyncInv, OnTheWay
<1>3. CASE Matter!BeginRepair(r) \/ Matter!AnnounceRepair(r)
  <2>1. PICK place \in {"begun", "announced"} : repair' = [repair EXCEPT ![r] = place]
    BY <1>3 DEF Matter!BeginRepair, Matter!AnnounceRepair
  <2>2. /\ UNCHANGED <<syncLock, subscriptionLock>> /\ restart' \in BOOLEAN /\ maintenance' \in BOOLEAN
        /\ maintenanceLock' \in Repair \cup {None}
    BY <1>0, <1>3 DEF Matter!BeginRepair, Matter!AnnounceRepair
  <2>3. LocksHeld'
    BY <1>0, <1>1, <2>1, <2>2 DEF SyncInv, LocksHeld
  <2> QED  BY <1>0, <1>1, <1>2, <2>1, <2>2, <2>3, ThreadStep
<1>4. CASE Matter!LockSync(r)
  <2>1. /\ syncLock = None /\ syncLock' = r /\ repair' = [repair EXCEPT ![r] = "locked"]
        /\ UNCHANGED <<subscriptionLock, maintenanceLock, restart, maintenance>>
    BY <1>4 DEF Matter!LockSync
  <2>2. \A t \in Sync : sync[t] = "idle"
    BY <1>0, <2>1
  <2>3. \A q \in Repair : repair[q] \notin {"locked", "repairing"}
    BY <1>0, <2>1 DEF SyncInv, LocksHeld
  <2>4. LocksHeld'
    BY <1>0, <1>1, <2>1, <2>2, <2>3 DEF LocksHeld
  <2> QED  BY <1>0, <1>1, <1>2, <2>1, <2>2, <2>4, ThreadStep
<1>5. CASE Matter!DrainForRepair(r)
  <2>1. /\ repair[r] = "locked" /\ subscriptionLock = None /\ subscriptionLock' = r
        /\ repair' = [repair EXCEPT ![r] = "repairing"]
        /\ UNCHANGED <<syncLock, maintenanceLock, restart, maintenance>>
    BY <1>5 DEF Matter!DrainForRepair
  <2>2. \A t \in Sync : sync[t] \notin {"reading", "applying"}
    BY <1>0, <2>1 DEF SyncInv, LocksHeld
  <2>3. \A q \in Repair : repair[q] # "repairing"
    BY <1>0, <2>1 DEF SyncInv, LocksHeld
  <2>4. LocksHeld'
    BY <1>0, <1>1, <2>1, <2>2, <2>3 DEF SyncInv, LocksHeld
  <2> QED  BY <1>0, <1>1, <1>2, <2>1, <2>4, ThreadStep
<1>6. CASE Matter!FinishRepair(r)
  <2>1. /\ repair[r] = "repairing" /\ subscriptionLock' = None /\ syncLock' = None
        /\ maintenanceLock' = None /\ maintenance' = FALSE /\ repair' = [repair EXCEPT ![r] = "idle"]
        /\ UNCHANGED restart
    BY <1>6 DEF Matter!FinishRepair
  <2>2. syncLock = r /\ subscriptionLock = r /\ r # Loop
    BY <2>1, MigrationsAssumption DEF SyncInv, LocksHeld
  <2>3. \A t \in Sync : sync[t] = "idle"
    BY <1>0, <2>2, MigrationsAssumption
  <2>4. \A q \in Repair : repair'[q] \notin {"locked", "repairing"}
    BY <1>0, <2>1, <2>2 DEF SyncInv, LocksHeld
  <2>5. LocksHeld'
    BY <1>1, <2>3, <2>4 DEF LocksHeld
  <2> QED  BY <1>0, <1>1, <1>2, <2>1, <2>2, <2>3, <2>5, ThreadStep
<1> QED  BY <1>3, <1>4, <1>5, <1>6 DEF Matter!RepairStep

LEMMA SyncNext == SyncInv /\ [Matter!Next]_(Matter!vars) => SyncInv' /\ Matter!NeverOlder
<1> SUFFICES ASSUME SyncInv, [Matter!Next]_(Matter!vars) PROVE SyncInv' /\ Matter!NeverOlder
  OBVIOUS
<1>1. UNCHANGED stored => Matter!NeverOlder
  BY DEF Matter!NeverOlder, SyncInv, Matter!TypeOK
<1>2. CASE UNCHANGED Matter!vars
  <2> USE <1>2 DEF Matter!vars, Matter!monitors, Matter!syncs, Matter!locks, Matter!events
  <2>1. Matter!TypeOK'
    BY DEF SyncInv, Matter!TypeOK
  <2>2. MonitorsJoined' /\ LocksHeld' /\ OnTheWay'
    BY DEF SyncInv, MonitorsJoined, LocksHeld, OnTheWay
  <2> QED  BY <1>1, <2>1, <2>2 DEF SyncInv
<1> QED  BY <1>1, <1>2, LoopSteps, MonitorSteps, ChangeInv, SyncSteps, RepairSteps DEF Matter!Next

-----------------------------------------------------------------------------
(* The controller of Matter.                                               *)

Identity == {"empty", "old", "new", "stray"}

\* A request is where its kind leads, and a replacement knows what it moved away
\* and, when it is to write one, the state it has read.
RequestsPlaced ==
  /\ request \in [Caller -> Controller!Request \cup {None}]
  /\ copy \in [Caller -> Controller!File \cup {None}]
  /\ \A c \in Caller :
       /\ at[c] \in {"reading", "running"} => request[c].kind \in {"command", "inspect"}
       /\ at[c] = "collected" => request[c].kind = "inspect"
       /\ at[c] = "editing" => request[c].kind # "command"
       /\ at[c] = "showing" => request[c].kind = "settings"
  /\ replacer.at # "idle" => replacer.from \in Identity
  /\ replacer.at \in {"paired", "failed", "writing"} => replacer.copy \in Controller!File

\* Nothing is under way in a server that is down.
DownIsQuiet ==
  ~up => replacer.at = "idle" /\ \A c \in Caller : at[c] = "idle"

\* As long as no command overlaps a replacement, the directory is the old one,
\* or it is away, and the replacement can only bring it back.
AwayOrOld ==
  ~overlapped =>
    /\ storage \in {"old", "none"}
    /\ up /\ replacer.at = "idle" => storage = "old"
    /\ replacer.at # "idle" =>
         /\ storage = "none" /\ replacer.from = "old" /\ replacer.at \in {"renamed", "refused"}
         /\ \A c \in Caller : at[c] \notin {"reading", "running"}

ControllerInv ==
  /\ Controller!TypeOK /\ RequestsPlaced /\ DownIsQuiet
  /\ Controller!IdentityKept /\ AwayOrOld

LEMMA ControllerFacts ==
  ControllerInv => Controller!TypeOK /\ Controller!IdentityKept /\ Controller!InPlaceUnlessOverlapped
BY DEF ControllerInv, AwayOrOld, Controller!InPlaceUnlessOverlapped

LEMMA ControllerInit == Controller!Init => ControllerInv
<1> SUFFICES ASSUME Controller!Init PROVE ControllerInv
  OBVIOUS
<1> USE DEF Controller!Init, Controller!Idle, Controller!Nobody
<1>1. Controller!TypeOK
  BY MigrationsAssumption DEF Controller!TypeOK, Controller!File
<1>2. RequestsPlaced
  BY DEF RequestsPlaced
<1>3. DownIsQuiet /\ Controller!IdentityKept /\ AwayOrOld
  BY DEF DownIsQuiet, Controller!IdentityKept, AwayOrOld
<1> QED  BY <1>1, <1>2, <1>3 DEF ControllerInv

\* What an edit makes of the state of the controller is a state of it.
LEMMA EditedFile ==
  ASSUME NEW r \in Controller!Request, r.kind # "command", NEW f \in Controller!File
  PROVE  Controller!Edited(r, f) \in Controller!File
<1>1. \/ r.kind = "settings" /\ r.unit \in Unit
      \/ r.kind \in {"save", "inspect"} /\ r.node \in Commissioned
      \/ r.kind = "remove" /\ r.node \in Commissioned
  BY DEF Controller!Request
<1>2. CASE r.kind = "settings" /\ r.unit \in Unit
  BY <1>2 DEF Controller!Edited, Controller!File
<1>3. CASE r.kind \in {"save", "inspect"} /\ r.node \in Commissioned
  BY <1>3 DEF Controller!Edited, Controller!File
<1>4. CASE r.kind = "remove" /\ r.node \in Commissioned
  BY <1>4 DEF Controller!Edited, Controller!File
<1> QED  BY <1>1, <1>2, <1>3, <1>4

LEMMA SettingsUnit ==
  ASSUME NEW r \in Controller!Request, r.kind = "settings"
  PROVE  r.unit \in Unit
BY DEF Controller!Request

\* A request goes to another place.
LEMMA CallerStep ==
  ASSUME ControllerInv, up, NEW c \in Caller,
         NEW place \in {"idle", "editing", "reading", "running", "collected", "showing"},
         at' = [at EXCEPT ![c] = place],
         UNCHANGED <<up, backups, replacer, overlapped>>,
         storage' \in {"none", "empty", "old", "new", "stray"},
         file' \in Controller!File, shown' \in Unit,
         request' \in [Caller -> Controller!Request \cup {None}],
         copy' \in [Caller -> Controller!File \cup {None}],
         \A q \in Caller : q # c => request'[q] = request[q] /\ copy'[q] = copy[q],
         place # "idle" => request'[c] \in Controller!Request /\ copy'[c] \in Controller!File,
         place \in {"reading", "running"} => request'[c].kind \in {"command", "inspect"},
         place = "collected" => request'[c].kind = "inspect",
         place = "editing" => request'[c].kind # "command",
         place = "showing" => request'[c].kind = "settings",
         storage = "old" => storage' = "old",
         ~overlapped => storage' = storage
                        /\ (place \in {"reading", "running"} => replacer.at = "idle")
  PROVE  ControllerInv'
<1> USE DEF ControllerInv
<1>1. \A q \in Caller : at'[q] = IF q = c THEN place ELSE at[q]
  BY DEF Controller!TypeOK
<1>2. Controller!TypeOK'
  BY <1>1 DEF Controller!TypeOK
<1>3. RequestsPlaced'
  BY <1>1 DEF RequestsPlaced
<1>4. DownIsQuiet'
  BY DEF DownIsQuiet
<1>5. Controller!IdentityKept'
  BY DEF Controller!IdentityKept
<1>6. AwayOrOld'
  BY <1>1 DEF AwayOrOld
<1> QED  BY <1>2, <1>3, <1>4, <1>5, <1>6

\* A command that begins finds the directory, so nothing replaces it, unless
\* commands overlapped replacements before.
LEMMA ControllerBegin ==
  ASSUME ControllerInv, NEW c \in Caller, NEW r \in Controller!Request, Controller!Begin(c, r)
  PROVE  ControllerInv'
<1> DEFINE place == IF r.kind \in {"command", "inspect"} THEN "reading" ELSE "editing"
<1>1. /\ up /\ storage # "none" /\ request' = [request EXCEPT ![c] = r]
      /\ copy' = [copy EXCEPT ![c] = file] /\ at' = [at EXCEPT ![c] = place]
      /\ UNCHANGED <<up, file, shown, storage, backups, replacer, overlapped>>
  BY DEF Controller!Begin, Controller!CallerAt, Controller!Available, Controller!directories
<1>2. /\ file \in Controller!File /\ shown \in Unit
      /\ storage \in {"none", "empty", "old", "new", "stray"}
      /\ request \in [Caller -> Controller!Request \cup {None}]
      /\ copy \in [Caller -> Controller!File \cup {None}]
  BY DEF ControllerInv, Controller!TypeOK, RequestsPlaced
<1>3. /\ request' \in [Caller -> Controller!Request \cup {None}] /\ request'[c] = r
      /\ copy' \in [Caller -> Controller!File \cup {None}] /\ copy'[c] = file
      /\ \A q \in Caller : q # c => request'[q] = request[q] /\ copy'[q] = copy[q]
  BY <1>1, <1>2
<1>4. ~overlapped => replacer.at = "idle"
  BY <1>1 DEF ControllerInv, AwayOrOld
<1>5. /\ place \in {"idle", "editing", "reading", "running", "collected", "showing"}
      /\ place \in {"editing", "reading"}
      /\ place = "reading" => r.kind \in {"command", "inspect"}
      /\ place = "editing" => r.kind # "command"
  OBVIOUS
<1> HIDE DEF place
<1> QED  BY <1>1, <1>2, <1>3, <1>4, <1>5, CallerStep

LEMMA RequestSteps ==
  ASSUME ControllerInv, NEW c \in Caller, Controller!RequestStep(c)
  PROVE  ControllerInv'
<1> USE DEF Controller!CallerAt, Controller!directories, Controller!requests
<1>1. /\ file \in Controller!File /\ shown \in Unit
      /\ storage \in {"none", "empty", "old", "new", "stray"}
      /\ request \in [Caller -> Controller!Request \cup {None}]
      /\ copy \in [Caller -> Controller!File \cup {None}]
      /\ at[c] # "idle" => request[c] \in Controller!Request /\ copy[c] \in Controller!File
      /\ at[c] # "idle" => up
  BY DEF ControllerInv, Controller!TypeOK, RequestsPlaced, DownIsQuiet
<1>2. /\ at[c] \in {"reading", "running"} => request[c].kind \in {"command", "inspect"}
      /\ at[c] = "collected" => request[c].kind = "inspect"
      /\ at[c] = "editing" => request[c].kind # "command"
      /\ at[c] = "showing" => request[c].kind = "settings"
      /\ ~overlapped /\ at[c] \in {"reading", "running"} => storage = "old" /\ replacer.at = "idle"
  BY <1>1 DEF ControllerInv, RequestsPlaced, AwayOrOld
<1>3. CASE Controller!Save(c)
  <2> DEFINE place == IF request[c].kind = "settings" THEN "showing" ELSE "idle"
  <2>1. /\ at[c] = "editing" /\ file' = Controller!Edited(request[c], copy[c])
        /\ at' = [at EXCEPT ![c] = place]
        /\ UNCHANGED <<up, shown, request, copy, storage, backups, replacer, overlapped>>
    BY <1>3 DEF Controller!Save
  <2>2. file' \in Controller!File
    BY <1>1, <1>2, <2>1, EditedFile
  <2>3. /\ place \in {"idle", "editing", "reading", "running", "collected", "showing"}
        /\ place \in {"idle", "showing"} /\ (place = "showing" => request[c].kind = "settings")
    OBVIOUS
  <2> HIDE DEF place
  <2> QED  BY <1>1, <2>1, <2>2, <2>3, CallerStep
<1>4. CASE Controller!Show(c)
  <2>1. /\ at[c] = "showing" /\ shown' = request[c].unit /\ at' = [at EXCEPT ![c] = "idle"]
        /\ UNCHANGED <<up, file, request, copy, storage, backups, replacer, overlapped>>
    BY <1>4 DEF Controller!Show
  <2>2. shown' \in Unit
    BY <1>1, <1>2, <2>1, SettingsUnit
  <2> QED  BY <1>1, <2>1, <2>2, CallerStep
<1>5. CASE Controller!Launch(c)
  <2> DEFINE place == IF Controller!Available THEN "running" ELSE "idle"
  <2>1. /\ at[c] = "reading" /\ storage' = (IF storage = "empty" THEN "stray" ELSE storage)
        /\ at' = [at EXCEPT ![c] = place]
        /\ UNCHANGED <<up, file, shown, request, copy, backups, replacer, overlapped>>
    BY <1>5 DEF Controller!Launch
  <2>2. /\ place \in {"idle", "editing", "reading", "running", "collected", "showing"}
        /\ place \in {"idle", "running"}
    OBVIOUS
  <2> HIDE DEF place
  <2> QED  BY <1>1, <1>2, <2>1, <2>2, CallerStep
<1>6. CASE Controller!EndTool(c)
  <2> DEFINE place == IF request[c].kind = "inspect" THEN "collected" ELSE "idle"
  <2>1. /\ at[c] = "running" /\ storage' = (IF storage # "none" THEN storage ELSE "empty") /\ file' = copy[c]
        /\ at' = [at EXCEPT ![c] = place]
        /\ UNCHANGED <<up, shown, request, copy, backups, replacer, overlapped>>
    BY <1>6 DEF Controller!EndTool, Controller!Available
  <2>2. /\ place \in {"idle", "editing", "reading", "running", "collected", "showing"}
        /\ place \in {"idle", "collected"} /\ (place = "collected" => request[c].kind = "inspect")
    OBVIOUS
  <2> HIDE DEF place
  <2> QED  BY <1>1, <1>2, <2>1, <2>2, CallerStep
<1>7. CASE Controller!Reread(c)
  <2> DEFINE place == IF Controller!Available THEN "editing" ELSE "idle"
  <2>1. /\ at[c] = "collected" /\ copy' = [copy EXCEPT ![c] = file] /\ at' = [at EXCEPT ![c] = place]
        /\ UNCHANGED <<up, file, shown, request, storage, backups, replacer, overlapped>>
    BY <1>7 DEF Controller!Reread
  <2>2. /\ place \in {"idle", "editing", "reading", "running", "collected", "showing"}
        /\ place \in {"idle", "editing"}
    OBVIOUS
  <2>3. /\ copy' \in [Caller -> Controller!File \cup {None}] /\ copy'[c] = file
        /\ \A q \in Caller : q # c => copy'[q] = copy[q]
    BY <1>1, <2>1
  <2> HIDE DEF place
  <2> QED  BY <1>1, <1>2, <2>1, <2>2, <2>3, CallerStep
<1> QED  BY <1>3, <1>4, <1>5, <1>6, <1>7 DEF Controller!RequestStep

\* The replacement moves the directory away only when nothing else has, and puts
\* something there only where nothing is.
LEMMA MoveAwayInv ==
  ASSUME ControllerInv, Controller!MoveAway
  PROVE  ControllerInv'
<1> USE DEF ControllerInv
<1>1. /\ up /\ replacer.at = "idle" /\ storage # "none" /\ storage' = "none"
      /\ backups' = backups \cup {storage}
      /\ replacer' = [at |-> "renamed", from |-> storage, copy |-> None]
      /\ overlapped' = (overlapped \/ \E c \in Caller : at[c] \in {"reading", "running"})
      /\ UNCHANGED <<up, file, shown, at, request, copy>>
  BY DEF Controller!MoveAway, Controller!Available, Controller!requests
<1>2. storage \in Identity
  BY <1>1 DEF Controller!TypeOK, Identity
<1>3. Controller!TypeOK'
  BY <1>1, <1>2 DEF Controller!TypeOK, Identity
<1>4. RequestsPlaced'
  BY <1>1, <1>2 DEF RequestsPlaced
<1>5. DownIsQuiet'
  BY <1>1 DEF DownIsQuiet
<1>6. Controller!IdentityKept'
  BY <1>1 DEF Controller!IdentityKept
<1>7. AwayOrOld'
  BY <1>1 DEF AwayOrOld
<1> QED  BY <1>3, <1>4, <1>5, <1>6, <1>7

\* A step of the replacement.
LEMMA ReplacerStep ==
  ASSUME ControllerInv, replacer.at # "idle",
         UNCHANGED <<up, shown, at, request, copy, overlapped>>,
         file' \in Controller!File, storage' \in {"none"} \cup Identity, backups' \subseteq Identity,
         replacer' \in [at : {"idle", "renamed", "paired", "refused", "failed", "recording", "writing"},
                        from : {None, "empty", "old", "new", "stray"}, copy : Controller!File \cup {None}],
         replacer'.at # "idle" => replacer'.from = replacer.from,
         replacer'.at \in {"paired", "failed", "writing"} => replacer'.copy \in Controller!File,
         storage' = "old" \/ "old" \in backups',
         ~overlapped => IF replacer'.at = "idle" THEN storage' = "old"
                        ELSE storage' = storage /\ replacer'.at \in {"renamed", "refused"}
  PROVE  ControllerInv'
<1> USE DEF ControllerInv
<1>1. Controller!TypeOK'
  BY DEF Controller!TypeOK, Identity
<1>2. RequestsPlaced'
  BY DEF RequestsPlaced
<1>3. DownIsQuiet'
  BY DEF DownIsQuiet
<1>4. Controller!IdentityKept'
  BY DEF Controller!IdentityKept
<1>5. AwayOrOld'
  BY DEF AwayOrOld
<1> QED  BY <1>1, <1>2, <1>3, <1>4, <1>5

LEMMA ReplaceSteps ==
  ASSUME ControllerInv, Controller!ReplaceStep
  PROVE  ControllerInv'
<1> USE DEF Controller!ReplacerAt, Controller!requests, Controller!directories
<1> DEFINE Rec == [at : {"idle", "renamed", "paired", "refused", "failed", "recording", "writing"},
                   from : {None, "empty", "old", "new", "stray"}, copy : Controller!File \cup {None}]
<1>1. /\ file \in Controller!File /\ storage \in {"none"} \cup Identity /\ backups \subseteq Identity
      /\ replacer \in Rec
      /\ storage = "old" \/ "old" \in backups
      /\ replacer.at # "idle" => replacer.from \in Identity
      /\ replacer.at \in {"paired", "failed", "writing"} => replacer.copy \in Controller!File
  BY DEF ControllerInv, Controller!TypeOK, RequestsPlaced, Controller!IdentityKept, Identity
<1>2. /\ Controller!Idle \in Rec /\ Controller!Idle.at = "idle"
  BY DEF Controller!Idle
<1>3. /\ ~overlapped /\ replacer.at # "idle" =>
           /\ storage = "none" /\ replacer.from = "old" /\ replacer.at \in {"renamed", "refused"}
  BY DEF ControllerInv, AwayOrOld
<1>4. CASE Controller!Refused
  <2>1. /\ replacer.at = "renamed" /\ replacer' = [replacer EXCEPT !.at = "refused"]
        /\ UNCHANGED <<up, file, shown, at, request, copy, storage, backups, overlapped>>
    BY <1>4 DEF Controller!Refused
  <2>2. replacer' \in Rec /\ replacer'.at = "refused" /\ replacer'.from = replacer.from
    BY <1>1, <2>1
  <2> HIDE DEF Rec
  <2> QED  BY <1>1, <1>3, <2>1, <2>2, ReplacerStep DEF Rec
<1>5. CASE Controller!ReadForPairing
  <2>1. PICK ok \in BOOLEAN :
          replacer' = [replacer EXCEPT !.at = IF ok THEN "paired" ELSE "failed", !.copy = file]
    BY <1>5 DEF Controller!ReadForPairing
  <2>2. /\ replacer.at = "renamed" /\ storage # "none"
        /\ UNCHANGED <<up, file, shown, at, request, copy, storage, backups, overlapped>>
    BY <1>5 DEF Controller!ReadForPairing, Controller!Available
  <2>3. /\ replacer' \in Rec /\ replacer'.at \in {"paired", "failed"} /\ replacer'.from = replacer.from
        /\ replacer'.copy = file
    BY <1>1, <2>1
  <2> QED  BY <1>1, <1>3, <2>2, <2>3, ReplacerStep
<1>6. CASE Controller!RollBack
  <2>1. /\ replacer.at = "refused" /\ replacer' = Controller!Idle
        /\ UNCHANGED <<up, file, shown, at, request, copy, overlapped>>
        /\ IF storage = "none" THEN storage' = replacer.from /\ backups' = backups \ {replacer.from}
           ELSE UNCHANGED <<storage, backups>>
    BY <1>6 DEF Controller!RollBack, Controller!Restore, Controller!Available
  <2>2. storage' \in {"none"} \cup Identity /\ backups' \subseteq Identity
    BY <1>1, <2>1
  <2>3. storage' = "old" \/ "old" \in backups'
    BY <1>1, <2>1
  <2> QED  BY <1>1, <1>2, <1>3, <2>1, <2>2, <2>3, ReplacerStep
<1>7. CASE Controller!GiveUp
  <2>1. /\ replacer.at = "failed" /\ replacer' = Controller!Idle /\ file' = replacer.copy
        /\ UNCHANGED <<up, shown, at, request, copy, overlapped>>
        /\ IF storage \in {"none", "empty"}
           THEN storage' = replacer.from /\ backups' = backups \ {replacer.from}
           ELSE UNCHANGED <<storage, backups>>
    BY <1>7 DEF Controller!GiveUp, Controller!Restore, Controller!Renamable
  <2>2. storage' \in {"none"} \cup Identity /\ backups' \subseteq Identity
    BY <1>1, <2>1
  <2>3. storage' = "old" \/ "old" \in backups'
    BY <1>1, <2>1
  <2> QED  BY <1>1, <1>2, <1>3, <2>1, <2>2, <2>3, ReplacerStep
<1>8. CASE Controller!Replace
  <2>1. /\ replacer.at = "paired" /\ file' = replacer.copy
        /\ UNCHANGED <<up, shown, at, request, copy, backups, overlapped>>
        /\ IF storage \in {"none", "empty"}
           THEN storage' = "new" /\ replacer' = [replacer EXCEPT !.at = "recording"]
           ELSE storage' = storage /\ replacer' = Controller!Idle
    BY <1>8 DEF Controller!Replace, Controller!Renamable
  <2>2. replacer' \in Rec /\ replacer'.at \in {"idle", "recording"}
        /\ (replacer'.at # "idle" => replacer'.from = replacer.from)
    BY <1>1, <1>2, <2>1
  <2>3. storage' \in {"none"} \cup Identity /\ (storage' = "old" \/ "old" \in backups')
    BY <1>1, <2>1 DEF Identity
  <2> QED  BY <1>1, <1>3, <2>1, <2>2, <2>3, ReplacerStep
<1>9. CASE Controller!ReadForRecord
  <2>1. /\ replacer.at = "recording" /\ replacer' = [replacer EXCEPT !.at = "writing", !.copy = file]
        /\ UNCHANGED <<up, file, shown, at, request, copy, storage, backups, overlapped>>
    BY <1>9 DEF Controller!ReadForRecord
  <2>2. replacer' \in Rec /\ replacer'.at = "writing" /\ replacer'.from = replacer.from
        /\ replacer'.copy = file
    BY <1>1, <2>1
  <2> QED  BY <1>1, <1>3, <2>1, <2>2, ReplacerStep
<1>10. CASE Controller!Record
  <2>1. PICK n \in Commissioned : file' = [replacer.copy EXCEPT !.nodes = @ \cup {n}]
    BY <1>10 DEF Controller!Record
  <2>2. /\ replacer.at = "writing" /\ replacer' = Controller!Idle
        /\ UNCHANGED <<up, shown, at, request, copy, storage, backups, overlapped>>
    BY <1>10 DEF Controller!Record
  <2>3. file' \in Controller!File
    BY <1>1, <2>1, <2>2 DEF Controller!File
  <2> QED  BY <1>1, <1>2, <1>3, <2>2, <2>3, ReplacerStep
<1> QED  BY <1>4, <1>5, <1>6, <1>7, <1>8, <1>9, <1>10 DEF Controller!ReplaceStep

LEMMA CrashStartInv ==
  ASSUME ControllerInv, Controller!Crash \/ Controller!Start
  PROVE  ControllerInv'
<1> USE DEF ControllerInv, Controller!directories, Controller!requests
<1>1. CASE Controller!Crash
  <2>1. /\ up' = FALSE /\ at' = [c \in Caller |-> "idle"] /\ request' = [c \in Caller |-> None]
        /\ copy' = [c \in Caller |-> None] /\ replacer' = [at |-> "idle", from |-> None, copy |-> None]
        /\ UNCHANGED <<file, shown, storage, backups, overlapped>>
    BY <1>1 DEF Controller!Crash, Controller!Nobody, Controller!Idle
  <2>2. Controller!TypeOK'
    BY <2>1 DEF Controller!TypeOK
  <2>3. RequestsPlaced' /\ DownIsQuiet' /\ Controller!IdentityKept' /\ AwayOrOld'
    BY <2>1 DEF RequestsPlaced, DownIsQuiet, Controller!IdentityKept, AwayOrOld
  <2> QED  BY <2>2, <2>3
<1>2. CASE Controller!Start
  <2>1. /\ ~up /\ storage # "none" /\ up' = TRUE /\ shown' = file.unit
        /\ UNCHANGED <<file, at, request, copy, storage, backups, replacer, overlapped>>
    BY <1>2 DEF Controller!Start, Controller!Available
  <2>2. Controller!TypeOK'
    BY <2>1 DEF Controller!TypeOK, Controller!File
  <2>3. RequestsPlaced'
    BY <2>1 DEF RequestsPlaced
  <2>4. DownIsQuiet' /\ Controller!IdentityKept' /\ AwayOrOld'
    BY <2>1 DEF DownIsQuiet, Controller!IdentityKept, AwayOrOld
  <2> QED  BY <2>2, <2>3, <2>4
<1> QED  BY <1>1, <1>2

LEMMA ControllerNext == ControllerInv /\ [Controller!Next]_(Controller!vars) => ControllerInv'
<1> SUFFICES ASSUME ControllerInv, [Controller!Next]_(Controller!vars) PROVE ControllerInv'
  OBVIOUS
<1>1. CASE UNCHANGED Controller!vars
  BY <1>1
     DEF Controller!vars, Controller!requests, Controller!directories, ControllerInv, Controller!TypeOK,
         RequestsPlaced, DownIsQuiet, Controller!IdentityKept, AwayOrOld
<1> QED
  BY <1>1, ControllerBegin, RequestSteps, MoveAwayInv, ReplaceSteps, CrashStartInv DEF Controller!Next

-----------------------------------------------------------------------------
(* The move of Matter storage.                                             *)

Target == Storage!Tree \X {"primary", "rollback", "pre"}
StorageRun ==
  [tool : Storage!Tool \cup {None}, phase : {"none", "copy", "move", "validate", "undo"},
   todo : Seq(Target \cup Storage!Tree), seen : [Storage!Tree -> Storage!Version \cup {None}],
   copying : BOOLEAN, moved : Seq(Storage!Tree)]

StorageShape ==
  /\ tree \in [Storage!Tree \X Storage!Place -> Storage!Version \cup {None}]
  /\ staging \subseteq Storage!Place \X BOOLEAN /\ storageService \in BOOLEAN /\ touched \in BOOLEAN
  /\ storageRun \in StorageRun
  /\ storageRun.phase = "none" <=> storageRun = Storage!NoRun
  /\ storageRun.tool = None => storageRun = Storage!NoRun
  /\ outcome \in {"none", "done", "failed", "invalid", "crashed"}
  /\ storageRun.phase # "none" => outcome = "none"
  /\ storageUsed \in [writes : Storage!Version, crashes : Nat, failures : Nat, starts : Nat]
  /\ first \in [Storage!Tree -> Storage!Version \cup {None}]

\* While it copies, a tool has only targets outside the worktree before it, and
\* what it needs in the worktree is there; what it stages is not there yet.
CopyPlaces ==
  /\ storageRun.phase # "copy" => ~storageRun.copying
  /\ storageRun.phase = "copy" =>
       /\ storageRun.todo \in Seq(Target) /\ storageRun.moved = <<>>
       /\ storageRun.copying => /\ storageRun.todo # <<>>
                                /\ tree[Head(storageRun.todo)] = None
       /\ storageRun.tool \in Storage!Tool
       /\ storageRun.tool = "controller" => Storage!Is("controller", "source")
       /\ storageRun.tool = "subscription" => Storage!Is("subscriptions", "source")
       /\ storageRun.tool = "cutover" => Storage!Sources = Storage!Tree /\ Storage!Is("controller", "primary")

\* While it relocates, what it has moved is archived.
Moving ==
  \/ /\ storageRun.moved = <<>> /\ storageRun.todo = <<"controller", "subscriptions", "bad">>
     /\ Storage!Archived = {}
  \/ /\ storageRun.moved = <<"controller">> /\ storageRun.todo = <<"subscriptions", "bad">>
     /\ Storage!Archived = {"controller"}
  \/ /\ storageRun.moved = <<"controller", "subscriptions">> /\ storageRun.todo = <<"bad">>
     /\ Storage!Archived = {"controller", "subscriptions"}
  \/ /\ storageRun.moved = <<"controller", "subscriptions", "bad">> /\ storageRun.todo = <<>>
     /\ Storage!Archived = Storage!Tree
Undoing ==
  \/ storageRun.todo = <<>> /\ Storage!Archived = {}
  \/ storageRun.todo = <<"controller">> /\ Storage!Archived = {"controller"}
  \/ storageRun.todo = <<"subscriptions", "controller">> /\ Storage!Archived = {"controller", "subscriptions"}
  \/ storageRun.todo = <<"bad", "subscriptions", "controller">> /\ Storage!Archived = Storage!Tree
MovePlaces ==
  /\ storageRun.phase # "validate"
  /\ storageRun.phase = "move" => storageRun.tool = "cutover" /\ Moving
  /\ storageRun.phase = "undo" => storageRun.tool = "cutover" /\ Undoing

\* Once a tree is archived, or is about to be, the protected trees are there.
Protected ==
  Storage!Archived # {} \/ storageRun.phase \in {"move", "undo"} =>
    Storage!Is("controller", "primary") /\ Storage!Is("subscriptions", "primary")

\* Between runs that nobody killed all trees are where they were, or all are moved.
AllOrNothing ==
  storageUsed.crashes = 0 /\ storageRun.phase \in {"none", "copy"} =>
    \/ Storage!Archived = {}
    \/ storageRun.phase = "none" /\ Storage!Archived = Storage!Tree /\ outcome # "failed"

StorageInv ==
  /\ StorageShape /\ Storage!NothingLost /\ CopyPlaces /\ MovePlaces /\ Protected /\ AllOrNothing

\* Each tree is in one of the two places, and what a run found is still there.
Found ==
  storageRun # Storage!NoRun /\ ~touched =>
    \A t \in Storage!Tree : first[t] \in {tree[<<t, "source">>], tree[<<t, "archive">>]}

LEMMA Lost == Storage!NothingLost <=> (\A t \in Storage!Tree : Storage!Is(t, "source") <=> ~Storage!Is(t, "archive")) /\ Found
BY DEF Storage!NothingLost, Found, Storage!At, Storage!Is

\* The sequences of the tools.
LEMMA Appended ==
  ASSUME NEW T, NEW a \in T, NEW b \in T, NEW c \in T
  PROVE  Append(<<a, b>>, c) = <<a, b, c>> /\ Append(<<a>>, b) = <<a, b>>
<1>1. Append(<<a, b>>, c) = <<a, b, c>>
  <2> DEFINE x == Append(<<a, b>>, c)
  <2> DEFINE y == <<a, b, c>>
  <2>1. <<a, b>> \in Seq(T) /\ Len(<<a, b>>) = 2
    OBVIOUS
  <2>2. x \in Seq(T) /\ Len(x) = 3 /\ x[1] = <<a, b>>[1] /\ x[2] = <<a, b>>[2] /\ x[3] = c
    BY <2>1, AppendProperties
  <2>3. y \in Seq(T) /\ Len(y) = 3
    OBVIOUS
  <2>4. \A i \in 1 .. Len(x) : x[i] = y[i]
    BY <2>2
  <2> HIDE DEF x, y
  <2>5. x = y
    BY <2>2, <2>3, <2>4, SeqEqual
  <2> QED  BY <2>5 DEF x, y
<1>2. Append(<<a>>, b) = <<a, b>>
  <2> DEFINE x == Append(<<a>>, b)
  <2> DEFINE y == <<a, b>>
  <2>1. <<a>> \in Seq(T) /\ Len(<<a>>) = 1
    OBVIOUS
  <2>2. x \in Seq(T) /\ Len(x) = 2 /\ x[1] = <<a>>[1] /\ x[2] = b
    BY <2>1, AppendProperties
  <2>3. y \in Seq(T) /\ Len(y) = 2
    OBVIOUS
  <2>4. \A i \in 1 .. Len(x) : x[i] = y[i]
    BY <2>2
  <2> HIDE DEF x, y
  <2>5. x = y
    BY <2>2, <2>3, <2>4, SeqEqual
  <2> QED  BY <2>5 DEF x, y
<1> QED  BY <1>1, <1>2

LEMMA CopiesShape ==
  ASSUME NEW kind \in Storage!Tool
  PROVE  Storage!Copies(kind) \in Seq(Target)
<1>1. /\ <<"controller", "rollback">> \in Target /\ <<"controller", "primary">> \in Target
      /\ <<"bad", "rollback">> \in Target /\ <<"bad", "primary">> \in Target
      /\ <<"subscriptions", "rollback">> \in Target /\ <<"subscriptions", "primary">> \in Target
      /\ <<"controller", "pre">> \in Target /\ <<"subscriptions", "pre">> \in Target
      /\ <<"bad", "pre">> \in Target
  BY DEF Target, Storage!Tree
<1>2. CASE kind = "controller"
  BY <1>1, <1>2 DEF Storage!Copies
<1>3. CASE kind = "subscription"
  BY <1>1, <1>3 DEF Storage!Copies
<1>4. CASE kind = "cutover"
  BY <1>1, <1>4 DEF Storage!Copies
<1> QED  BY <1>2, <1>3, <1>4 DEF Storage!Tool

LEMMA NextTarget ==
  ASSUME StorageInv, storageRun.phase = "copy", storageRun.todo # <<>>
  PROVE  /\ Storage!NextCopy \in Target /\ Tail(storageRun.todo) \in Seq(Target)
         /\ Storage!NextCopy = <<Storage!NextCopy[1], Storage!NextCopy[2]>>
         /\ Storage!NextCopy[1] \in Storage!Tree
         /\ Storage!NextCopy[2] \in {"primary", "rollback", "pre"}
<1>1. storageRun.todo \in Seq(Target)
  BY DEF StorageInv, CopyPlaces
<1>2. Storage!NextCopy \in Target /\ Tail(storageRun.todo) \in Seq(Target)
  BY <1>1, HeadTailProperties DEF Storage!NextCopy
<1> QED  BY <1>2 DEF Target

LEMMA StorageInit == Storage!Init => StorageInv
<1> SUFFICES ASSUME Storage!Init PROVE StorageInv
  OBVIOUS
<1> USE DEF Storage!Init
<1>1. Storage!NoRun \in StorageRun /\ Storage!NoRun.phase = "none" /\ ~Storage!NoRun.copying
  BY DEF Storage!NoRun, StorageRun
<1>2. 0 \in Storage!Version
  BY CopiesAssumption DEF Storage!Version
<1>3. StorageShape
  BY <1>1, <1>2 DEF StorageShape
<1>4. \A t \in Storage!Tree : /\ tree[<<t, "source">>] = 0 /\ tree[<<t, "archive">>] = None
                              /\ 0 # None
  BY <1>2, MigrationsAssumption DEF Storage!Place
<1>5. Storage!NothingLost
  BY <1>4 DEF Storage!NothingLost, Storage!At, Storage!Is
<1>6. Storage!Archived = {}
  BY <1>4 DEF Storage!Archived, Storage!At, Storage!Is
<1>7. CopyPlaces /\ MovePlaces /\ Protected /\ AllOrNothing
  BY <1>1, <1>6 DEF CopyPlaces, MovePlaces, Protected, AllOrNothing
<1> QED  BY <1>3, <1>5, <1>7 DEF StorageInv

\* What archived and source mean when no tree comes or goes.
LEMMA SamePlaces ==
  ASSUME \A t \in Storage!Tree, p \in {"source", "archive"} :
           tree'[<<t, p>>] = None <=> tree[<<t, p>>] = None
  PROVE  Storage!Archived' = Storage!Archived /\ Storage!Sources' = Storage!Sources
BY DEF Storage!Archived, Storage!Sources, Storage!At, Storage!Is

\* A run that ends.
LEMMA EndRun ==
  ASSUME StorageInv, storageRun # Storage!NoRun, storageRun' = Storage!NoRun,
         outcome' \in {"done", "failed", "crashed"},
         UNCHANGED <<tree, storageService, first, touched>>,
         staging' \subseteq Storage!Place \X BOOLEAN,
         storageUsed' \in [writes : Storage!Version, crashes : Nat, failures : Nat, starts : Nat],
         storageUsed'.crashes = 0 =>
           /\ storageUsed.crashes = 0
           /\ \/ Storage!Archived = {}
              \/ Storage!Archived = Storage!Tree /\ outcome' # "failed"
  PROVE  StorageInv'
<1>1. Storage!NoRun \in StorageRun /\ Storage!NoRun.phase = "none" /\ ~Storage!NoRun.copying
  BY DEF Storage!NoRun, StorageRun
<1>2. Storage!Archived' = Storage!Archived
  BY SamePlaces
<1>3. StorageShape'
  BY <1>1 DEF StorageInv, StorageShape
<1>4. Storage!NothingLost'
  BY DEF StorageInv, Storage!NothingLost, Storage!At, Storage!Is
<1>5. CopyPlaces' /\ MovePlaces'
  BY <1>1 DEF CopyPlaces, MovePlaces
<1>6. Protected'
  BY <1>1, <1>2 DEF StorageInv, Protected, Storage!At, Storage!Is
<1>7. AllOrNothing'
  BY <1>1, <1>2 DEF AllOrNothing
<1> QED  BY <1>3, <1>4, <1>5, <1>6, <1>7 DEF StorageInv

\* Steps that let the run alone and by which no tree comes or goes.
LEMMA StorageQuiet ==
  ASSUME StorageInv, UNCHANGED <<storageRun, first>>,
         tree' \in [Storage!Tree \X Storage!Place -> Storage!Version \cup {None}],
         \A t \in Storage!Tree, p \in Storage!Place : tree'[<<t, p>>] = None <=> tree[<<t, p>>] = None,
         staging' \subseteq Storage!Place \X BOOLEAN, storageService' \in BOOLEAN, touched' \in BOOLEAN,
         outcome' \in {"none", "done", "failed", "invalid", "crashed"},
         outcome' = outcome \/ (storageRun = Storage!NoRun /\ outcome' # "failed"),
         Found',
         storageUsed' \in [writes : Storage!Version, crashes : Nat, failures : Nat, starts : Nat],
         storageUsed'.crashes = storageUsed.crashes
  PROVE  StorageInv'
<1>0. {"source", "archive", "primary", "rollback", "pre"} \subseteq Storage!Place
  BY DEF Storage!Place
<1>1. Storage!Archived' = Storage!Archived /\ Storage!Sources' = Storage!Sources
  BY <1>0, SamePlaces
<1>2. StorageShape'
  BY DEF StorageInv, StorageShape
<1>3. Storage!NothingLost'
  <2>1. \A t \in Storage!Tree : (Storage!Is(t, "source") <=> ~Storage!Is(t, "archive"))'
    BY <1>0, Lost DEF StorageInv, Storage!At, Storage!Is
  <2> QED  BY <2>1 DEF Found, Storage!NothingLost, Storage!At, Storage!Is
<1>4. CopyPlaces'
  <2>1. ASSUME storageRun.phase = "copy", storageRun.copying
        PROVE  tree'[Head(storageRun.todo)] = None
    <3>1. tree[Head(storageRun.todo)] = None /\ storageRun.todo # <<>>
      BY <2>1 DEF StorageInv, CopyPlaces
    <3>2. PICK t \in Storage!Tree, p \in Storage!Place : Head(storageRun.todo) = <<t, p>>
      BY <1>0, <2>1, <3>1, NextTarget DEF Storage!NextCopy
    <3> QED  BY <3>1, <3>2
  <2>2. \A t \in Storage!Tree, p \in Storage!Place : (Storage!Is(t, p) <=> Storage!Is(t, p)')
    BY DEF Storage!At, Storage!Is
  <2>3. /\ Storage!Is("controller", "source")' <=> Storage!Is("controller", "source")
        /\ Storage!Is("subscriptions", "source")' <=> Storage!Is("subscriptions", "source")
        /\ Storage!Is("controller", "primary")' <=> Storage!Is("controller", "primary")
    BY <1>0, <2>2 DEF Storage!Tree, Storage!At, Storage!Is
  <2> QED  BY <1>1, <2>1, <2>3 DEF StorageInv, CopyPlaces
<1>5. MovePlaces'
  BY <1>1 DEF StorageInv, MovePlaces, Moving, Undoing
<1>6. Protected'
  BY <1>0, <1>1 DEF StorageInv, Protected, Storage!At, Storage!Is, Storage!Tree
<1>7. AllOrNothing'
  BY <1>1 DEF StorageInv, StorageShape, AllOrNothing
<1> QED  BY <1>2, <1>3, <1>4, <1>5, <1>6, <1>7 DEF StorageInv

\* A tool begins with what its preflight asks for.
LEMMA StartInv ==
  ASSUME StorageInv, NEW kind \in Storage!Tool, Storage!Start(kind)
  PROVE  StorageInv'
<1> DEFINE inWorktree == [t \in Storage!Tree |-> Storage!At(t, "source")]
<1> DEFINE n == [Storage!NoRun EXCEPT !.tool = kind, !.phase = "copy", !.todo = Storage!Copies(kind),
                                      !.seen = inWorktree]
<1>1. /\ storageRun = Storage!NoRun /\ Storage!Ready(kind) /\ storageRun' = n
      /\ first' = storageRun'.seen /\ touched' = FALSE /\ outcome' = "none"
      /\ UNCHANGED <<tree, staging, storageService, storageUsed>>
  BY DEF Storage!Start
<1>2. \A t \in Storage!Tree : Storage!At(t, "source") \in Storage!Version \cup {None}
  BY DEF StorageInv, StorageShape, Storage!At, Storage!Place
<1>3. Storage!Copies(kind) \in Seq(Target)
  BY CopiesShape
<1>4. Storage!Copies(kind) \in Seq(Target \cup Storage!Tree)
  BY <1>3
<1>5. /\ n \in StorageRun /\ n.phase = "copy" /\ n.tool = kind /\ ~n.copying /\ n.moved = <<>>
      /\ n.todo = Storage!Copies(kind) /\ n.seen = inWorktree
  <2>1. inWorktree \in [Storage!Tree -> Storage!Version \cup {None}]
    BY <1>2
  <2> HIDE DEF inWorktree
  <2>2. Storage!NoRun \in StorageRun /\ ~Storage!NoRun.copying /\ Storage!NoRun.moved = <<>>
    BY DEF Storage!NoRun, StorageRun
  <2> DEFINE idle == Storage!NoRun
  <2> DEFINE targets == Storage!Copies(kind)
  <2>3. targets \in Seq(Target \cup Storage!Tree)
    BY <1>4
  <2> HIDE DEF idle, targets
  <2>4. idle \in StorageRun /\ ~idle.copying /\ idle.moved = <<>>
    BY <2>2 DEF idle
  <2>5. \A m : m = [idle EXCEPT !.tool = kind, !.phase = "copy", !.todo = targets, !.seen = inWorktree] =>
          /\ m \in StorageRun /\ m.tool = kind /\ m.phase = "copy" /\ m.todo = targets
          /\ m.seen = inWorktree /\ m.copying = idle.copying /\ m.moved = idle.moved
    <3> SUFFICES ASSUME NEW m,
                        m = [idle EXCEPT !.tool = kind, !.phase = "copy", !.todo = targets, !.seen = inWorktree]
                 PROVE  /\ m \in StorageRun /\ m.tool = kind /\ m.phase = "copy" /\ m.todo = targets
                        /\ m.seen = inWorktree /\ m.copying = idle.copying /\ m.moved = idle.moved
      OBVIOUS
    <3>1. /\ m.tool = kind /\ m.phase = "copy" /\ m.todo = targets
          /\ m.seen = inWorktree /\ m.copying = idle.copying /\ m.moved = idle.moved
      BY <2>4 DEF StorageRun
    <3>2. m \in StorageRun
      BY <2>1, <2>3, <2>4 DEF StorageRun
    <3> QED  BY <3>1, <3>2
  <2> QED  BY <2>4, <2>5 DEF idle, targets
<1> HIDE DEF n
<1>6. Storage!NoRun.phase = "none"
  BY DEF Storage!NoRun
<1>7. Storage!Archived' = Storage!Archived /\ Storage!Sources' = Storage!Sources
  BY <1>1, SamePlaces
<1>8. StorageShape'
  <2>1. n # Storage!NoRun /\ n.tool # None
    BY <1>5, <1>6, MigrationsAssumption
  <2>2. first' \in [Storage!Tree -> Storage!Version \cup {None}]
    BY <1>1, <1>5 DEF StorageRun
  <2> QED  BY <1>1, <1>5, <2>1, <2>2 DEF StorageInv, StorageShape
<1>9. Storage!NothingLost'
  BY <1>1, <1>5 DEF StorageInv, Storage!NothingLost, Storage!At, Storage!Is
<1>10. CopyPlaces'
  <2>1. /\ kind = "controller" => Storage!Is("controller", "source")
        /\ kind = "subscription" => Storage!Is("subscriptions", "source")
        /\ kind = "cutover" => Storage!Sources = Storage!Tree /\ Storage!Is("controller", "primary")
    BY <1>1 DEF Storage!Ready, Storage!Sources, Storage!ControllerCopied
  <2> QED  BY <1>1, <1>3, <1>5, <1>7, <2>1 DEF CopyPlaces, Storage!At, Storage!Is
<1>11. MovePlaces'
  BY <1>1, <1>5 DEF MovePlaces
<1>12. Protected'
  BY <1>1, <1>5, <1>7 DEF StorageInv, Protected, Storage!At, Storage!Is
<1>13. AllOrNothing'
  <2>1. Storage!Archived # Storage!Tree
    <3>1. Storage!Sources # {} /\ Storage!Sources \subseteq Storage!Tree
      BY <1>1 DEF Storage!Ready, Storage!Tool, Storage!Sources, Storage!Tree
    <3> QED  BY <3>1, Lost DEF StorageInv, Storage!Sources, Storage!Archived
  <2> QED  BY <1>1, <1>5, <1>6, <1>7, <2>1 DEF StorageInv, AllOrNothing
<1> QED  BY <1>8, <1>9, <1>10, <1>11, <1>12, <1>13 DEF StorageInv

\* Steps of a tool that copies.
LEMMA StorageCopies ==
  ASSUME StorageInv, storageRun.phase = "copy",
         UNCHANGED <<staging, storageService, outcome, storageUsed, first, touched>>,
         storageRun' \in StorageRun, storageRun'.tool = storageRun.tool, storageRun'.phase = "copy",
         storageRun'.moved = storageRun.moved, storageRun'.todo \in Seq(Target),
         storageRun'.copying => storageRun'.todo # <<>> /\ tree'[Head(storageRun'.todo)] = None,
         tree' \in [Storage!Tree \X Storage!Place -> Storage!Version \cup {None}],
         \A t \in Storage!Tree, p \in {"source", "archive"} : tree'[<<t, p>>] = tree[<<t, p>>],
         \A t \in Storage!Tree : tree[<<t, "primary">>] # None => tree'[<<t, "primary">>] # None
  PROVE  StorageInv'
<1>1. Storage!Archived' = Storage!Archived /\ Storage!Sources' = Storage!Sources
  BY SamePlaces
<1>2. Storage!NoRun.phase = "none"
  BY DEF Storage!NoRun
<1>3. storageRun.tool \in Storage!Tool /\ storageRun.tool # None /\ storageRun # Storage!NoRun
  BY <1>2, MigrationsAssumption DEF StorageInv, CopyPlaces
<1>4. StorageShape'
  BY <1>2, <1>3 DEF StorageInv, StorageShape
<1>5. Storage!NothingLost'
  BY <1>3 DEF StorageInv, Storage!NothingLost, Storage!At, Storage!Is
<1>6. CopyPlaces'
  <2>1. {"controller", "subscriptions"} \subseteq Storage!Tree
    BY DEF Storage!Tree
  <2>2. /\ Storage!Is("controller", "source")' <=> Storage!Is("controller", "source")
        /\ Storage!Is("subscriptions", "source")' <=> Storage!Is("subscriptions", "source")
        /\ Storage!Is("controller", "primary") => Storage!Is("controller", "primary")'
    BY <2>1 DEF Storage!At, Storage!Is
  <2> QED  BY <1>1, <2>2 DEF StorageInv, CopyPlaces
<1>7. MovePlaces'
  BY DEF MovePlaces
<1>8. Protected'
  BY <1>1 DEF StorageInv, Protected, Storage!At, Storage!Is, Storage!Tree
<1>9. AllOrNothing'
  BY <1>1 DEF StorageInv, AllOrNothing
<1> QED  BY <1>4, <1>5, <1>6, <1>7, <1>8, <1>9 DEF StorageInv

\* What a tool that copies is bound by.
LEMMA CopyingFacts ==
  ASSUME StorageInv, storageRun.phase = "copy"
  PROVE  /\ storageRun # Storage!NoRun /\ storageRun \in StorageRun
         /\ storageRun.tool \in Storage!Tool /\ storageRun.moved = <<>>
         /\ storageUsed.crashes = 0 => Storage!Archived = {}
<1>1. Storage!NoRun.phase = "none"
  BY DEF Storage!NoRun
<1> QED  BY <1>1 DEF StorageInv, StorageShape, CopyPlaces, AllOrNothing

\* What is there already is left as it is.
LEMMA SkipCopyInv ==
  ASSUME StorageInv, Storage!SkipCopy
  PROVE  StorageInv'
<1>1. /\ storageRun.phase = "copy" /\ storageRun.todo # <<>> /\ ~storageRun.copying
      /\ UNCHANGED <<tree, staging, storageService, storageUsed, first, touched>>
      /\ \/ storageRun' = [storageRun EXCEPT !.todo = Tail(@)] /\ outcome' = outcome
         \/ storageRun' = Storage!NoRun /\ outcome' = "failed"
  BY DEF Storage!SkipCopy, Storage!Copying, Storage!End
<1>2. CASE storageRun' = [storageRun EXCEPT !.todo = Tail(@)] /\ outcome' = outcome
  <2>1. Tail(storageRun.todo) \in Seq(Target)
    BY <1>1, NextTarget
  <2>2. Tail(storageRun.todo) \in Seq(Target \cup Storage!Tree)
    BY <2>1
  <2>3. /\ storageRun' \in StorageRun /\ storageRun'.tool = storageRun.tool /\ storageRun'.phase = "copy"
        /\ storageRun'.moved = storageRun.moved /\ storageRun'.todo \in Seq(Target) /\ ~storageRun'.copying
    BY <1>1, <1>2, <2>1, <2>2, CopyingFacts DEF StorageRun
  <2>4. tree' \in [Storage!Tree \X Storage!Place -> Storage!Version \cup {None}]
    BY <1>1 DEF StorageInv, StorageShape
  <2> QED  BY <1>1, <1>2, <2>3, <2>4, StorageCopies
<1>3. CASE storageRun' = Storage!NoRun /\ outcome' = "failed"
  BY <1>1, <1>3, CopyingFacts, EndRun DEF StorageInv, StorageShape
<1> QED  BY <1>1, <1>2, <1>3

\* A staging directory is begun for what is missing.
LEMMA StagingInv ==
  ASSUME StorageInv, Storage!Stage
  PROVE  StorageInv'
<1>1. /\ storageRun.phase = "copy" /\ storageRun.todo # <<>>
      /\ ~Storage!Is(Storage!NextCopy[1], Storage!NextCopy[2])
      /\ storageRun' = [storageRun EXCEPT !.copying = TRUE]
      /\ UNCHANGED <<tree, staging, storageService, outcome, storageUsed, first, touched>>
  BY DEF Storage!Stage, Storage!Copying
<1>2. storageRun.todo \in Seq(Target)
  BY <1>1 DEF StorageInv, CopyPlaces
<1>3. /\ storageRun' \in StorageRun /\ storageRun'.tool = storageRun.tool /\ storageRun'.phase = "copy"
      /\ storageRun'.moved = storageRun.moved /\ storageRun'.todo = storageRun.todo
  BY <1>1, CopyingFacts DEF StorageRun
<1>4. tree[Head(storageRun.todo)] = None
  BY <1>1, NextTarget DEF Storage!NextCopy, Storage!At, Storage!Is
<1>5. tree' \in [Storage!Tree \X Storage!Place -> Storage!Version \cup {None}]
  BY <1>1 DEF StorageInv, StorageShape
<1> QED  BY <1>1, <1>2, <1>3, <1>4, <1>5, StorageCopies

\* The staging directory is renamed to where nothing is.
LEMMA PromoteInv ==
  ASSUME StorageInv, Storage!Promote
  PROVE  StorageInv' /\ Storage!AuthorityKept
<1>1. /\ storageRun.phase = "copy" /\ storageRun.todo # <<>> /\ storageRun.copying
      /\ storageRun' = [storageRun EXCEPT !.todo = Tail(@), !.copying = FALSE]
      /\ tree' = [tree EXCEPT ![Storage!NextCopy] = Storage!At(Storage!NextCopy[1], Storage!CopyFrom)]
      /\ UNCHANGED <<staging, storageService, outcome, storageUsed, first, touched>>
  BY DEF Storage!Promote, Storage!Promoted, Storage!Copying
<1>2. PICK t \in Storage!Tree, p \in {"primary", "rollback", "pre"} : Storage!NextCopy = <<t, p>>
  BY <1>1, NextTarget
<1>3. tree[<<t, p>>] = None
  BY <1>1, <1>2 DEF StorageInv, CopyPlaces, Storage!NextCopy
<1>4. \A s \in Storage!Tree, q \in Storage!Place : <<s, q>> # <<t, p>> => tree'[<<s, q>>] = tree[<<s, q>>]
  BY <1>1, <1>2 DEF StorageInv, StorageShape
<1>5. {"source", "archive", "primary"} \subseteq Storage!Place
  BY DEF Storage!Place
<1>6. /\ \A s \in Storage!Tree, q \in {"source", "archive"} : tree'[<<s, q>>] = tree[<<s, q>>]
      /\ \A s \in Storage!Tree : tree[<<s, "primary">>] # None => tree'[<<s, "primary">>] = tree[<<s, "primary">>]
  BY <1>3, <1>4, <1>5
<1>7. Tail(storageRun.todo) \in Seq(Target)
  BY <1>1, NextTarget
<1>8. Tail(storageRun.todo) \in Seq(Target \cup Storage!Tree)
  BY <1>7
<1>9. /\ storageRun' \in StorageRun /\ storageRun'.tool = storageRun.tool /\ storageRun'.phase = "copy"
      /\ storageRun'.moved = storageRun.moved /\ storageRun'.todo \in Seq(Target) /\ ~storageRun'.copying
  BY <1>1, <1>7, <1>8, CopyingFacts DEF StorageRun
<1>10. tree' \in [Storage!Tree \X Storage!Place -> Storage!Version \cup {None}]
  <2>1. Storage!CopyFrom \in {"primary", "source"}
    BY DEF Storage!CopyFrom, Storage!From
  <2>2. Storage!At(t, Storage!CopyFrom) \in Storage!Version \cup {None}
    BY <2>1, <1>5 DEF StorageInv, StorageShape, Storage!At
  <2>3. tree' = [tree EXCEPT ![<<t, p>>] = Storage!At(t, Storage!CopyFrom)]
    BY <1>1, <1>2
  <2> QED  BY <2>2, <2>3 DEF StorageInv, StorageShape
<1>11. StorageInv'
  BY <1>1, <1>6, <1>9, <1>10, StorageCopies
<1> QED  BY <1>6, <1>11 DEF Storage!AuthorityKept, Storage!At, Storage!Is

\* A copy the disk refuses.
LEMMA CopyFailsInv ==
  ASSUME StorageInv, Storage!CopyFails
  PROVE  StorageInv'
<1>1. /\ storageRun.phase = "copy" /\ storageRun.todo # <<>> /\ storageRun' = Storage!NoRun /\ outcome' = "failed"
      /\ storageUsed' = [storageUsed EXCEPT !["failures"] = @ + 1]
      /\ UNCHANGED <<tree, storageService, first, touched>>
  BY DEF Storage!CopyFails, Storage!Copying, Storage!Spend, Storage!End
<1>2. Storage!NextCopy[2] \in Storage!Place
  BY <1>1, NextTarget DEF Storage!Place
<1>3. staging \subseteq Storage!Place \X BOOLEAN
  BY DEF StorageInv, StorageShape
<1>4. staging' \subseteq Storage!Place \X BOOLEAN
  BY <1>2, <1>3 DEF Storage!CopyFails, Storage!Abandon
<1>5. storageUsed' \in [writes : Storage!Version, crashes : Nat, failures : Nat, starts : Nat]
      /\ storageUsed'.crashes = storageUsed.crashes
  BY <1>1 DEF StorageInv, StorageShape
<1> QED  BY <1>1, <1>4, <1>5, CopyingFacts, EndRun

\* Once everything is copied, the tool that relocates goes on only when both
\* protected trees are there; the others are through.
LEMMA CheckInv ==
  ASSUME StorageInv, Storage!Check
  PROVE  StorageInv' /\ Storage!CompleteIsBackedUp
<1>1. /\ storageRun.phase = "copy" /\ storageRun.todo = <<>>
      /\ UNCHANGED <<tree, staging, storageService, storageUsed, first, touched>>
      /\ \/ storageRun' = Storage!NoRun /\ outcome' = "failed"
         \/ storageRun' = Storage!NoRun /\ outcome' = "done" /\ storageRun.tool # "cutover"
         \/ /\ storageRun.tool = "cutover" /\ Storage!Agreed /\ outcome' = outcome
            /\ storageRun' = [storageRun EXCEPT !.phase = "move", !.todo = <<"controller", "subscriptions", "bad">>]
  BY DEF Storage!Check, Storage!End, Storage!MovesFirst
<1>2. CASE storageRun' = Storage!NoRun /\ outcome' \in {"failed", "done"}
            /\ (outcome' = "done" => storageRun.tool # "cutover")
  <2>1. StorageInv'
    BY <1>1, <1>2, CopyingFacts, EndRun DEF StorageInv, StorageShape
  <2>2. outcome' = "done" => Storage!Is("controller", "source") \/ Storage!Is("subscriptions", "source")
    BY <1>1, <1>2, CopyingFacts DEF StorageInv, CopyPlaces, Storage!Tool
  <2>3. {"controller", "subscriptions"} \subseteq Storage!Tree
    BY DEF Storage!Tree
  <2>4. outcome' = "done" => Storage!Archived # Storage!Tree
    BY <2>2, <2>3, Lost DEF StorageInv, Storage!Archived
  <2>5. Storage!Archived' = Storage!Archived
    BY <1>1, SamePlaces
  <2> QED  BY <2>1, <2>4, <2>5 DEF Storage!CompleteIsBackedUp
<1>3. CASE /\ storageRun.tool = "cutover" /\ Storage!Agreed /\ outcome' = outcome
           /\ storageRun' = [storageRun EXCEPT !.phase = "move", !.todo = <<"controller", "subscriptions", "bad">>]
  <2>1. Storage!Sources = Storage!Tree /\ Storage!Is("controller", "primary")
    BY <1>1, <1>3 DEF StorageInv, CopyPlaces
  <2>2. Storage!Is("subscriptions", "primary")
    <3>1. Storage!Copies("cutover")[1] = <<"subscriptions", "primary">> /\ 1 \in DOMAIN Storage!Copies("cutover")
      BY DEF Storage!Copies
    <3> QED  BY <1>3, <3>1 DEF Storage!Agreed
  <2>3. Storage!Archived = {}
    BY <2>1, Lost DEF StorageInv, Storage!Archived, Storage!Sources
  <2>4. {"controller", "subscriptions", "bad"} \subseteq Target \cup Storage!Tree
    BY DEF Storage!Tree
  <2>5. <<"controller", "subscriptions", "bad">> \in Seq(Target \cup Storage!Tree)
    BY <2>4
  <2>6. storageRun \in StorageRun /\ storageRun.moved = <<>>
    BY <1>1, CopyingFacts
  <2>7. ~storageRun.copying
    BY <1>1 DEF StorageInv, CopyPlaces
  <2> DEFINE moves == <<"controller", "subscriptions", "bad">>
  <2> HIDE DEF moves
  <2>8. /\ storageRun' \in StorageRun /\ storageRun'.tool = storageRun.tool /\ storageRun'.phase = "move"
        /\ storageRun'.moved = <<>> /\ storageRun'.todo = moves /\ ~storageRun'.copying
    <3>1. storageRun' = [storageRun EXCEPT !.phase = "move", !.todo = moves]
      BY <1>3 DEF moves
    <3>2. moves \in Seq(Target \cup Storage!Tree)
      BY <2>5 DEF moves
    <3> QED  BY <2>6, <2>7, <3>1, <3>2 DEF StorageRun
  <2>9. Storage!Archived' = {}
    BY <1>1, <2>3, SamePlaces
  <2>10. Storage!NoRun.phase = "none" /\ "cutover" # None
    BY MigrationsAssumption DEF Storage!NoRun, Storage!Tool
  <2>11. storageRun # Storage!NoRun /\ storageRun' # Storage!NoRun
    BY <1>1, <2>8, <2>10
  <2>12. StorageShape'
    BY <1>1, <1>3, <2>8, <2>10, <2>11 DEF StorageInv, StorageShape
  <2>13. Storage!NothingLost'
    BY <1>1, <2>11 DEF StorageInv, Storage!NothingLost, Storage!At, Storage!Is
  <2>14. CopyPlaces'
    BY <2>8 DEF CopyPlaces
  <2>15. MovePlaces'
    BY <1>3, <2>8, <2>9 DEF MovePlaces, Moving, moves
  <2>16. Protected'
    BY <1>1, <2>1, <2>2 DEF Protected, Storage!At, Storage!Is
  <2>17. AllOrNothing'
    BY <2>8 DEF AllOrNothing
  <2> QED  BY <1>1, <1>3, <2>12, <2>13, <2>14, <2>15, <2>16, <2>17 DEF StorageInv, StorageShape, Storage!CompleteIsBackedUp
<1> QED  BY <1>1, <1>2, <1>3

\* What a rename between the worktree and the archive does.
LEMMA Renamed ==
  ASSUME StorageInv, NEW t \in Storage!Tree, NEW p, NEW q,
         (p = "source" /\ q = "archive") \/ (p = "archive" /\ q = "source"),
         Storage!Is(t, p), Storage!Rename(t, p, q),
         storageRun # Storage!NoRun, UNCHANGED <<first, touched>>
  PROVE  /\ tree' \in [Storage!Tree \X Storage!Place -> Storage!Version \cup {None}]
         /\ \A s \in Storage!Tree, r \in {"primary", "rollback", "pre"} : tree'[<<s, r>>] = tree[<<s, r>>]
         /\ Storage!Archived' = IF q = "archive" THEN Storage!Archived \cup {t} ELSE Storage!Archived \ {t}
         /\ Storage!NothingLost'
<1>1. {"source", "archive", "primary", "rollback", "pre"} \subseteq Storage!Place
  BY DEF Storage!Place
<1>2. tree' = [tree EXCEPT ![<<t, p>>] = None, ![<<t, q>>] = Storage!At(t, p)]
  BY DEF Storage!Rename
<1>3. tree \in [Storage!Tree \X Storage!Place -> Storage!Version \cup {None}]
  BY DEF StorageInv, StorageShape
<1>4. Storage!At(t, p) \in Storage!Version \cup {None}
  BY <1>1, <1>3 DEF Storage!At
<1>5. tree' \in [Storage!Tree \X Storage!Place -> Storage!Version \cup {None}]
  BY <1>2, <1>3, <1>4
<1>6. /\ tree'[<<t, p>>] = None /\ tree'[<<t, q>>] = tree[<<t, p>>]
      /\ \A s \in Storage!Tree, r \in Storage!Place :
           <<s, r>> # <<t, p>> /\ <<s, r>> # <<t, q>> => tree'[<<s, r>>] = tree[<<s, r>>]
  BY <1>1, <1>2, <1>3 DEF Storage!At
<1>7. tree'[<<t, q>>] # None
  BY <1>6 DEF Storage!At, Storage!Is
<1>8. \A s \in Storage!Tree, r \in {"primary", "rollback", "pre"} : tree'[<<s, r>>] = tree[<<s, r>>]
  BY <1>1, <1>6
<1>9. \A s \in Storage!Tree : s # t => /\ tree'[<<s, "source">>] = tree[<<s, "source">>]
                                        /\ tree'[<<s, "archive">>] = tree[<<s, "archive">>]
  BY <1>1, <1>6
<1>10. Storage!Archived' = IF q = "archive" THEN Storage!Archived \cup {t} ELSE Storage!Archived \ {t}
  BY <1>6, <1>7, <1>9 DEF Storage!Archived, Storage!At, Storage!Is
<1>11. \A s \in Storage!Tree : (Storage!Is(s, "source") <=> ~Storage!Is(s, "archive"))'
  BY <1>6, <1>7, <1>9, Lost DEF StorageInv, Storage!At, Storage!Is
<1>12. ~touched => \A s \in Storage!Tree : first[s] \in {tree'[<<s, "source">>], tree'[<<s, "archive">>]}
  <2> SUFFICES ASSUME ~touched, NEW s \in Storage!Tree
               PROVE  first[s] \in {tree'[<<s, "source">>], tree'[<<s, "archive">>]}
    OBVIOUS
  <2>1. first[s] \in {tree[<<s, "source">>], tree[<<s, "archive">>]}
    BY Lost DEF StorageInv, Found
  <2>2. CASE s # t
    BY <1>9, <2>1, <2>2
  <2>3. CASE s = t
    <3>1. tree[<<t, q>>] = None /\ first[t] # None => first[t] = tree[<<t, p>>]
      BY <2>1, <2>3
    <3>2. tree[<<t, q>>] = None
      BY Lost DEF StorageInv, Storage!At, Storage!Is
    <3>3. tree'[<<t, p>>] = None /\ tree'[<<t, q>>] = tree[<<t, p>>]
      BY <1>6
    <3> QED  BY <2>1, <2>3, <3>2, <3>3
  <2> QED  BY <2>2, <2>3
<1>13. Storage!NothingLost'
  BY <1>11, <1>12 DEF Storage!NothingLost, Storage!At, Storage!Is
<1> QED  BY <1>5, <1>8, <1>10, <1>13

LEMMA TreeSequences ==
  ASSUME NEW T, Storage!Tree \subseteq T
  PROVE  /\ <<>> \in Seq(T) /\ <<"controller">> \in Seq(T) /\ <<"bad">> \in Seq(T)
         /\ <<"controller", "subscriptions">> \in Seq(T) /\ <<"subscriptions", "bad">> \in Seq(T)
         /\ <<"subscriptions", "controller">> \in Seq(T)
         /\ <<"controller", "subscriptions", "bad">> \in Seq(T)
         /\ <<"bad", "subscriptions", "controller">> \in Seq(T)
<1>1. "controller" \in T /\ "subscriptions" \in T /\ "bad" \in T
  BY DEF Storage!Tree
<1> HIDE DEF Storage!Tree
<1> QED  BY <1>1

\* What a tool that relocates is bound by.
LEMMA MovingFacts ==
  ASSUME StorageInv, storageRun.phase \in {"move", "undo"}
  PROVE  /\ storageRun # Storage!NoRun /\ storageRun \in StorageRun /\ ~storageRun.copying
         /\ storageRun.tool = "cutover"
         /\ storageRun.phase = "move" => Moving
         /\ storageRun.phase = "undo" => Undoing
<1>1. Storage!NoRun.phase = "none"
  BY DEF Storage!NoRun
<1> QED  BY <1>1 DEF StorageInv, StorageShape, CopyPlaces, MovePlaces

\* Steps of a tool that relocates.
LEMMA StorageMoves ==
  ASSUME StorageInv, storageRun.phase \in {"move", "undo"},
         UNCHANGED <<staging, storageService, outcome, first, touched>>,
         storageRun' \in StorageRun, storageRun'.tool = "cutover", storageRun'.phase \in {"move", "undo"},
         ~storageRun'.copying,
         storageRun'.phase = "move" => Moving',
         storageRun'.phase = "undo" => Undoing',
         tree' \in [Storage!Tree \X Storage!Place -> Storage!Version \cup {None}],
         \A t \in Storage!Tree : tree'[<<t, "primary">>] = tree[<<t, "primary">>],
         Storage!NothingLost',
         storageUsed' \in [writes : Storage!Version, crashes : Nat, failures : Nat, starts : Nat]
  PROVE  StorageInv' /\ Storage!AuthorityKept /\ Storage!CompleteIsBackedUp
<1>1. Storage!NoRun.phase = "none" /\ "cutover" # None
  BY MigrationsAssumption DEF Storage!NoRun, Storage!Tool
<1>2. storageRun' # Storage!NoRun
  BY <1>1
<1>3. StorageShape'
  BY <1>1, <1>2 DEF StorageInv, StorageShape
<1>4. CopyPlaces'
  BY DEF CopyPlaces
<1>5. MovePlaces'
  BY DEF MovePlaces
<1>6. Protected'
  <2>1. Storage!Is("controller", "primary") /\ Storage!Is("subscriptions", "primary")
    BY DEF StorageInv, Protected
  <2> QED  BY <2>1 DEF Protected, Storage!At, Storage!Is, Storage!Tree
<1>7. AllOrNothing'
  BY DEF AllOrNothing
<1>8. Storage!AuthorityKept /\ Storage!CompleteIsBackedUp
  BY DEF Storage!AuthorityKept, Storage!CompleteIsBackedUp, Storage!At, Storage!Is
<1> QED  BY <1>3, <1>4, <1>5, <1>6, <1>7, <1>8 DEF StorageInv

\* A relocation that fails puts back what it has moved, the last one first.
LEMMA TurnsBack ==
  ASSUME StorageInv, storageRun.phase = "move",
         storageRun' = [storageRun EXCEPT !.phase = "undo", !.todo = Storage!Reverse(storageRun.moved)],
         UNCHANGED <<tree, staging, storageService, outcome, first, touched>>,
         storageUsed' \in [writes : Storage!Version, crashes : Nat, failures : Nat, starts : Nat]
  PROVE  StorageInv' /\ Storage!AuthorityKept /\ Storage!CompleteIsBackedUp
<1>1. storageRun \in StorageRun /\ Moving /\ ~storageRun.copying /\ storageRun # Storage!NoRun
      /\ storageRun.tool = "cutover"
  BY MovingFacts
<1> DEFINE back == Storage!Reverse(storageRun.moved)
<1>2. \/ back = <<>> /\ Storage!Archived = {}
      \/ back = <<"controller">> /\ Storage!Archived = {"controller"}
      \/ back = <<"subscriptions", "controller">> /\ Storage!Archived = {"controller", "subscriptions"}
      \/ back = <<"bad", "subscriptions", "controller">> /\ Storage!Archived = Storage!Tree
  <2>1. Storage!Reverse(<<>>) = <<>>
    BY DEF Storage!Reverse
  <2>2. Storage!Reverse(<<"controller">>) = <<"controller">>
    BY DEF Storage!Reverse
  <2>3. Storage!Reverse(<<"controller", "subscriptions">>) = <<"subscriptions", "controller">>
    BY DEF Storage!Reverse
  <2>4. Storage!Reverse(<<"controller", "subscriptions", "bad">>) = <<"bad", "subscriptions", "controller">>
    BY DEF Storage!Reverse
  <2> QED  BY <1>1, <2>1, <2>2, <2>3, <2>4 DEF Moving
<1>3. back \in Seq(Target \cup Storage!Tree)
  <2>1. Storage!Tree \subseteq Target \cup Storage!Tree
    OBVIOUS
  <2> HIDE DEF back
  <2> QED  BY <1>2, <2>1, TreeSequences
<1>4. storageRun' = [storageRun EXCEPT !.phase = "undo", !.todo = back]
  OBVIOUS
<1> HIDE DEF back
<1>5. /\ storageRun' \in StorageRun /\ storageRun'.tool = "cutover" /\ storageRun'.phase = "undo"
      /\ ~storageRun'.copying /\ storageRun'.todo = back
  BY <1>1, <1>3, <1>4 DEF StorageRun
<1>6. Storage!Archived' = Storage!Archived
  BY SamePlaces
<1>7. Undoing'
  BY <1>2, <1>5, <1>6 DEF Undoing
<1>8. Storage!NothingLost'
  <2>1. storageRun' # Storage!NoRun
    BY <1>5 DEF Storage!NoRun
  <2> QED  BY <1>1, <2>1 DEF StorageInv, Storage!NothingLost, Storage!At, Storage!Is
<1>9. tree' \in [Storage!Tree \X Storage!Place -> Storage!Version \cup {None}]
  BY DEF StorageInv, StorageShape
<1> QED  BY <1>5, <1>7, <1>8, <1>9, StorageMoves

LEMMA MoveInv ==
  ASSUME StorageInv, Storage!Move
  PROVE  StorageInv' /\ Storage!AuthorityKept /\ Storage!CompleteIsBackedUp
<1>1. /\ storageRun.phase = "move" /\ storageRun.todo # <<>>
      /\ UNCHANGED <<staging, storageService, outcome, first, touched>>
      /\ \/ /\ Storage!Rename(Head(storageRun.todo), "source", "archive")
            /\ storageRun' = [storageRun EXCEPT !.moved = Append(@, Head(storageRun.todo)), !.todo = Tail(@)]
            /\ storageUsed' = storageUsed
         \/ /\ storageUsed' = [storageUsed EXCEPT !["failures"] = @ + 1]
            /\ storageRun' = [storageRun EXCEPT !.phase = "undo", !.todo = Storage!Reverse(storageRun.moved)]
            /\ tree' = tree
  BY DEF Storage!Move, Storage!Spend
<1>2. /\ storageRun \in StorageRun /\ Moving /\ ~storageRun.copying /\ storageRun # Storage!NoRun
      /\ storageRun.tool = "cutover"
  BY <1>1, MovingFacts
<1>3. ASSUME /\ Storage!Rename(Head(storageRun.todo), "source", "archive")
             /\ storageRun' = [storageRun EXCEPT !.moved = Append(@, Head(storageRun.todo)), !.todo = Tail(@)]
             /\ storageUsed' = storageUsed
      PROVE  StorageInv' /\ Storage!AuthorityKept /\ Storage!CompleteIsBackedUp
  <2> DEFINE t == Head(storageRun.todo)
  <2> DEFINE moved == Append(storageRun.moved, t)
  <2> DEFINE left == Tail(storageRun.todo)
  <2>1. /\ t \in Storage!Tree /\ t \notin Storage!Archived
        /\ \/ /\ moved = <<"controller">> /\ left = <<"subscriptions", "bad">>
              /\ Storage!Archived \cup {t} = {"controller"}
           \/ /\ moved = <<"controller", "subscriptions">> /\ left = <<"bad">>
              /\ Storage!Archived \cup {t} = {"controller", "subscriptions"}
           \/ /\ moved = <<"controller", "subscriptions", "bad">> /\ left = <<>>
              /\ Storage!Archived \cup {t} = Storage!Tree
    <3>1. {"controller", "subscriptions", "bad"} = Storage!Tree
      BY DEF Storage!Tree
    <3>a. "controller" \in Storage!Tree /\ "subscriptions" \in Storage!Tree /\ "bad" \in Storage!Tree
      BY <3>1
    <3>b. /\ Append(<<"controller">>, "subscriptions") = <<"controller", "subscriptions">>
          /\ Append(<<"controller", "subscriptions">>, "bad") = <<"controller", "subscriptions", "bad">>
      BY <3>a, Appended
    <3>2. CASE /\ storageRun.moved = <<>> /\ storageRun.todo = <<"controller", "subscriptions", "bad">>
               /\ Storage!Archived = {}
      BY <3>1, <3>2
    <3>3. CASE /\ storageRun.moved = <<"controller">> /\ storageRun.todo = <<"subscriptions", "bad">>
               /\ Storage!Archived = {"controller"}
      <4>1. t = "subscriptions" /\ left = <<"bad">>
        BY <3>3
      <4>2. moved = <<"controller", "subscriptions">>
        BY <3>b, <3>3, <4>1
      <4> QED  BY <3>1, <3>3, <4>1, <4>2
    <3>4. CASE /\ storageRun.moved = <<"controller", "subscriptions">> /\ storageRun.todo = <<"bad">>
               /\ Storage!Archived = {"controller", "subscriptions"}
      <4>1. t = "bad" /\ left = <<>>
        BY <3>4
      <4>2. moved = <<"controller", "subscriptions", "bad">>
        BY <3>b, <3>4, <4>1
      <4> QED  BY <3>1, <3>4, <4>1, <4>2
    <3> QED  BY <1>1, <1>2, <3>2, <3>3, <3>4 DEF Moving
  <2>2. storageRun' = [storageRun EXCEPT !.moved = moved, !.todo = left]
    BY <1>3
  <2>3. Storage!Rename(t, "source", "archive")
    BY <1>3
  <2> HIDE DEF t, moved, left
  <2>4. {"controller", "subscriptions", "bad"} = Storage!Tree
    BY DEF Storage!Tree
  <2>5. moved \in Seq(Storage!Tree) /\ left \in Seq(Target \cup Storage!Tree)
    <3>1. moved \in Seq(Storage!Tree)
      BY <2>1, TreeSequences
    <3>2. Storage!Tree \subseteq Target \cup Storage!Tree
      OBVIOUS
    <3>3. left \in Seq(Target \cup Storage!Tree)
      BY <2>1, <3>2, TreeSequences
    <3> QED  BY <3>1, <3>3
  <2>6. /\ storageRun' \in StorageRun /\ storageRun'.tool = "cutover" /\ storageRun'.phase = "move"
        /\ ~storageRun'.copying /\ storageRun'.moved = moved /\ storageRun'.todo = left
    BY <1>1, <1>2, <2>2, <2>5 DEF StorageRun
  <2>7. Storage!Is(t, "source")
    BY <2>1, Lost DEF StorageInv, Storage!Archived
  <2>8. /\ tree' \in [Storage!Tree \X Storage!Place -> Storage!Version \cup {None}]
        /\ \A s \in Storage!Tree : tree'[<<s, "primary">>] = tree[<<s, "primary">>]
        /\ Storage!Archived' = Storage!Archived \cup {t}
        /\ Storage!NothingLost'
    BY <1>1, <1>2, <2>1, <2>3, <2>7, Renamed
  <2>9. Moving'
    BY <2>1, <2>6, <2>8 DEF Moving
  <2>10. storageUsed' \in [writes : Storage!Version, crashes : Nat, failures : Nat, starts : Nat]
    BY <1>3 DEF StorageInv, StorageShape
  <2> QED  BY <1>1, <2>6, <2>8, <2>9, <2>10, StorageMoves
<1>4. ASSUME /\ storageUsed' = [storageUsed EXCEPT !["failures"] = @ + 1]
             /\ storageRun' = [storageRun EXCEPT !.phase = "undo", !.todo = Storage!Reverse(storageRun.moved)]
             /\ tree' = tree
      PROVE  StorageInv' /\ Storage!AuthorityKept /\ Storage!CompleteIsBackedUp
  <2>1. storageUsed' \in [writes : Storage!Version, crashes : Nat, failures : Nat, starts : Nat]
    BY <1>4 DEF StorageInv, StorageShape
  <2> QED  BY <1>1, <1>4, <2>1, TurnsBack
<1> QED  BY <1>1, <1>3, <1>4

\* A relocation is reported complete only after every tree was compared.
LEMMA ComparedInv ==
  ASSUME StorageInv, Storage!Validate
  PROVE  StorageInv' /\ Storage!AuthorityKept /\ Storage!CompleteIsBackedUp
<1>1. /\ storageRun.phase = "move" /\ storageRun.todo = <<>>
      /\ UNCHANGED <<tree, staging, storageService, storageUsed, first, touched>>
      /\ \/ /\ \A t \in Storage!Tree : Storage!Valid(t)
            /\ storageRun' = Storage!NoRun /\ outcome' = "done"
         \/ /\ storageRun' = [storageRun EXCEPT !.phase = "undo", !.todo = Storage!Reverse(storageRun.moved)]
            /\ outcome' = outcome
  BY DEF Storage!Validate, Storage!End
<1>2. storageUsed \in [writes : Storage!Version, crashes : Nat, failures : Nat, starts : Nat]
  BY DEF StorageInv, StorageShape
<1>3. ASSUME \A t \in Storage!Tree : Storage!Valid(t), storageRun' = Storage!NoRun, outcome' = "done"
      PROVE  StorageInv' /\ Storage!AuthorityKept /\ Storage!CompleteIsBackedUp
  <2>1. Storage!Archived = Storage!Tree
    <3>1. Moving
      BY <1>1, MovingFacts
    <3>2. <<"controller", "subscriptions", "bad">> # <<>> /\ <<"subscriptions", "bad">> # <<>> /\ <<"bad">> # <<>>
      OBVIOUS
    <3> QED  BY <1>1, <3>1, <3>2 DEF Moving
  <2>2. StorageInv'
    <3>1. staging' \subseteq Storage!Place \X BOOLEAN
      BY <1>1 DEF StorageInv, StorageShape
    <3> QED  BY <1>1, <1>2, <1>3, <2>1, <3>1, MovingFacts, EndRun
  <2>3. \A t \in Storage!Tree \ {"bad"} : Storage!Is(t, "primary")' /\ Storage!At(t, "pre")' = Storage!At(t, "primary")'
    BY <1>1, <1>3 DEF Storage!Valid, Storage!Is, Storage!At
  <2> QED  BY <1>1, <2>2, <2>3 DEF Storage!AuthorityKept, Storage!CompleteIsBackedUp, Storage!Is, Storage!At
<1>4. ASSUME storageRun' = [storageRun EXCEPT !.phase = "undo", !.todo = Storage!Reverse(storageRun.moved)],
             outcome' = outcome
      PROVE  StorageInv' /\ Storage!AuthorityKept /\ Storage!CompleteIsBackedUp
  BY <1>1, <1>2, <1>4, TurnsBack
<1> QED  BY <1>1, <1>3, <1>4

\* What was moved is put back, and only then the run fails.
LEMMA UndoInv ==
  ASSUME StorageInv, Storage!Undo
  PROVE  StorageInv' /\ Storage!AuthorityKept /\ Storage!CompleteIsBackedUp
<1>1. /\ storageRun.phase = "undo"
      /\ UNCHANGED <<staging, storageService, storageUsed, first, touched>>
      /\ \/ /\ storageRun.todo = <<>> /\ storageRun' = Storage!NoRun /\ outcome' = "failed" /\ tree' = tree
         \/ /\ storageRun.todo # <<>> /\ Storage!Rename(Head(storageRun.todo), "archive", "source")
            /\ storageRun' = [storageRun EXCEPT !.todo = Tail(@)] /\ outcome' = outcome
  BY DEF Storage!Undo, Storage!End
<1>2. storageUsed \in [writes : Storage!Version, crashes : Nat, failures : Nat, starts : Nat]
  BY DEF StorageInv, StorageShape
<1>3. /\ storageRun \in StorageRun /\ Undoing /\ ~storageRun.copying /\ storageRun # Storage!NoRun
      /\ storageRun.tool = "cutover"
  BY <1>1, MovingFacts
<1>4. ASSUME storageRun.todo = <<>>, storageRun' = Storage!NoRun, outcome' = "failed", tree' = tree
      PROVE  StorageInv' /\ Storage!AuthorityKept /\ Storage!CompleteIsBackedUp
  <2>1. Storage!Archived = {}
    <3>1. /\ <<"bad", "subscriptions", "controller">> # <<>> /\ <<"subscriptions", "controller">> # <<>>
          /\ <<"controller">> # <<>>
      OBVIOUS
    <3> QED  BY <1>3, <1>4, <3>1 DEF Undoing
  <2>2. staging' \subseteq Storage!Place \X BOOLEAN
    BY <1>1 DEF StorageInv, StorageShape
  <2>3. StorageInv'
    BY <1>1, <1>2, <1>3, <1>4, <2>1, <2>2, EndRun
  <2> QED  BY <1>4, <2>3 DEF Storage!AuthorityKept, Storage!CompleteIsBackedUp, Storage!Is, Storage!At
<1>5. ASSUME storageRun.todo # <<>>, Storage!Rename(Head(storageRun.todo), "archive", "source"),
             storageRun' = [storageRun EXCEPT !.todo = Tail(@)], outcome' = outcome
      PROVE  StorageInv' /\ Storage!AuthorityKept /\ Storage!CompleteIsBackedUp
  <2> DEFINE t == Head(storageRun.todo)
  <2> DEFINE left == Tail(storageRun.todo)
  <2>1. /\ t \in Storage!Tree /\ t \in Storage!Archived
        /\ \/ left = <<>> /\ Storage!Archived \ {t} = {}
           \/ left = <<"controller">> /\ Storage!Archived \ {t} = {"controller"}
           \/ left = <<"subscriptions", "controller">> /\ Storage!Archived \ {t} = {"controller", "subscriptions"}
    <3>1. {"controller", "subscriptions", "bad"} = Storage!Tree
      BY DEF Storage!Tree
    <3>2. CASE storageRun.todo = <<"controller">> /\ Storage!Archived = {"controller"}
      BY <3>1, <3>2
    <3>3. CASE /\ storageRun.todo = <<"subscriptions", "controller">>
               /\ Storage!Archived = {"controller", "subscriptions"}
      <4>1. t = "subscriptions" /\ left = <<"controller">>
        BY <3>3
      <4> QED  BY <3>1, <3>3, <4>1
    <3>4. CASE storageRun.todo = <<"bad", "subscriptions", "controller">> /\ Storage!Archived = Storage!Tree
      <4>1. t = "bad" /\ left = <<"subscriptions", "controller">>
        BY <3>4
      <4> QED  BY <3>1, <3>4, <4>1
    <3> QED  BY <1>3, <1>5, <3>2, <3>3, <3>4 DEF Undoing
  <2>2. Storage!Rename(t, "archive", "source") /\ storageRun' = [storageRun EXCEPT !.todo = left]
    BY <1>5
  <2> HIDE DEF t, left
  <2>3. left \in Seq(Target \cup Storage!Tree)
    <3>1. Storage!Tree \subseteq Target \cup Storage!Tree
      OBVIOUS
    <3> QED  BY <2>1, <3>1, TreeSequences
  <2>4. /\ storageRun' \in StorageRun /\ storageRun'.tool = "cutover" /\ storageRun'.phase = "undo"
        /\ ~storageRun'.copying /\ storageRun'.todo = left
    BY <1>1, <1>3, <2>2, <2>3 DEF StorageRun
  <2>5. Storage!Is(t, "archive")
    BY <2>1 DEF Storage!Archived
  <2>6. /\ tree' \in [Storage!Tree \X Storage!Place -> Storage!Version \cup {None}]
        /\ \A s \in Storage!Tree : tree'[<<s, "primary">>] = tree[<<s, "primary">>]
        /\ Storage!Archived' = Storage!Archived \ {t}
        /\ Storage!NothingLost'
    BY <1>1, <1>3, <2>1, <2>2, <2>5, Renamed
  <2>7. Undoing'
    BY <2>1, <2>4, <2>6 DEF Undoing
  <2> QED  BY <1>1, <1>2, <1>5, <2>4, <2>6, <2>7, StorageMoves
<1> QED  BY <1>1, <1>4, <1>5

\* A run on a completed relocation compares the trees and leaves them.
LEMMA RevalidateInv ==
  ASSUME StorageInv, Storage!Revalidate
  PROVE  StorageInv' /\ Storage!AuthorityKept /\ Storage!CompleteIsBackedUp
<1>1. /\ storageRun = Storage!NoRun /\ touched' = FALSE
      /\ {"controller", "subscriptions"} \subseteq Storage!Archived
      /\ UNCHANGED <<tree, staging, storageService, storageRun, storageUsed, first>>
      /\ outcome' \in {"done", "invalid"}
      /\ outcome' = "done" => \A t \in {"controller", "subscriptions"} : Storage!At(t, "pre") = Storage!At(t, "primary")
  BY DEF Storage!Revalidate
<1>2. StorageInv'
  BY <1>1, StorageQuiet DEF StorageInv, StorageShape, Found
<1>3. Storage!Is("controller", "primary") /\ Storage!Is("subscriptions", "primary")
  BY <1>1 DEF StorageInv, Protected
<1>4. Storage!Tree \ {"bad"} = {"controller", "subscriptions"}
  BY DEF Storage!Tree
<1> QED  BY <1>1, <1>2, <1>3, <1>4 DEF Storage!AuthorityKept, Storage!CompleteIsBackedUp, Storage!Is, Storage!At

LEMMA StorageCrash ==
  ASSUME StorageInv, Storage!Crash
  PROVE  StorageInv' /\ Storage!AuthorityKept /\ Storage!CompleteIsBackedUp
<1>1. /\ storageRun # Storage!NoRun /\ storageRun' = Storage!NoRun /\ outcome' = "crashed"
      /\ storageUsed' = [storageUsed EXCEPT !["crashes"] = @ + 1]
      /\ UNCHANGED <<tree, storageService, first, touched>>
  BY DEF Storage!Crash, Storage!Spend, Storage!End
<1>2. storageRun.copying => Storage!NextCopy[2] \in Storage!Place
  BY NextTarget DEF Storage!Place, StorageInv, CopyPlaces
<1>3. staging \subseteq Storage!Place \X BOOLEAN
  BY DEF StorageInv, StorageShape
<1>4. staging' \subseteq Storage!Place \X BOOLEAN
  BY <1>2, <1>3 DEF Storage!Crash
<1>5. storageUsed' \in [writes : Storage!Version, crashes : Nat, failures : Nat, starts : Nat]
      /\ storageUsed'.crashes # 0
  BY <1>1 DEF StorageInv, StorageShape
<1>6. StorageInv'
  BY <1>1, <1>4, <1>5, EndRun
<1> QED  BY <1>1, <1>6 DEF Storage!AuthorityKept, Storage!CompleteIsBackedUp, Storage!Is, Storage!At

LEMMA StorageServices ==
  ASSUME StorageInv, Storage!StartService \/ Storage!StopService
  PROVE  StorageInv' /\ Storage!AuthorityKept /\ Storage!CompleteIsBackedUp
<1>1. /\ UNCHANGED <<tree, staging, storageRun, outcome, first, touched>> /\ storageService' \in BOOLEAN
      /\ storageUsed' = storageUsed \/ storageUsed' = [storageUsed EXCEPT !["starts"] = @ + 1]
  BY DEF Storage!StartService, Storage!StopService, Storage!Spend
<1>2. storageUsed' \in [writes : Storage!Version, crashes : Nat, failures : Nat, starts : Nat]
      /\ storageUsed'.crashes = storageUsed.crashes
  BY <1>1 DEF StorageInv, StorageShape
<1>3. Found'
  BY <1>1, Lost DEF StorageInv, Found
<1>4. StorageInv'
  BY <1>1, <1>2, <1>3, StorageQuiet DEF StorageInv, StorageShape
<1> QED  BY <1>1, <1>4 DEF Storage!AuthorityKept, Storage!CompleteIsBackedUp, Storage!Is, Storage!At

\* The service writes only what is there.
LEMMA StorageWrite ==
  ASSUME StorageInv, NEW t \in Storage!Tree, NEW p \in Storage!Place, Storage!Write(t, p)
  PROVE  StorageInv' /\ Storage!AuthorityKept /\ Storage!CompleteIsBackedUp
<1>1. /\ storageService /\ tree[<<t, p>>] # None /\ storageUsed.writes < MaxWrites
      /\ storageUsed' = [storageUsed EXCEPT !["writes"] = @ + 1]
      /\ tree' = [tree EXCEPT ![<<t, p>>] = storageUsed'.writes] /\ touched' = TRUE
      /\ UNCHANGED <<staging, storageService, storageRun, outcome, first>>
  BY DEF Storage!Write, Storage!Spend, Storage!Is, Storage!At
<1>2. /\ storageUsed' \in [writes : Storage!Version, crashes : Nat, failures : Nat, starts : Nat]
      /\ storageUsed'.crashes = storageUsed.crashes /\ storageUsed'.writes \in Storage!Version
  BY <1>1, CopiesAssumption DEF StorageInv, StorageShape, Storage!Version
<1>3. storageUsed'.writes # None
  BY <1>2, MigrationsAssumption
<1>4. /\ tree' \in [Storage!Tree \X Storage!Place -> Storage!Version \cup {None}]
      /\ \A s \in Storage!Tree, q \in Storage!Place : tree'[<<s, q>>] = None <=> tree[<<s, q>>] = None
  BY <1>1, <1>2, <1>3 DEF StorageInv, StorageShape
<1>5. StorageInv'
  BY <1>1, <1>2, <1>4, StorageQuiet DEF StorageInv, StorageShape, Found
<1> QED  BY <1>1, <1>5 DEF Storage!AuthorityKept, Storage!CompleteIsBackedUp

LEMMA StorageNext ==
  ASSUME StorageInv, [Storage!Next]_(Storage!vars)
  PROVE  StorageInv' /\ Storage!AuthorityKept /\ Storage!CompleteIsBackedUp
<1> DEFINE Good == StorageInv' /\ Storage!AuthorityKept /\ Storage!CompleteIsBackedUp
<1>1. ASSUME NEW t \in Storage!Tool, Storage!Start(t) PROVE Good
  <2>1. tree' = tree /\ outcome' = "none"
    BY <1>1 DEF Storage!Start
  <2> QED  BY <1>1, <2>1, StartInv DEF Storage!AuthorityKept, Storage!CompleteIsBackedUp, Storage!Is, Storage!At
<1>2. CASE Storage!SkipCopy
  <2>1. tree' = tree /\ outcome' \in {outcome, "failed"}
    BY <1>2 DEF Storage!SkipCopy, Storage!End
  <2> QED  BY <1>2, <2>1, SkipCopyInv DEF Storage!AuthorityKept, Storage!CompleteIsBackedUp, Storage!Is, Storage!At
<1>3. CASE Storage!Stage
  <2>1. tree' = tree /\ outcome' = outcome
    BY <1>3 DEF Storage!Stage
  <2> QED  BY <1>3, <2>1, StagingInv DEF Storage!AuthorityKept, Storage!CompleteIsBackedUp, Storage!Is, Storage!At
<1>4. CASE Storage!Promote
  <2>1. outcome' = outcome
    BY <1>4 DEF Storage!Promote
  <2> QED  BY <1>4, <2>1, PromoteInv DEF Storage!CompleteIsBackedUp
<1>5. CASE Storage!CopyFails
  <2>1. tree' = tree /\ outcome' = "failed"
    BY <1>5 DEF Storage!CopyFails, Storage!End
  <2> QED  BY <1>5, <2>1, CopyFailsInv DEF Storage!AuthorityKept, Storage!CompleteIsBackedUp, Storage!Is, Storage!At
<1>6. CASE Storage!Check
  <2>1. tree' = tree
    BY <1>6 DEF Storage!Check
  <2> QED  BY <1>6, <2>1, CheckInv DEF Storage!AuthorityKept, Storage!Is, Storage!At
<1>7. CASE Storage!Move
  BY <1>7, MoveInv
<1>8. CASE Storage!Validate
  BY <1>8, ComparedInv
<1>9. CASE Storage!Undo
  BY <1>9, UndoInv
<1>10. CASE Storage!Revalidate
  BY <1>10, RevalidateInv
<1>11. CASE Storage!Crash
  BY <1>11, StorageCrash
<1>12. CASE Storage!StartService \/ Storage!StopService
  BY <1>12, StorageServices
<1>13. ASSUME NEW t \in Storage!Tree, NEW p \in Storage!Place, Storage!Write(t, p) PROVE Good
  BY <1>13, StorageWrite
<1>14. CASE UNCHANGED Storage!vars
  <2>1. UNCHANGED <<tree, staging, storageService, storageRun, outcome, storageUsed, first, touched>>
    BY <1>14 DEF Storage!vars
  <2>2. Found'
    BY <2>1, Lost DEF StorageInv, Found
  <2>3. StorageInv'
    BY <2>1, <2>2, StorageQuiet DEF StorageInv, StorageShape
  <2> QED  BY <2>1, <2>3 DEF Storage!AuthorityKept, Storage!CompleteIsBackedUp, Storage!Is, Storage!At
<1> QED
  BY <1>1, <1>2, <1>3, <1>4, <1>5, <1>6, <1>7, <1>8, <1>9, <1>10, <1>11, <1>12, <1>13, <1>14
  DEF Storage!Next, Storage!Steps

\* What the invariant says of a state.
LEMMA StorageFacts == StorageInv => Storage!TypeOK /\ Storage!NothingLost /\ Storage!FailureRestores
<1> SUFFICES ASSUME StorageInv PROVE Storage!TypeOK /\ Storage!NothingLost /\ Storage!FailureRestores
  OBVIOUS
<1>1. Storage!NoRun.phase = "none" /\ Storage!NoRun.moved = <<>>
  BY DEF Storage!NoRun
<1>2. Storage!TypeOK
  <2>1. storageRun.moved # <<>> => storageRun.phase \in {"move", "validate", "undo"}
    BY <1>1 DEF StorageInv, StorageShape, CopyPlaces, StorageRun
  <2> QED  BY <2>1 DEF StorageInv, StorageShape, StorageRun, Storage!TypeOK
<1>3. ASSUME outcome = "failed", storageUsed.crashes = 0 PROVE Storage!Sources = Storage!Tree
  <2>1. Storage!Archived = {}
    BY <1>3 DEF StorageInv, StorageShape, AllOrNothing
  <2> QED  BY <2>1, Lost DEF StorageInv, Storage!Archived, Storage!Sources
<1> QED  BY <1>2, <1>3 DEF StorageInv, Storage!FailureRestores

-----------------------------------------------------------------------------
(* The components together.                                                *)

\* Each component moves on its own, or not at all.
LEMMA MigrationsStep ==
  [MCNext]_MCvars => /\ [Matter!Next]_(Matter!vars) /\ [Controller!Next]_(Controller!vars)
                     /\ [Storage!Next]_(Storage!vars) /\ [Next]_vars
                     /\ [Rotation!Next]_(Rotation!vars) /\ [Keys!Next]_(Keys!vars)
                     /\ [Residue!Next]_(Residue!vars)
<1> SUFFICES ASSUME [MCNext]_MCvars
             PROVE  /\ [Matter!Next]_(Matter!vars) /\ [Controller!Next]_(Controller!vars)
                    /\ [Storage!Next]_(Storage!vars) /\ [Next]_vars
                    /\ [Rotation!Next]_(Rotation!vars) /\ [Keys!Next]_(Keys!vars)
                    /\ [Residue!Next]_(Residue!vars)
  OBVIOUS
<1>1. UNCHANGED syncVars => UNCHANGED Matter!vars
  BY DEF syncVars, Matter!vars, Matter!monitors, Matter!syncs, Matter!locks, Matter!events
<1>2. UNCHANGED controllerVars => UNCHANGED Controller!vars
  BY DEF controllerVars, Controller!vars, Controller!requests, Controller!directories
<1>3. UNCHANGED storageVars => UNCHANGED Storage!vars
  BY DEF storageVars, Storage!vars
<1>4. UNCHANGED rotationVars => UNCHANGED Rotation!vars
  BY DEF rotationVars, Rotation!vars
<1>5. UNCHANGED keysVars => UNCHANGED Keys!vars
  BY DEF keysVars, Keys!vars
<1>6. UNCHANGED residueVars => UNCHANGED Residue!vars
  BY DEF residueVars, Residue!vars
<1> QED
  BY <1>1, <1>2, <1>3, <1>4, <1>5, <1>6
  DEF MCNext, SyncStep, ControllerStep, StorageStep, CopiesStep, RotationStep, KeysStep, ResidueStep, MCvars

MigrationsInv ==
  /\ SyncInv /\ ControllerInv /\ StorageInv /\ CopiesInv
  /\ RotationInv /\ KeysInv /\ ResidueInv

LEMMA MigrationsInit == MCInit => MigrationsInv
<1> SUFFICES ASSUME MCInit PROVE MigrationsInv
  OBVIOUS
<1>1. Init
  BY DEF MCInit
<1>2. Residue!Init
  BY DEF MCInit
<1> QED
  BY <1>1, <1>2, SyncInit, ControllerInit, StorageInit, InitInv, RotationInit, KeysInit, ResidueInit
  DEF MCInit, MigrationsInv

\* What no step does, whichever component makes it.
StepsAreSafe ==
  /\ Matter!NeverOlder
  /\ Storage!AuthorityKept /\ Storage!CompleteIsBackedUp
  /\ RotationSafe
  /\ Keys!RetainsOnlyWorkingKeys
  /\ ResidueSafe

LEMMA MigrationsKept == MigrationsInv /\ [MCNext]_MCvars => MigrationsInv' /\ StepsAreSafe
BY MigrationsStep, SyncNext, ControllerNext, StorageNext, NextInv, RotationNext, KeysNext, ResidueNext
   DEF MigrationsInv, StepsAreSafe

\* Every state of every behaviour satisfies the invariants of the components.
THEOREM MigrationsInvariant == MCSpec => []MigrationsInv
<1>1. MigrationsInv /\ [MCNext]_MCvars => MigrationsInv'
  BY MigrationsKept
<1> QED
  BY <1>1, MigrationsInit, PTL DEF MCSpec

\* Everything is where the code can leave it.
THEOREM MigrationsTypes == MCSpec => []TypesOK
<1>1. MigrationsInv => TypesOK
  BY ControllerFacts, StorageFacts, CopiesTyped, RotationFacts
  DEF MigrationsInv, TypesOK, SyncInv, KeysInv, ResidueInv
<1> QED
  BY <1>1, MigrationsInvariant, PTL

\* For any nodes, threads and requests: no report comes between the reading and
\* the storing of a sync, no client goes back to an older value, and the identity
\* the nodes know is on disk at any moment.
THEOREM MatterStaysSafe == MCSpec => MatterIsSafe
<1>1. MigrationsInv => /\ part = "sync" => Matter!Drained
                       /\ part = "controller" => Controller!IdentityKept /\ Controller!InPlaceUnlessOverlapped
  BY SyncDrained, ControllerFacts DEF MigrationsInv
<1>2. MigrationsInv /\ [MCNext]_MCvars => [part = "sync" => Matter!NeverOlder]_MCvars
  BY MigrationsKept DEF StepsAreSafe
<1> QED
  BY <1>1, <1>2, MigrationsInvariant, PTL DEF MCSpec, MatterIsSafe

\* Whatever fails, crashes or overlaps: the relocation of Matter storage and the
\* rotation of credentials lose nothing, and are reported complete only when they
\* are.
THEOREM NothingGetsLost == MCSpec => NothingIsLost
<1>1. MigrationsInv => /\ part = "storage" => Storage!NothingLost /\ Storage!FailureRestores
                       /\ part = "rotation" => Rotation!RollbackRetained
  BY StorageFacts, RotationFacts DEF MigrationsInv
<1>2. MigrationsInv /\ [MCNext]_MCvars =>
        /\ [part = "storage" => Storage!AuthorityKept /\ Storage!CompleteIsBackedUp]_MCvars
        /\ [part = "rotation" => Rotation!RolledBackMeansRestored]_MCvars
  BY MigrationsKept DEF StepsAreSafe, RotationSafe
<1> QED
  BY <1>1, <1>2, MigrationsInvariant, PTL DEF MCSpec, NothingIsLost

\* Whoever edits, restarts or kills: the cleanups remove what was inspected, is
\* retired or is kept elsewhere, and nothing else.
THEOREM CleanupsStaySafe == MCSpec => CleanupsAreSafe
<1>1. MigrationsInv => (part = "keys" => Keys!CleanedIsVerified)
  BY DEF MigrationsInv, KeysInv
<1>2. MigrationsInv /\ [MCNext]_MCvars =>
        /\ [part = "rotation" => Rotation!RemovesRetiredOnly]_MCvars
        /\ [part = "keys" => Keys!RetainsOnlyWorkingKeys]_MCvars
        /\ [part = "residue" => /\ Residue!OnlyWithRecovery /\ Residue!OnlyTheInspected
                                /\ Residue!ArchiveKept /\ Residue!VerifiedIsClean]_MCvars
  BY MigrationsKept DEF StepsAreSafe, RotationSafe, ResidueSafe
<1> QED
  BY <1>1, <1>2, MigrationsInvariant, PTL DEF MCSpec, CleanupsAreSafe
==============================================================================
