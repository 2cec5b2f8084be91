----------------------------- MODULE DurableFile -----------------------------
(***************************************************************************)
(* What the JSON store promises for each file, without queue, locks,       *)
(* backups or file operations: documents are numbered as they are         *)
(* accepted, a crash or a refusal may drop one, but the disk only moves    *)
(* forward, to accepted documents: nothing but the environment damages or  *)
(* rewinds a file.                                                         *)
(***************************************************************************)
EXTENDS Naturals

CONSTANTS
  Path,    \* the files
  Absent,  \* no such file
  Corrupt  \* an unreadable file

VARIABLES
  latest,  \* the newest document accepted for each file
  disk     \* the document on disk

vars == <<latest, disk>>

Init ==
  /\ latest = [p \in Path |-> 0]
  /\ disk = [p \in Path |-> Absent]

Accept(S) ==
  /\ latest' = [p \in Path |-> IF p \in S THEN latest[p] + 1 ELSE latest[p]]
  /\ UNCHANGED disk

\* A document replaces an older one, never a newer one.
Persist(p) ==
  /\ \E v \in 1..latest[p] :
       /\ disk[p] \in Nat => disk[p] < v
       /\ disk' = [disk EXCEPT ![p] = v]
  /\ UNCHANGED latest

Damage(p) ==
  /\ disk[p] \in Nat
  /\ \E d \in {Absent, Corrupt} : disk' = [disk EXCEPT ![p] = d]
  /\ UNCHANGED latest

Repair(p) ==
  /\ disk[p] \notin Nat
  /\ \E v \in 1..latest[p] : disk' = [disk EXCEPT ![p] = v]
  /\ UNCHANGED latest

Next ==
  \/ \E S \in SUBSET Path : Accept(S)
  \/ \E p \in Path : Persist(p) \/ Damage(p) \/ Repair(p)

Spec == Init /\ [][Next]_vars
=============================================================================
