-------------------------- MODULE CredentialRotation --------------------------
(***************************************************************************)
(* One group of service credentials through its tools: the first copy out  *)
(* of the environment (sec004), staging, activation and rollback of a      *)
(* replacement (sec00645), and the removal of everything retired (sec0066). *)
(* Each file is replaced atomically; a tool may fail or be killed between  *)
(* any two.  The rotation tools exclude each other by a lock; the removal  *)
(* does not take it.                                                       *)
(*                                                                         *)
(* A credential is the number of the rotation that made it.                *)
(***************************************************************************)
EXTENDS Naturals, FiniteSets

CONSTANTS Names, Changes,     \* the files of the group, those a rotation must change
          None,
          MaxRotations, MaxStops, MaxFaults \* bounds

VARIABLES
  cred,     \* the protected credential directory
  cand,     \* the staged candidate directory, None when there is none
  kept,     \* the rotation state: its directory, the previous bundle, the manifest
  legacy,   \* what is left of the old sources
  service, snapshot, \* kotibot.service, and the bundle it was started with
  handoff,  \* the preflight of the removal has been passed
  op,       \* the rotation tool that runs
  read,     \* the previous bundle that a rollback has read
  cleanup,  \* the removal that runs
  base,     \* history: the bundle before the current rotation
  mixed,    \* history: a rotation tool ran beside a removal since that rotation began
  used

vars == <<cred, cand, kept, legacy, service, snapshot, handoff, op, read, cleanup, base, mixed, used>>

Version == 0 .. MaxRotations
Empty == [n \in Names |-> None]
Full(b) == b # None /\ \A n \in Names : b[n] # None
NotKept == [dir |-> FALSE, previous |-> Empty, manifest |-> None]
NoOp == [phase |-> "none", todo |-> {}]
Sources == {"definition", "firebase", "security", "transfer"}
SourceFiles == Sources \ {"definition"}
Status == {"prepared", "activated", "rolled-back", "rolled-back-after-failure"}
Phases == {"none", "copy", "stage", "backup", "install", "restore", "rollback"}

TypeOK ==
  /\ cred \in [Names -> Version \cup {None}] /\ snapshot \in [Names -> Version \cup {None}]
  /\ cand = None \/ cand \in [Names -> Version \cup {None}]
  /\ kept.previous \in [Names -> Version \cup {None}] /\ kept.manifest \in Status \cup {None}
  /\ ~kept.dir => kept = NotKept
  /\ op.phase \in Phases /\ op.todo \subseteq Names /\ (op.phase = "none" => op.todo = {})
  /\ legacy \subseteq Sources /\ read \in [Names -> Version \cup {None}] /\ mixed \in BOOLEAN

Init ==
  /\ cred = Empty /\ cand = None /\ kept = NotKept /\ legacy = Sources
  /\ service = TRUE /\ snapshot = Empty /\ handoff = FALSE
  /\ op = NoOp /\ cleanup = NoOp /\ base = Empty /\ read = Empty /\ mixed = FALSE
  /\ used = [rotations |-> 0, stops |-> 0, faults |-> 0]

Spend(b, max) == used[b] < max /\ used' = [used EXCEPT ![b] = @ + 1]
\* The lock of the rotation tools.
Free == op = NoOp
Mixes == mixed' = (mixed \/ cleanup # NoOp)
Begin(phase) == op' = [phase |-> phase, todo |-> Names]
Left(n) == [op EXCEPT !.todo = @ \ {n}]

-----------------------------------------------------------------------------
(* sec004: what the environment holds is copied where nothing is.          *)

BeginCopy ==
  /\ Free /\ "definition" \in legacy /\ ~Full(cred) /\ \A n \in Names : cred[n] \in {None, 0}
  /\ op' = [phase |-> "copy", todo |-> {n \in Names : cred[n] = None}]
  /\ Mixes
  /\ UNCHANGED <<cred, cand, kept, legacy, service, snapshot, handoff, cleanup, base, used, read>>

CopyOne(n) ==
  /\ op.phase = "copy" /\ n \in op.todo
  /\ cred' = [cred EXCEPT ![n] = 0] /\ base' = cred' /\ op' = Left(n)
  /\ UNCHANGED <<cand, kept, legacy, service, snapshot, handoff, cleanup, used, read, mixed>>

EndCopy ==
  /\ op.phase = "copy" /\ op.todo = {} /\ op' = NoOp
  /\ UNCHANGED <<cred, cand, kept, legacy, service, snapshot, handoff, cleanup, base, used, read, mixed>>

-----------------------------------------------------------------------------
(* sec00645: stage_candidate, activate, rollback.                          *)

BeginStage ==
  /\ Free /\ ~kept.dir /\ cand = None /\ Full(cred)
  /\ Spend("rotations", MaxRotations)
  /\ cand' = Empty /\ Begin("stage")
  /\ Mixes
  /\ UNCHANGED <<cred, kept, legacy, service, snapshot, handoff, cleanup, base, read>>

StageOne(n) ==
  /\ op.phase = "stage" /\ n \in op.todo
  /\ cand' = [cand EXCEPT ![n] = IF n \in Changes THEN used.rotations ELSE cred[n]]
  /\ op' = Left(n)
  /\ UNCHANGED <<cred, kept, legacy, service, snapshot, handoff, cleanup, base, used, read, mixed>>

EndStage ==
  /\ op.phase = "stage" /\ op.todo = {} /\ op' = NoOp
  /\ UNCHANGED <<cred, cand, kept, legacy, service, snapshot, handoff, cleanup, base, used, read, mixed>>

\* _validate_required_changes
Changed(old, new) == \A n \in Changes : old[n] # new[n]

\* preflight, and the directories made before anything can be rolled back.
BeginActivate ==
  /\ Free /\ ~kept.dir /\ Full(cred) /\ Full(cand) /\ Changed(cred, cand)
  /\ kept' = [NotKept EXCEPT !.dir = TRUE] /\ Begin("backup") /\ base' = cred
  /\ mixed' = (cleanup # NoOp)
  /\ UNCHANGED <<cred, cand, legacy, service, snapshot, handoff, cleanup, used, read>>

Backup(n) ==
  /\ op.phase = "backup" /\ n \in op.todo
  /\ kept' = [kept EXCEPT !.previous[n] = base[n]] /\ op' = Left(n)
  /\ UNCHANGED <<cred, cand, legacy, service, snapshot, handoff, cleanup, base, used, read, mixed>>

Prepare ==
  /\ op.phase = "backup" /\ op.todo = {}
  /\ kept' = [kept EXCEPT !.manifest = "prepared"] /\ Begin("install")
  /\ UNCHANGED <<cred, cand, legacy, service, snapshot, handoff, cleanup, base, used, read, mixed>>

Install(n) ==
  /\ op.phase = "install" /\ n \in op.todo
  /\ cred' = [cred EXCEPT ![n] = cand[n]] /\ op' = Left(n)
  /\ UNCHANGED <<cand, kept, legacy, service, snapshot, handoff, cleanup, base, used, read, mixed>>

Activated ==
  /\ op.phase = "install" /\ op.todo = {} /\ op' = NoOp
  /\ kept' = [kept EXCEPT !.manifest = "activated"]
  /\ UNCHANGED <<cred, cand, legacy, service, snapshot, handoff, cleanup, base, used, read, mixed>>

Restore(n) ==
  /\ op.phase \in {"restore", "rollback"} /\ n \in op.todo
  /\ cred' = [cred EXCEPT ![n] = IF op.phase = "restore" THEN base[n] ELSE read[n]]
  /\ op' = Left(n)
  /\ UNCHANGED <<cand, kept, legacy, service, snapshot, handoff, cleanup, base, used, read, mixed>>

\* The manifest is written last; a rollback whose state is gone fails here.
Restored ==
  /\ op.phase \in {"restore", "rollback"} /\ op.todo = {} /\ op' = NoOp
  /\ kept' = IF ~kept.dir THEN kept
             ELSE [kept EXCEPT !.manifest = IF op.phase = "restore" THEN "rolled-back-after-failure"
                                            ELSE "rolled-back"]
  /\ UNCHANGED <<cred, cand, legacy, service, snapshot, handoff, cleanup, base, used, read, mixed>>

BeginRollback ==
  /\ Free /\ kept.dir /\ kept.manifest \in Status \ {"rolled-back"} /\ Full(kept.previous)
  /\ Begin("rollback")
  /\ read' = kept.previous /\ Mixes
  /\ UNCHANGED <<cred, cand, kept, legacy, service, snapshot, handoff, cleanup, base, used>>

\* A write fails: staging removes its files, activation goes back, else the tool ends.
Fault ==
  /\ op # NoOp /\ Spend("faults", MaxFaults)
  /\ cand' = IF op.phase = "stage" THEN None ELSE cand
  /\ IF op.phase \in {"backup", "install"} THEN Begin("restore") ELSE op' = NoOp
  /\ UNCHANGED <<cred, kept, legacy, service, snapshot, handoff, cleanup, base, read, mixed>>

Kill == /\ op # NoOp /\ Spend("faults", MaxFaults) /\ op' = NoOp
        /\ UNCHANGED <<cred, cand, kept, legacy, service, snapshot, handoff, cleanup, base, read, mixed>>

-----------------------------------------------------------------------------
(* sec0066: preflight, cleanup.                                            *)

Finalizable ==
  /\ kept.manifest = "activated" /\ Full(cred) /\ Full(cand) /\ Full(kept.previous)
  /\ Changed(kept.previous, cred) /\ cred = cand
  /\ SourceFiles \subseteq legacy

Preflight ==
  /\ cleanup = NoOp /\ service /\ snapshot = cred /\ Finalizable /\ handoff' = TRUE
  /\ UNCHANGED <<cred, cand, kept, legacy, service, snapshot, op, cleanup, base, used, read, mixed>>

\* The handoff is good for an hour.
Expire == handoff /\ Spend("faults", MaxFaults) /\ handoff' = FALSE
          /\ UNCHANGED <<cred, cand, kept, legacy, service, snapshot, op, cleanup, base, read, mixed>>

BeginCleanup ==
  /\ cleanup = NoOp /\ ~service /\ handoff /\ Finalizable
  /\ cleanup' = [phase |-> "sources", todo |-> Names]
  /\ mixed' = (mixed \/ op # NoOp)
  /\ UNCHANGED <<cred, cand, kept, legacy, service, snapshot, handoff, op, base, used, read>>

\* In this order: the definition is cleaned before the obsolete files are removed.
Order(s) == CASE s = "definition" -> {} [] s = "firebase" -> {"definition"}
              [] s = "security" -> {"definition", "firebase"} [] s = "transfer" -> Sources \ {"transfer"}
RemoveSource ==
  /\ cleanup.phase = "sources"
  /\ IF legacy = {} THEN cleanup' = [cleanup EXCEPT !.phase = "group"] /\ UNCHANGED legacy
     ELSE /\ \E s \in legacy : Order(s) \cap legacy = {} /\ legacy' = legacy \ {s}
          /\ UNCHANGED cleanup
  /\ UNCHANGED <<cred, cand, kept, service, snapshot, handoff, op, base, used, read, mixed>>

RemoveBundle(n) ==
  /\ cleanup.phase = "group" /\ n \in cleanup.todo
  /\ cand' = [cand EXCEPT ![n] = None] /\ kept' = [kept EXCEPT !.previous[n] = None]
  /\ cleanup' = [cleanup EXCEPT !.todo = @ \ {n}] /\ base' = cred
  /\ UNCHANGED <<cred, legacy, service, snapshot, handoff, op, used, read, mixed>>

EndCleanup ==
  /\ cleanup.phase = "group" /\ cleanup.todo = {} /\ cleanup' = NoOp
  /\ cand' = None /\ kept' = NotKept /\ handoff' = FALSE
  /\ UNCHANGED <<cred, legacy, service, snapshot, op, base, used, read, mixed>>

KillCleanup ==
  /\ cleanup # NoOp /\ Spend("faults", MaxFaults) /\ cleanup' = NoOp
  /\ UNCHANGED <<cred, cand, kept, legacy, service, snapshot, handoff, op, base, read, mixed>>

-----------------------------------------------------------------------------
\* The stops the procedure asks for; others are bounded.
Wanted == (kept.manifest = "activated" /\ snapshot # cred) \/ handoff
Stop == /\ service /\ service' = FALSE
        /\ IF Wanted THEN UNCHANGED used ELSE Spend("stops", MaxStops)
        /\ UNCHANGED <<cred, cand, kept, legacy, snapshot, handoff, op, cleanup, base, read, mixed>>
\* systemd copies the credentials; without the old definition all must be there.
Start == /\ ~service /\ service' = TRUE /\ snapshot' = cred
         /\ cleanup = NoOp /\ (Full(cred) \/ "definition" \in legacy)
         /\ UNCHANGED <<cred, cand, kept, legacy, handoff, op, cleanup, base, used, read, mixed>>

Continuing == EndCopy \/ EndStage \/ Prepare \/ Activated \/ Restored
              \/ \E n \in Names : CopyOne(n) \/ StageOne(n) \/ Backup(n) \/ Install(n) \/ Restore(n)
Removing == RemoveSource \/ EndCleanup \/ \E n \in Names : RemoveBundle(n)

Next == BeginCopy \/ BeginStage \/ BeginActivate \/ BeginRollback \/ Continuing \/ Fault \/ Kill \/ Preflight \/ Expire \/ BeginCleanup \/ Removing
        \/ KillCleanup \/ Stop \/ Start

Spec == Init /\ [][Next]_vars

\* The operator carries one rotation through: restarts, preflight, stop, removal.
FairSpec ==
  /\ Spec /\ WF_vars(Continuing) /\ WF_vars(Removing)
  /\ WF_vars(BeginCopy) /\ WF_vars(BeginStage) /\ WF_vars(BeginActivate) /\ WF_vars(Preflight) /\ SF_vars(BeginCleanup)
  /\ WF_vars(Stop /\ Wanted)
  /\ WF_vars(Start /\ ~(handoff /\ Finalizable))

-----------------------------------------------------------------------------
(* Properties.                                                             *)

\* "retains one private rollback set": as soon as one file of the group is not
\* what it was before the rotation, the whole previous bundle is kept and the
\* manifest lets it be rolled back, whoever failed or was killed where, unless a
\* rotation tool ran beside a removal.
RollbackRetained ==
  ~mixed /\ cred # base => kept.previous = base /\ kept.manifest \in Status \ {"rolled-back"}

\* A rotation that says it went back has put back every file, with the same exception.
RolledBackMeansRestored ==
  ~mixed /\ kept'.manifest # kept.manifest
    /\ kept'.manifest \in {"rolled-back", "rolled-back-after-failure"} => cred' = base

\* "Cleanup removes only exact, validated credential sources": a staged
\* credential is removed only while the active one is the same, unless a rotation
\* tool ran beside the removal.
RemovesRetiredOnly ==
  \A n \in Names : ~mixed /\ cand # None /\ cand[n] # None /\ cleanup # NoOp /\ cand'[n] = None
    => cred[n] = cand[n]

\* The same without the exception: a rollback that starts during the removal
\* refutes it.
RemovesRetiredAlways ==
  \A n \in Names : cand # None /\ cand[n] # None /\ cleanup # NoOp /\ cand'[n] = None
    => cred[n] = cand[n]

\* A rotation of which nothing fails and which is not rolled back is finished: the
\* service runs with the new credential, and nothing retired is left.
Finished ==
  \/ <>[](service /\ snapshot = cred /\ cand = None /\ ~kept.dir /\ legacy = {})
  \/ <>(op.phase = "rollback")
===============================================================================
