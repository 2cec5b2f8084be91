------------------------------ MODULE FileCopies ------------------------------
(***************************************************************************)
(* The three tools that copy files out of the worktree one by one:         *)
(* recordings (path001c7), Android packages (path001c9) and the Matter     *)
(* state with its .lkg copy (path001d3).  A file is copied to a staging    *)
(* file beside its destination and linked there, which fails when the      *)
(* destination exists.  A manifest taken first says what a copy must be.   *)
(*                                                                         *)
(* A file is its version.  A copy is the version read and the time it was  *)
(* given.  Two operators may run a tool at once, either may be killed, and *)
(* what the service, or a build, does to the legacy files goes on.         *)
(***************************************************************************)
EXTENDS Naturals, FiniteSets

CONSTANTS Runs, Files, None,
          Tools,                       \* tools looked at
          MaxWrites, MaxStarts, MaxCrashes \* bounds

Torn == MaxWrites + 1  \* read while it was written

ASSUME CopiesAssumption ==
  /\ {MaxWrites, MaxStarts, MaxCrashes} \subseteq Nat
  /\ Tools \subseteq {"recordings", "packages", "state"}
  /\ None \notin Files /\ None \notin [data : 0 .. Torn, time : 0 .. MaxWrites]

VARIABLES
  tool,    \* the tool this behaviour is about
  legacy,  \* the files in the worktree
  dest,    \* the files outside it
  service, \* kotibot.service is active
  handoff, \* state: what the preflight found
  run,     \* the runs of the tool
  used

vars == <<tool, legacy, dest, service, handoff, run, used>>

Idle == [phase |-> "idle", seen |-> [f \in Files |-> 0], have |-> {}, todo |-> {},
         file |-> None, read |-> 0]
\* os.utime gives a recording the time of its manifest entry.
Copy(data, time) == [data |-> data, time |-> IF tool = "recordings" THEN time ELSE 0]

TypeOK ==
  /\ legacy \in [Files -> 0 .. MaxWrites] /\ service \in BOOLEAN
  /\ \A f \in Files : dest[f] = None
        \/ dest[f] \in [data : 0 .. Torn, time : 0 .. MaxWrites]
  /\ \A r \in Runs : /\ run[r].phase \in {"idle", "copy", "staged", "done", "failed", "killed"}
                     /\ run[r].phase \in {"copy", "staged"} => run[r].todo \subseteq Files
                     /\ run[r].phase = "staged" <=> run[r].file # None

Init ==
  /\ tool \in Tools /\ legacy = [f \in Files |-> 0] /\ dest = [f \in Files |-> None]
  /\ service = TRUE /\ handoff = None /\ run = [r \in Runs |-> Idle]
  /\ used = [writes |-> 0, starts |-> 0, crashes |-> 0]

Spend(b, max) == used[b] < max /\ used' = [used EXCEPT ![b] = @ + 1]
Present == {f \in Files : dest[f] # None}
Same(f, seen) == dest[f] = Copy(seen[f], seen[f])

-----------------------------------------------------------------------------
\* run_preflight of the state tool: it finds the data root from the active service.
Preflight ==
  /\ tool = "state" /\ service /\ \A f \in Present : Same(f, legacy)
  /\ handoff' = legacy
  /\ UNCHANGED <<tool, legacy, dest, service, run, used>>

\* The handoff is too old (bounded with the starts).
Expire == handoff # None /\ handoff' = None /\ Spend("starts", MaxStarts)
          /\ UNCHANGED <<tool, legacy, dest, service, run>>

\* The service is looked at once; the packages are not the service's.
Admitted == CASE tool = "packages" -> TRUE
              [] tool = "recordings" -> ~service
              [] tool = "state" -> ~service /\ handoff = legacy /\ \A f \in Present : Same(f, legacy)

Ended == {"idle", "done", "failed", "killed"}

\* The manifest of the legacy files and, for recordings, that of the destination.
Begin(r) ==
  /\ run[r].phase \in Ended /\ Admitted
  /\ run' = [run EXCEPT ![r] = [Idle EXCEPT !.phase = "copy", !.seen = legacy,
                                            !.todo = Files, !.have = Present]]
  /\ UNCHANGED <<tool, legacy, dest, service, handoff, used>>

Fail(r) == run' = [run EXCEPT ![r] = [Idle EXCEPT !.phase = "failed"]]
Known(r) == IF tool = "recordings" THEN run[r].have ELSE Present

\* What is there is validated, never copied again.
Validate(r, f) ==
  /\ run[r].phase = "copy" /\ f \in run[r].todo \cap Known(r)
  /\ IF Same(f, run[r].seen) THEN run' = [run EXCEPT ![r].todo = @ \ {f}] ELSE Fail(r)
  /\ UNCHANGED <<tool, legacy, dest, service, handoff, used>>

\* The state tool writes what it has read for the manifest.
Stage(r, f) ==
  /\ run[r].phase = "copy" /\ f \in run[r].todo \ Known(r)
  /\ run' = [run EXCEPT ![r].phase = "staged", ![r].file = f,
                        ![r].read = IF tool = "state" THEN run[r].seen[f] ELSE legacy[f]]
  /\ UNCHANGED <<tool, legacy, dest, service, handoff, used>>

Data(r) == IF tool = "state" \/ run[r].read = legacy[run[r].file] THEN run[r].read ELSE Torn
Made(r) == Copy(Data(r), run[r].seen[run[r].file])
Linked(r) == [run[r] EXCEPT !.phase = "copy", !.file = None, !.todo = @ \ {run[r].file}]

\* Replacing instead of linking.
LinkOver(r) ==
  /\ run[r].phase = "staged" /\ dest' = [dest EXCEPT ![run[r].file] = Made(r)]
  /\ run' = [run EXCEPT ![r] = Linked(r)]
  /\ UNCHANGED <<tool, legacy, service, handoff, used>>

\* os.link, and the comparison with the manifest that follows it.
Link(r) ==
  /\ run[r].phase = "staged"
  /\ IF dest[run[r].file] # None THEN Fail(r) /\ UNCHANGED dest
     ELSE /\ dest' = [dest EXCEPT ![run[r].file] = Made(r)]
          /\ IF tool # "state" /\ Data(r) # run[r].seen[run[r].file] THEN Fail(r)
             ELSE run' = [run EXCEPT ![r] = Linked(r)]
  /\ UNCHANGED <<tool, legacy, service, handoff, used>>

SourceUnchanged(r) == tool = "packages" \/ legacy = run[r].seen
AllCopied(r) == \A f \in Files : Same(f, run[r].seen)

\* The state tool removes its handoff last, and fails if another run has.
Finish(r) ==
  /\ run[r].phase = "copy" /\ run[r].todo = {}
  /\ IF AllCopied(r) /\ SourceUnchanged(r) /\ (tool = "state" => handoff # None)
     THEN run' = [run EXCEPT ![r].phase = "done"] /\ handoff' = None
     ELSE Fail(r) /\ UNCHANGED handoff
  /\ UNCHANGED <<tool, legacy, dest, service, used>>

-----------------------------------------------------------------------------
Crash(r) ==
  /\ run[r].phase \notin Ended /\ Spend("crashes", MaxCrashes)
  /\ run' = [run EXCEPT ![r] = [Idle EXCEPT !.phase = "killed"]]
  /\ UNCHANGED <<tool, legacy, dest, service, handoff>>

StopService == service /\ service' = FALSE /\ UNCHANGED <<tool, legacy, dest, handoff, run, used>>
StartService ==  \* the preflight needs it, and is not counted
  /\ ~service /\ service' = TRUE
  /\ IF tool = "state" /\ handoff = None THEN UNCHANGED used ELSE Spend("starts", MaxStarts)
  /\ UNCHANGED <<tool, legacy, dest, handoff, run>>

\* The service records or saves; a build replaces a package.
Write(f) ==
  /\ service \/ tool = "packages"
  /\ Spend("writes", MaxWrites)
  /\ legacy' = [legacy EXCEPT ![f] = used'.writes]
  /\ UNCHANGED <<tool, dest, service, handoff, run>>

Steps(r) == (\E f \in Files : Validate(r, f) \/ Stage(r, f)) \/ Link(r) \/ Finish(r)

Next ==
  \/ Preflight \/ Expire \/ StopService \/ StartService
  \/ \E r \in Runs : Begin(r) \/ Steps(r) \/ Crash(r)
  \/ \E f \in Files : Write(f)

Spec == Init /\ [][Next]_vars

\* An operator who does what the messages ask for until a run has succeeded.
FairSpec ==
  /\ Spec /\ \A r \in Runs : WF_vars(Steps(r)) /\ SF_vars(Begin(r) /\ \A q \in Runs : run[q].phase \in Ended)
  /\ WF_vars(StopService /\ (tool = "state" => handoff # None)) /\ SF_vars(Preflight)
  /\ WF_vars(StartService /\ tool = "state" /\ handoff = None)

-----------------------------------------------------------------------------
(* Properties.                                                             *)

\* test_conflicting_destination_is_rejected_without_overwrite: whatever is
\* outside the worktree, from another run too, is left as it is.
NeverOverwritten == \A f \in Present : dest'[f] = dest[f]

\* A run that reports success has found every file copied as the manifest has
\* it, and the files the service writes as the manifest has them.
DoneIsCopied ==
  \A r \in Runs : run[r].phase # "done" /\ run'[r].phase = "done" =>
    /\ \A f \in Files : dest'[f] # None /\ dest'[f].data = run[r].seen[f]
    /\ tool # "packages" => legacy' = run[r].seen

\* A copy is torn only when its file was written while it was copied, and never
\* by the state tool; without writes every copy is good, whoever was killed where.
GoodCopies ==
  \A f \in Present : /\ dest[f].data = Torn => tool # "state" /\ used.writes > 0
                     /\ used.writes = 0 => Same(f, legacy)

\* Together: the tools that copy files one by one overwrite nothing, make no bad
\* copy, and report success for complete copies only.
CopiesAreSafe == []GoodCopies /\ [][NeverOverwritten /\ DoneIsCopied]_vars

\* Without writes, kills and an overlapping run end in a complete copy.
Copied == <>[](\A f \in Files : Same(f, legacy))
===============================================================================
