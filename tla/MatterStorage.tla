---------------------------- MODULE MatterStorage ----------------------------
(***************************************************************************)
(* The move of Matter storage out of the worktree, in three tools an       *)
(* operator runs while the service is stopped: two that copy               *)
(* (tools/path001c4_migrate_matter_controller_storage.py and ..._subscription_ *)
(* storage.py) and one that relocates (tools/path001c4_cutover_matter_     *)
(* storage.py).  A tree is copied into a staging directory and renamed     *)
(* into place.  The tools can be killed at any step, the disk can refuse,  *)
(* and the service may be started in between.                              *)
(*                                                                         *)
(* A tree is its version; "bad" stands for the trees that repairs left.    *)
(***************************************************************************)
EXTENDS Naturals, FiniteSets, SequencesExt

CONSTANTS None, MaxWrites, MaxStarts, MaxCrashes, MaxFailures, \* bounds
          MayFail, \* what the disk refuses: "copy", "rename"
          Written  \* where the service writes: "source", "primary"

Tree == {"controller", "subscriptions", "bad"}
Place == {"source", "primary", "rollback", "pre", "archive"}
Tool == {"controller", "subscription", "cutover"}
Version == 0 .. MaxWrites

VARIABLES
  tree,    \* what is at each place, None for nothing
  staging, \* staging directories left: the place beside which, and whether all is private
  service, \* kotibot.service is active
  run,     \* the tool that runs
  outcome, \* how the last run ended
  used,    \* bounds
  first,   \* history: the legacy trees when the run began
  touched  \* history: the service has written since the run began

vars == <<tree, staging, service, run, outcome, used, first, touched>>

NoRun == [tool |-> None, phase |-> "none", todo |-> <<>>, seen |-> [t \in Tree |-> None],
          copying |-> FALSE, moved |-> <<>>]
At(t, p) == tree[<<t, p>>]
Is(t, p) == At(t, p) # None

TypeOK ==
  /\ tree \in [Tree \X Place -> Version \cup {None}]
  /\ staging \subseteq Place \X BOOLEAN /\ service \in BOOLEAN /\ touched \in BOOLEAN
  /\ run.tool \in Tool \cup {None}
  /\ run.phase \in {"none", "copy", "move", "validate", "undo"}
  /\ run.moved # <<>> => run.phase \in {"move", "validate", "undo"}
  /\ run.tool = None => run = NoRun
  /\ outcome \in {"none", "done", "failed", "invalid", "crashed"}

Init ==
  /\ tree = [x \in Tree \X Place |-> IF x[2] = "source" THEN 0 ELSE None]
  /\ staging = {} /\ service = FALSE /\ run = NoRun /\ outcome = "none"
  /\ used = [writes |-> 0, crashes |-> 0, failures |-> 0, starts |-> 0]
  /\ first = [t \in Tree |-> 0] /\ touched = FALSE

Spend(b, max) == used[b] < max /\ used' = [used EXCEPT ![b] = @ + 1]

-----------------------------------------------------------------------------
(* What the tools look at.                                                 *)

\* _validate_private_tree of the protected parent, staging directories included.
AllPrivate == \A s \in staging : s[2]

\* The tree a copy is made from, and the version it must have.
From(tool, t) == IF tool = "cutover" /\ t # "bad" THEN "primary" ELSE "source"
Copies(tool) ==
  CASE tool = "controller" -> << <<"controller", "rollback">>, <<"controller", "primary">>,
                                 <<"bad", "rollback">>, <<"bad", "primary">> >>
    [] tool = "subscription" -> << <<"subscriptions", "rollback">>, <<"subscriptions", "primary">> >>
    [] tool = "cutover" -> << <<"subscriptions", "primary">>, <<"controller", "pre">>,
                              <<"subscriptions", "pre">>, <<"bad", "pre">> >>

\* A primary of subscriptions that is there is the authority, whatever it holds.
Selected(tool, c) == c = <<"subscriptions", "primary">> /\ Is(c[1], c[2])
Expected(tool, c) == IF c[2] = "pre" /\ Is(c[1], From(tool, c[1]))
                     THEN At(c[1], From(tool, c[1])) ELSE At(c[1], "source")
Matches(tool, c) == Is(c[1], c[2]) => Selected(tool, c) \/ At(c[1], c[2]) = Expected(tool, c)

ControllerCopied == Is("controller", "primary") /\ Is("controller", "rollback")
Sources == {t \in Tree : Is(t, "source")}
Archived == {t \in Tree : Is(t, "archive")}

\* The preflight of each tool.
Ready(tool) ==
  /\ ~service /\ AllPrivate
  /\ \A i \in DOMAIN Copies(tool) : Matches(tool, Copies(tool)[i])
  /\ CASE tool = "controller" -> {"controller", "bad"} \subseteq Sources
       [] tool = "subscription" -> "subscriptions" \in Sources /\ ControllerCopied
       [] tool = "cutover" -> Sources = Tree /\ Archived = {} /\ ControllerCopied

Start(tool) ==
  /\ run = NoRun /\ Ready(tool)
  /\ run' = [NoRun EXCEPT !.tool = tool, !.phase = "copy",
                          !.todo = Copies(tool), !.seen = [t \in Tree |-> At(t, "source")]]
  /\ first' = run'.seen /\ touched' = FALSE /\ outcome' = "none"
  /\ UNCHANGED <<tree, staging, service, used>>

End(how) == run' = NoRun /\ outcome' = how

-----------------------------------------------------------------------------
(* Copies: _copy_or_validate_tree.                                         *)

Copying == run.phase = "copy" /\ run.todo # <<>>
NextCopy == Head(run.todo)

\* What is there already is validated and never overwritten.
SkipCopy ==
  /\ Copying /\ ~run.copying /\ Is(NextCopy[1], NextCopy[2])
  /\ IF Matches(run.tool, NextCopy)
     THEN run' = [run EXCEPT !.todo = Tail(@)] /\ UNCHANGED outcome
     ELSE End("failed")
  /\ UNCHANGED <<tree, staging, service, used, first, touched>>

Stage ==
  /\ Copying /\ ~run.copying /\ ~Is(NextCopy[1], NextCopy[2])
  /\ run' = [run EXCEPT !.copying = TRUE]
  /\ UNCHANGED <<tree, staging, service, outcome, used, first, touched>>

CopyFrom == IF Is(NextCopy[1], From(run.tool, NextCopy[1])) THEN From(run.tool, NextCopy[1]) ELSE "source"
Promoted == [run EXCEPT !.todo = Tail(@), !.copying = FALSE]
Promote ==
  /\ Copying /\ run.copying /\ run' = Promoted
  /\ tree' = [tree EXCEPT ![NextCopy] = At(NextCopy[1], CopyFrom)]
  /\ UNCHANGED <<staging, service, outcome, used, first, touched>>

\* _remove_owned_staging knows the staging directories of two parents only.
Removable(p) == p \in {"primary", "rollback"}
Abandon == IF Removable(NextCopy[2]) THEN UNCHANGED staging
           ELSE \E private \in BOOLEAN : staging' = staging \cup {<<NextCopy[2], private>>}
CopyFails ==
  /\ Copying /\ run.copying /\ "copy" \in MayFail /\ Spend("failures", MaxFailures)
  /\ Abandon /\ End("failed")
  /\ UNCHANGED <<tree, service, first, touched>>

\* The second service check, and everything is read once more.
Unchanged == \A t \in Tree : At(t, "source") = run.seen[t]
Agreed == /\ \A i \in DOMAIN Copies(run.tool) :
               LET c == Copies(run.tool)[i] IN Is(c[1], c[2]) /\ Matches(run.tool, c)
          /\ ~service
MovesFirst == <<"controller", "subscriptions", "bad">>
Check ==
  /\ run.phase = "copy" /\ run.todo = <<>>
  /\ IF ~(Unchanged /\ Agreed) THEN End("failed")
     ELSE IF run.tool # "cutover" THEN End("done")
     ELSE run' = [run EXCEPT !.phase = "move", !.todo = MovesFirst] /\ UNCHANGED outcome
  /\ UNCHANGED <<tree, staging, service, used, first, touched>>

-----------------------------------------------------------------------------
(* The relocation.                                                         *)

\* Mutant: a copy where a rename is meant.
CopyOver(t, p, q) == tree' = [tree EXCEPT ![<<t, q>>] = At(t, p)]

Rename(t, p, q) == tree' = [tree EXCEPT ![<<t, p>>] = None, ![<<t, q>>] = At(t, p)]

Move ==
  /\ run.phase = "move" /\ run.todo # <<>>
  /\ \/ /\ Rename(Head(run.todo), "source", "archive")
        /\ run' = [run EXCEPT !.moved = Append(@, Head(run.todo)), !.todo = Tail(@)]
        /\ UNCHANGED used
     \/ /\ "rename" \in MayFail /\ Spend("failures", MaxFailures)
        /\ run' = [run EXCEPT !.phase = "undo", !.todo = Reverse(run.moved)]
        /\ UNCHANGED tree
  /\ UNCHANGED <<staging, service, outcome, first, touched>>

\* The third service check and _validate_completed_cutover, tree by tree.
Valid(t) ==
  /\ At(t, "archive") = run.seen[t] /\ Is(t, "pre") /\ ~Is(t, "source")
  /\ At(t, "pre") = At(t, IF t = "bad" THEN "archive" ELSE "primary")

Validate ==
  /\ run.phase = "move" /\ run.todo = <<>>
  /\ IF ~service /\ \A t \in Tree : Valid(t) THEN End("done")
     ELSE run' = [run EXCEPT !.phase = "undo", !.todo = Reverse(run.moved)] /\ UNCHANGED outcome
  /\ UNCHANGED <<tree, staging, service, used, first, touched>>

Undo ==
  /\ run.phase = "undo"
  /\ IF run.todo = <<>> THEN End("failed") /\ UNCHANGED tree
     ELSE /\ Rename(Head(run.todo), "archive", "source")
          /\ run' = [run EXCEPT !.todo = Tail(@)] /\ UNCHANGED outcome
  /\ UNCHANGED <<staging, service, used, first, touched>>

\* A run on a completed relocation only validates it.
Revalidate ==
  /\ run = NoRun /\ ~service /\ Sources \cap {"controller", "subscriptions"} = {}
  /\ {"controller", "subscriptions"} \subseteq Archived
  /\ outcome' = IF /\ AllPrivate /\ \A t \in {"controller", "subscriptions"} : At(t, "pre") = At(t, "primary")
                   /\ "bad" \notin Sources THEN "done" ELSE "invalid"
  /\ touched' = FALSE
  /\ UNCHANGED <<tree, staging, service, run, used, first>>

-----------------------------------------------------------------------------
(* The surroundings.                                                       *)

Crash ==
  /\ run # NoRun /\ Spend("crashes", MaxCrashes) /\ End("crashed")
  /\ IF run.copying THEN \E private \in BOOLEAN : staging' = staging \cup {<<NextCopy[2], private>>}
     ELSE UNCHANGED staging
  /\ UNCHANGED <<tree, service, first, touched>>

StartService == ~service /\ service' = TRUE /\ Spend("starts", MaxStarts)
                /\ UNCHANGED <<tree, staging, run, outcome, first, touched>>
StopService == service /\ service' = FALSE /\ UNCHANGED <<tree, staging, run, outcome, used, first, touched>>

\* The service writes the protected trees; an older one wrote the legacy trees.
Write(t, p) ==
  /\ service /\ p \in Written /\ Is(t, p) /\ t # "bad" /\ Spend("writes", MaxWrites)
  /\ tree' = [tree EXCEPT ![<<t, p>>] = used'.writes]
  /\ touched' = TRUE
  /\ UNCHANGED <<staging, service, run, outcome, first>>

Steps == SkipCopy \/ Stage \/ Promote \/ CopyFails \/ Check \/ Move \/ Validate \/ Undo
Next ==
  \/ \E tool \in Tool : Start(tool)
  \/ Steps \/ Revalidate \/ Crash \/ StartService \/ StopService
  \/ \E t \in Tree, p \in Place : Write(t, p)

Spec == Init /\ [][Next]_vars

\* The operator runs each tool again until it has succeeded, the service stopped.
FairSpec == Spec /\ WF_vars(Steps) /\ WF_vars(StopService) /\ \A tool \in Tool : SF_vars(Start(tool))

-----------------------------------------------------------------------------
(* Properties.                                                             *)

\* Whatever happens, each legacy tree is in the worktree or in the archive,
\* once, as the run found it or as the service has written it since.
NothingLost ==
  \A t \in Tree : /\ Is(t, "source") # Is(t, "archive")
                  /\ run # NoRun /\ ~touched => first[t] \in {At(t, "source"), At(t, "archive")}

\* "The selected protected authority": the tools initialise a protected tree
\* that is missing, and never change one that is there.
AuthorityKept ==
  \A t \in Tree : Is(t, "primary") /\ ~service => tree'[<<t, "primary">>] = At(t, "primary")

\* A run that fails has put back every legacy tree it had moved.
FailureRestores == outcome = "failed" /\ used.crashes = 0 => Sources = Tree

\* When the relocation is reported complete, a backup of the authority exists,
\* even if the service was started and stopped again meanwhile.
CompleteIsBackedUp ==
  outcome # "done" /\ outcome' = "done" /\ Archived' = Tree =>
    \A t \in Tree \ {"bad"} : Is(t, "primary")' /\ At(t, "pre")' = At(t, "primary")'

\* A failed copy removes the staging directory of the tool.
StagingRemoved == used.crashes = 0 /\ run = NoRun => staging = {}

\* A completed relocation can be validated again.
Revalidates == outcome # "invalid"

\* Unless it is killed, the operator ends up with all trees relocated.
Relocated == <>[](Archived = Tree)
===============================================================================
