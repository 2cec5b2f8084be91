---------------------------- MODULE SourceResidue ----------------------------
(***************************************************************************)
(* The removal of what earlier releases left in the source checkout        *)
(* (path003): history archives, a preflight with the service running, the  *)
(* removal with it stopped, a verification after its restart.  The stages  *)
(* are programs of their own; a hand-off file that expires joins them, and *)
(* any of them may be killed.                                              *)
(*                                                                         *)
(* A file is the number of its last change; two files are equal when they  *)
(* hold the same number.                                                   *)
(***************************************************************************)
EXTENDS Naturals, FiniteSets

CONSTANTS State,     \* legacy state documents
          History,   \* legacy history files
          Copied,    \* legacy recordings and Android packages
          Other,     \* caches, trash, left-over temporary and backup files
          Blockers,  \* credentials, Matter storage, tracked and unknown files
          None,
          MaxTouches, MaxKills, MaxFaults   \* bounds

VARIABLES
  src,       \* the residue in the checkout
  doc,       \* which of the primary and the backup of an external document are valid
  live, rotated, archive,  \* the legacy histories inside the external ones
  copy,      \* the external copies
  service, handoff,
  removing,  \* the targets a cleanup has still to remove, None when none runs
  verified, used

vars == <<src, doc, live, rotated, archive, copy, service, handoff, removing, verified, used>>
external == <<doc, live, rotated, archive, copy>>

Targets == State \cup History \cup Copied \cup Other
Version == 0 .. MaxTouches
Held == Version \cup {None}
Both == {"primary", "backup"}

TypeOK ==
  /\ src \in [Targets \cup Blockers -> Held] /\ doc \in [State -> SUBSET Both]
  /\ live \in [History -> Held] /\ rotated \in [History -> Held]
  /\ archive \in [History -> Held] /\ copy \in [Copied -> Held]
  /\ removing = None \/ removing \subseteq Targets
  /\ removing # None => ~service /\ handoff # None /\ ~handoff.complete

Init ==
  /\ src \in [Targets \cup Blockers -> {0, None}]
  /\ doc = [s \in State |-> Both] /\ live = [h \in History |-> 0]
  /\ rotated = [h \in History |-> None] /\ archive = [h \in History |-> None]
  /\ copy = [c \in Copied |-> 0]
  /\ service = TRUE /\ handoff = None /\ removing = None /\ verified = FALSE
  /\ used = [touches |-> 0, kills |-> 0, faults |-> 0]

Spend(b, max) == used[b] < max /\ used' = [used EXCEPT ![b] = @ + 1]

-----------------------------------------------------------------------------
(* build_inventory and validate_external_recovery.                         *)

Present(set) == {r \in set : src[r] # None}
Blocked == Present(Blockers) # {}

HoldsHistory(h) == src[h] \in {live[h], rotated[h], archive[h]}

Recovered(r) ==
  /\ r \in State => doc[r] = Both
  /\ r \in History => HoldsHistory(r)
  /\ r \in Copied => copy[r] = src[r]

-----------------------------------------------------------------------------
(* The stages.                                                             *)

\* create_archive: linked into place once, and never replaced.
Archive(h) ==
  /\ service /\ src[h] # None /\ archive[h] = None
  /\ archive' = [archive EXCEPT ![h] = src[h]]
  /\ UNCHANGED <<src, doc, live, rotated, copy, service, handoff, removing, verified, used>>

Preflight ==
  /\ service /\ ~Blocked /\ \A r \in Present(Targets) : Recovered(r)
  /\ handoff' = [seen |-> src, complete |-> FALSE, fresh |-> TRUE]
  /\ UNCHANGED <<src, external, service, removing, verified, used>>

BeginServing ==
  /\ removing = None /\ handoff # None /\ handoff.fresh /\ ~handoff.complete
  /\ ~Blocked /\ \A r \in Targets : src[r] = handoff.seen[r]
  /\ \A r \in Present(Targets) : Recovered(r)
  /\ removing' = Present(Targets)
  /\ UNCHANGED <<src, external, service, handoff, verified, used>>
\* Everything is looked at again before the first file goes.
BeginCleanup ==
  /\ ~service /\ removing = None /\ handoff # None /\ handoff.fresh /\ ~handoff.complete
  /\ ~Blocked /\ \A r \in Targets : src[r] = handoff.seen[r]
  /\ \A r \in Present(Targets) : Recovered(r)
  /\ removing' = Present(Targets)
  /\ UNCHANGED <<src, external, service, handoff, verified, used>>

Remove(r) ==
  /\ removing # None /\ r \in removing
  /\ src' = [src EXCEPT ![r] = None] /\ removing' = removing \ {r}
  /\ UNCHANGED <<external, service, handoff, verified, used>>

EndCleanup ==
  /\ removing = {} /\ Present(Targets \cup Blockers) = {}
  /\ removing' = None /\ handoff' = [handoff EXCEPT !.complete = TRUE]
  /\ UNCHANGED <<src, external, service, verified, used>>

Complete == handoff # None /\ handoff.fresh /\ handoff.complete

Verify ==
  /\ service /\ Complete /\ Present(Targets \cup Blockers) = {}
  /\ handoff' = None /\ verified' = TRUE
  /\ UNCHANGED <<src, external, service, removing, used>>

-----------------------------------------------------------------------------
(* The service, its operator, and what goes wrong.                         *)

Stop ==
  /\ service /\ service' = FALSE
  /\ UNCHANGED <<src, external, handoff, removing, verified, used>>

Start ==
  /\ ~service /\ removing = None /\ service' = TRUE
  /\ UNCHANGED <<src, external, handoff, removing, verified, used>>

\* Operators clear a blocker, take away a copy that differs, and run the copying
\* tool again, which needs a stopped service and copies only what is not there.
Resolve(b) ==
  /\ src[b] # None /\ removing = None /\ src' = [src EXCEPT ![b] = None]
  /\ UNCHANGED <<external, service, handoff, removing, verified, used>>

Discard(c) ==
  /\ src[c] # None /\ copy[c] \notin {None, src[c]} /\ removing = None
  /\ copy' = [copy EXCEPT ![c] = None]
  /\ UNCHANGED <<src, doc, live, rotated, archive, service, handoff, removing, verified, used>>

Recopy(c) ==
  /\ ~service /\ src[c] # None /\ copy[c] = None /\ removing = None
  /\ copy' = [copy EXCEPT ![c] = src[c]]
  /\ UNCHANGED <<src, doc, live, rotated, archive, service, handoff, removing, verified, used>>

\* The running service saves a document with its backup and rotates a history.
SaveDocument(s) ==
  /\ service /\ doc[s] # Both /\ doc' = [doc EXCEPT ![s] = Both]
  /\ UNCHANGED <<src, live, rotated, archive, copy, service, handoff, removing, verified, used>>

Rotate(h) ==
  /\ service /\ <<live[h], rotated[h]>> # <<None, None>>
  /\ live' = [live EXCEPT ![h] = None] /\ rotated' = [rotated EXCEPT ![h] = live[h]]
  /\ UNCHANGED <<src, doc, archive, copy, service, handoff, removing, verified, used>>

\* A copy is deleted; no code of the server does.
DeleteCopy(c) ==
  /\ removing = None /\ copy[c] # None /\ Spend("faults", MaxFaults)
  /\ copy' = [copy EXCEPT ![c] = None]
  /\ UNCHANGED <<src, doc, live, rotated, archive, service, handoff, removing, verified>>

Damage(s, part) ==
  /\ removing = None /\ part \in doc[s] /\ Spend("faults", MaxFaults)
  /\ doc' = [doc EXCEPT ![s] = @ \ {part}]
  /\ UNCHANGED <<src, live, rotated, archive, copy, service, handoff, removing, verified>>

\* An earlier release, run from the checkout, writes into it again.
Touch(r) ==
  /\ service /\ Spend("touches", MaxTouches)
  /\ src' = [src EXCEPT ![r] = used.touches + 1]
  /\ UNCHANGED <<external, service, handoff, removing, verified>>

\* The hand-off is too old, or its directory was lost with a restart of the host.
Expire ==
  /\ handoff # None /\ handoff.fresh /\ removing = None /\ Spend("faults", MaxFaults)
  /\ handoff' \in {None, [handoff EXCEPT !.fresh = FALSE]}
  /\ UNCHANGED <<src, external, service, removing, verified>>

Kill ==
  /\ removing # None /\ Spend("kills", MaxKills) /\ removing' = None
  /\ UNCHANGED <<src, external, service, handoff, verified>>

Next ==
  \/ \E h \in History : Archive(h) \/ Rotate(h)
  \/ Preflight \/ BeginCleanup \/ EndCleanup \/ Verify
  \/ \E r \in Targets : Remove(r)
  \/ Stop \/ Start
  \/ \E b \in Blockers : Resolve(b)
  \/ \E c \in Copied : Discard(c) \/ Recopy(c) \/ DeleteCopy(c)
  \/ \E s \in State : SaveDocument(s)
  \/ \E s \in State, part \in Both : Damage(s, part)
  \/ \E r \in Targets \cup Blockers : Touch(r)
  \/ Expire \/ Kill

Spec == Init /\ [][Next]_vars

\* The service saves and stops and starts; the operator comes back to each stage.
FairSpec ==
  /\ Spec
  /\ WF_vars(Stop) /\ WF_vars(Start)
  /\ \A h \in History : SF_vars(Archive(h))
  /\ SF_vars(Preflight) /\ SF_vars(BeginCleanup) /\ WF_vars(EndCleanup) /\ SF_vars(Verify)
  /\ \A r \in Targets : WF_vars(Remove(r))
  /\ \A b \in Blockers : SF_vars(Resolve(b))
  /\ \A c \in Copied : WF_vars(Discard(c)) /\ SF_vars(Recopy(c))
  /\ \A s \in State : SF_vars(SaveDocument(s))

-----------------------------------------------------------------------------
Removed(r) == removing # None /\ src[r] # None /\ src'[r] = None

\* No residue that the service may still need is removed unless, at that moment, it is
\* outside the checkout: a document in two valid files, a history in a history or in its
\* own archive, a recording or a package in an equal copy - although the service ran,
\* rotated, deleted and was stopped after the preflight.
OnlyWithRecovery == \A r \in Targets : Removed(r) => Recovered(r)

\* What is removed is, file by file, what the preflight looked at, and never a credential,
\* a Matter store or a file of the source.
OnlyTheInspected ==
  \A r \in Targets \cup Blockers :
    Removed(r) => r \in Targets /\ handoff # None /\ src[r] = handoff.seen[r]

\* An archive keeps the first history it was made from.
ArchiveKept == \A h \in History : archive[h] # None => archive'[h] = archive[h]

\* The cleanup is called verified in a checkout that holds no residue, whatever was written
\* into it since the removal.
VerifiedIsClean ==
  ~verified /\ verified' => \A r \in Targets \cup Blockers : src[r] = None

\* Through kills, expired hand-offs and lost copies, repeating the stages ends in a
\* verified cleanup.
Ends == <>verified
=============================================================================
