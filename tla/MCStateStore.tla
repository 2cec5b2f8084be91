---------------------------- MODULE MCStateStore ----------------------------
(***************************************************************************)
(* The state runtime for TLC in three situations, as case says: restarts   *)
(* with sound files, writes that fail, and a file that is damaged and      *)
(* repaired.                                                               *)
(***************************************************************************)
EXTENDS StateStore

VARIABLE case

Faults == INSTANCE StateStore WITH MaxFaults <- 1
Damage == INSTANCE StateStore WITH MaxDamage <- 1

MCvars == <<case, allVars>>

MCInit == case \in {"restarts", "faults", "damage"} /\ StateInit

\* Bound: where something else goes wrong, fewer documents, and no route is left
\* without a client.
Fewer == loose' = {} /\ \A p \in Path : latest'[p] <= 3

MCNext ==
  /\ \/ case = "restarts" /\ StateNext
     \/ case = "faults" /\ Faults!StateNext /\ Fewer
     \/ case = "damage" /\ Damage!StateNext /\ Fewer
  /\ UNCHANGED case

MCSpec == MCInit /\ [][MCNext]_MCvars
=============================================================================
