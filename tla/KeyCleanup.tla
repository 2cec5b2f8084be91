------------------------------ MODULE KeyCleanup ------------------------------
(***************************************************************************)
(* The retirement of device keys: what the inventory                       *)
(* (tools/sec0062_inventory_device_key_ownership.py) counts, what the      *)
(* cleanup (tools/sec0066_cleanup_retired_credentials.py) removes from     *)
(* security_state.json while the service is stopped, and the verification  *)
(* after it has started again.  The two tools judge keys separately.       *)
(*                                                                         *)
(* What the server does to a key record, and to the registry in            *)
(* server_state.json, is the outline of what DeviceKeys has in detail.     *)
(***************************************************************************)
EXTENDS Naturals, FiniteSets

CONSTANTS Devices, None, MaxChanges \* bound: what happens to clients and keys

Group == {"unprovisioned", "android", "external", "other"}
FirstParty == {"android"}  \* android_home and android_key
Slot == {"missing", "active", "retired"}
PreviousSlot == {"missing", "grace", "retired"}
PendingSlot == {"missing", "staged"}  \* nothing retires one
Enrolment == {"missing", "pending", "expired"}

VARIABLES
  client,   \* the registry: the group of each provisioned client, None when absent
  key,      \* the key record of each device, None when there is none
  enrol,    \* its enrolment
  session,  \* the key that its dashboard session was opened with
  service,
  cleanup,  \* of the last cleanup: none, cleaned, blocked
  changes

vars == <<client, key, enrol, session, service, cleanup, changes>>

Record == [current : Slot, previous : PreviousSlot, pending : PendingSlot, verified : BOOLEAN]
NewRecord == [current |-> "active", previous |-> "missing", pending |-> "missing", verified |-> FALSE]

TypeOK ==
  /\ client \in [Devices -> Group \cup {None}] /\ key \in [Devices -> Record \cup {None}]
  /\ enrol \in [Devices -> Enrolment]
  /\ session \in [Devices -> {None, "current", "older"}]
  /\ \A d \in Devices : key[d] = None => session[d] # "current"

Init ==
  /\ client = [d \in Devices |-> None] /\ key = client
  /\ enrol = [d \in Devices |-> "missing"] /\ session = client
  /\ service = TRUE /\ cleanup = "none" /\ changes = 0

Changing == service /\ changes < MaxChanges /\ changes' = changes + 1 /\ cleanup' = "none"
            /\ UNCHANGED service

-----------------------------------------------------------------------------
(* The server.                                                             *)

Older(d) == [session EXCEPT ![d] = IF @ = None THEN None ELSE "older"]

\* A client appears, is provisioned in a group, or is removed.
Register(d) ==
  /\ Changing /\ \E g \in Group \cup {None} : g # client[d] /\ client' = [client EXCEPT ![d] = g]
  /\ UNCHANGED <<key, enrol, session>>

\* issue_device_key; a key that was active stays valid for a while.
Issue(d) ==
  /\ Changing /\ client[d] # None
  /\ key' = [key EXCEPT ![d] = IF @ = None THEN NewRecord
       ELSE [NewRecord EXCEPT !.previous = IF key[d].current = "active" THEN "grace" ELSE "retired"]]
  /\ session' = Older(d) /\ enrol' = [enrol EXCEPT ![d] = "missing"] /\ UNCHANGED client

\* stage_device_key_handoffs, then a signed request with the staged key or with
\* the current one.
Handoff(d) ==
  /\ Changing /\ key[d] # None /\ key[d].current = "active"
  /\ \/ key[d].pending # "staged" /\ key' = [key EXCEPT ![d].pending = "staged"] /\ UNCHANGED session
     \/ /\ key[d].pending = "staged" /\ session' = Older(d)
        /\ key' = [key EXCEPT ![d] = [NewRecord EXCEPT !.verified = TRUE, !.previous = "grace"]]
     \/ ~key[d].verified /\ key' = [key EXCEPT ![d].verified = TRUE] /\ UNCHANGED session
  /\ UNCHANGED <<client, enrol>>

Revoke(d) ==
  /\ Changing /\ key[d] # None
  /\ key' = [key EXCEPT ![d].current = "retired",
                        ![d].previous = IF @ = "missing" THEN @ ELSE "retired",
                        ![d].pending = "missing"]
  /\ UNCHANGED <<client, enrol, session>>

BeginEnrolment(d) == /\ Changing /\ client[d] # None /\ enrol' = [enrol EXCEPT ![d] = "pending"]
                     /\ UNCHANGED <<client, key, session>>
Login(d) == /\ Changing /\ key[d] # None /\ key[d].current = "active"
            /\ session' = [session EXCEPT ![d] = "current"]
            /\ UNCHANGED <<client, key, enrol>>

\* Time: grace periods and enrolments end, whether the service runs or not.
Elapse ==
  /\ key' = [d \in Devices |-> IF key[d] # None /\ key[d].previous = "grace"
                               THEN [key[d] EXCEPT !.previous = "retired"] ELSE key[d]]
  /\ enrol' = [d \in Devices |-> IF enrol[d] = "pending" THEN "expired" ELSE enrol[d]]
  /\ UNCHANGED <<client, session, service, cleanup, changes>>

-----------------------------------------------------------------------------
(* The cleanup: build_clean_security_state.                                *)

Owned(d) == client[d] \in FirstParty

Blocked(d) ==
  \/ enrol[d] = "pending"
  \/ Owned(d) /\ \/ key[d] = None
                 \/ /\ key[d] # None
                    /\ \/ key[d].current # "active" \/ ~key[d].verified
                       \/ key[d].previous = "grace" \/ key[d].pending = "staged"

CleanedAnyway(d) == IF key[d] = None THEN None
                    ELSE [key[d] EXCEPT !.previous = "missing", !.pending = "missing"]
Cleaned(d) == IF Owned(d) THEN [key[d] EXCEPT !.previous = "missing", !.pending = "missing"] ELSE None
KeptSession(d) == session[d] = "current" /\ Owned(d)

Clean ==
  /\ ~service
  /\ IF \E d \in Devices : Blocked(d)
     THEN cleanup' = "blocked" /\ UNCHANGED <<key, enrol, session>>
     ELSE /\ key' = [d \in Devices |-> Cleaned(d)]
          /\ enrol' = [d \in Devices |-> "missing"]
          /\ session' = [d \in Devices |-> IF KeptSession(d) THEN session[d] ELSE None]
          /\ cleanup' = "cleaned"
  /\ UNCHANGED <<client, service, changes>>

Stop == service /\ service' = FALSE /\ UNCHANGED <<client, key, enrol, session, cleanup, changes>>
Start == ~service /\ service' = TRUE /\ UNCHANGED <<client, key, enrol, session, cleanup, changes>>

-----------------------------------------------------------------------------
(* The inventory: summarize_device_key_inventory, and what asks for it.    *)

OwnerClass(d) ==
  CASE client[d] = None -> "orphaned"
    [] client[d] = "unprovisioned" -> "unprovisioned"
    [] client[d] \in FirstParty -> "first-party-provisioned"
    [] client[d] = "external" -> "external-unexpected"
    [] client[d] = "other" -> "other-provisioned"

Keyed == {d \in Devices : key[d] # None}
StaleCurrent == {d \in Keyed : key[d].current = "retired"}
StalePrevious == {d \in Keyed : key[d].previous = "retired"}
ToReview == {d \in Keyed : key[d].current = "active" /\ OwnerClass(d) \in {"external-unexpected", "other-provisioned"}}
Enrolments == {d \in Devices : enrol[d] # "missing"}

\* The gate of the hand-off.
GateReady ==
  \A d \in Devices : OwnerClass(d) = "first-party-provisioned" =>
    key[d] # None /\ key[d].current = "active" /\ key[d].verified

\* run_verify: nothing is blocked, nothing is left to clean, and the inventory is empty.
InventoryEmpty ==
  /\ \A d \in Keyed : OwnerClass(d) \notin {"orphaned", "external-unexpected"}
  /\ StaleCurrent = {} /\ StalePrevious = {} /\ ToReview = {} /\ Enrolments = {}
Verified ==
  /\ \A d \in Devices : ~Blocked(d) /\ key[d] = Cleaned(d) /\ enrol[d] = "missing"
                        /\ (session[d] # None => KeptSession(d))
  /\ InventoryEmpty

Next ==
  \/ \E d \in Devices : Register(d) \/ Issue(d) \/ Handoff(d) \/ Revoke(d) \/ BeginEnrolment(d) \/ Login(d)
  \/ Elapse \/ Clean \/ Stop \/ Start

Spec == Init /\ [][Next]_vars

-----------------------------------------------------------------------------
(* Properties.                                                             *)

\* What the server accepts of a device: _device_key_candidate_slots.
Accepted(r) == IF r = None THEN {}
               ELSE {s \in {"current", "previous", "pending"} :
                       \/ s = "current" /\ r.current = "active"
                       \/ s = "previous" /\ r.previous = "grace"
                       \/ s = "pending" /\ r.pending = "staged"}

\* test_cleanup_retains_only_verified_first_party_current_keys: a cleanup takes
\* from a first-party client no key that the server would accept, nor the session
\* of its current key.
RetainsOnlyWorkingKeys ==
  cleanup' = "cleaned" /\ ~service =>
    \A d \in Devices : client[d] \in FirstParty =>
      /\ Accepted(key'[d]) = Accepted(key[d]) /\ Accepted(key[d]) # {}
      /\ session[d] = "current" => session'[d] = "current"

\* The two tools agree: until something changes, what the cleanup has cleaned
\* passes the verification and the gate of the inventory.
CleanedIsVerified == cleanup = "cleaned" => Verified /\ GateReady
===============================================================================
