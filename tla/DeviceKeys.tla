------------------------------ MODULE DeviceKeys -----------------------------
(***************************************************************************)
(* The credentials of one Android device: enrolment, signed requests,      *)
(* staged replacement of a key and revocation, in                          *)
(* subsystems/security/kotibot_security.py and the handshake, provisioning *)
(* and removal routes of kotibot_server.py.  Devices do not share state.   *)
(*                                                                         *)
(* Security state is written at once (write_json_atomic_sync); the client  *)
(* registry is queued and written later.  Keys and tokens are numbered.    *)
(***************************************************************************)
EXTENDS Naturals, FiniteSets

CONSTANTS
  Request,     \* requests of the device that can be under way at once
  None,
  MaxKeys,     \* bound: keys made
  MaxTokens,   \* bound: enrolment tokens made
  MaxFaults,   \* bound: failing writes of security_state.json
  MaxCrashes   \* bound: crashes of the server

Key   == 1..MaxKeys
Token == 1..MaxTokens

ASSUME KeysAssumption ==
  /\ {MaxKeys, MaxTokens, MaxFaults, MaxCrashes} \subseteq Nat
  /\ None \notin Request /\ None \notin Key \cup Token

VARIABLES
  mem,       \* the device's part of SECURITY.state
  disk,      \* the same in security_state.json
  client,    \* CLIENTS: absent, unprovisioned or provisioned
  queued,    \* what save_state last handed to the JSON store
  stored,    \* the client on disk
  req,       \* the requests of the device
  lock,      \* the request that holds STATE_LOCK
  checked,   \* a provision route has seen the pending enrolment
  resetting, \* an enrolment reset has revoked the keys
  held,      \* the key the device signs with
  claim,     \* the enrolment token the device holds
  keys, tokens,     \* how many were made
  faults, crashes,
  proven,    \* history: keys with which the device has signed a valid request
  keysOf,    \* history: the keys that each token has released
  calm       \* history: no operator has touched a key and no write has failed

server  == <<mem, disk>>
registry == <<client, queued, stored>>
routes  == <<checked, resetting>>
device  == <<held, claim>>
bounds  == <<keys, tokens, faults, crashes>>
ghost   == <<proven, keysOf, calm>>
vars    == <<server, registry, req, lock, routes, device, bounds, ghost>>

Record == [current : Key \cup {None}, active : BOOLEAN,
           previous : Key \cup {None},   \* None also when revoked or expired
           pending : Key \cup {None},    \* staged
           verified : BOOLEAN,           \* handoff_verified_at
           token : Token \cup {None}]    \* None also when expired
RequestRec == [pc : {"idle", "sent", "matching", "auth", "accepted", "eligible",
                     "claim", "consume", "issue", "reply"},
               kind : {"signed", "handshake"},
               key : Key \cup {None}, token : Token \cup {None},
               slot : {"current", "previous", "pending", "none"},
               fresh : BOOLEAN,  \* the key was current when the hand-off was decided
               newKey : Key \cup {None}, newToken : Token \cup {None}]

TypeOK ==
  /\ mem \in Record /\ disk \in Record
  /\ mem.active => mem.current # None
  /\ {client, queued, stored} \subseteq {"absent", "unprovisioned", "provisioned"}
  /\ req \in [Request -> RequestRec]
  /\ lock \in Request \cup {None}
  /\ checked \in BOOLEAN /\ resetting \in BOOLEAN
  /\ held \in Key \cup {None}
  /\ claim \in Token \cup {None}
  /\ keys \in 0..MaxKeys /\ tokens \in 0..MaxTokens
  /\ faults \in 0..MaxFaults /\ crashes \in 0..MaxCrashes
  /\ proven \in SUBSET Key
  /\ keysOf \in [Token -> SUBSET Key]
  /\ calm \in BOOLEAN

NoRecord == [current |-> None, active |-> FALSE, previous |-> None,
             pending |-> None, verified |-> FALSE, token |-> None]
NoRequest == [pc |-> "idle", kind |-> "signed", key |-> None, token |-> None,
              slot |-> "none", fresh |-> FALSE, newKey |-> None, newToken |-> None]

Init ==
  /\ mem = NoRecord /\ disk = NoRecord
  /\ client = "absent" /\ queued = "absent" /\ stored = "absent"
  /\ req = [r \in Request |-> NoRequest]
  /\ lock = None
  /\ checked = FALSE /\ resetting = FALSE
  /\ held = None /\ claim = None
  /\ keys = 0 /\ tokens = 0 /\ faults = 0 /\ crashes = 0
  /\ proven = {} /\ keysOf = [t \in Token |-> {}] /\ calm = TRUE

-----------------------------------------------------------------------------
(* The key record.                                                         *)

\* Mutant: the staged key is no candidate.
UsableWithoutStaged(s) == ((IF s.active THEN {s.current} ELSE {}) \cup {s.previous}) \ {None}

\* _device_key_candidate_slots.
Usable(s) == ((IF s.active THEN {s.current} ELSE {}) \cup {s.previous, s.pending}) \ {None}
HasKey == Usable(mem) # {}

Slot(k) == IF mem.active /\ k = mem.current THEN "current"
           ELSE IF k = mem.previous THEN "previous" ELSE "pending"

\* Mutant: the verification of the key before stays.
IssuedVerified(s, k) ==
  [s EXCEPT !.previous = IF s.active THEN s.current ELSE None,
            !.current = k, !.active = TRUE, !.pending = None]

\* issue_device_key.
Issued(s, k) ==
  [s EXCEPT !.previous = IF s.active THEN s.current ELSE None,
            !.current = k, !.active = TRUE, !.pending = None, !.verified = FALSE]

\* _promote_staged_device_key.
Promoted(s) ==
  [s EXCEPT !.previous = s.current, !.current = s.pending, !.pending = None,
            !.verified = TRUE]

\* revoke_device_key, with one key_id or for all keys.
Revoked(s, K) ==
  [s EXCEPT !.active   = @ /\ s.current \notin K,
            !.previous = IF @ \in K THEN None ELSE @,
            !.pending  = IF @ \in K THEN None ELSE @]

NewKey == keys < MaxKeys /\ keys' = keys + 1
NewToken == tokens < MaxTokens /\ tokens' = tokens + 1

\* _save_state writes at once; when it raises, memory keeps the change.
Save(s) == mem' = s /\ disk' = s /\ UNCHANGED faults
SaveRaises(s) ==
  /\ faults < MaxFaults /\ faults' = faults + 1
  /\ mem' = s /\ disk' \in {disk, s}
NoSave == UNCHANGED <<mem, disk, faults>>

-----------------------------------------------------------------------------
(* Requests of the device, one step per look at the security state.        *)

At(r, pc) == req[r].pc = pc
Move(r, next) == req' = [req EXCEPT ![r] = next]
Goto(r, pc) == Move(r, [req[r] EXCEPT !.pc = pc])
Release(r) == lock' = IF lock = r THEN None ELSE lock

\* The request ends without an answer the device can use.
End(r) == Move(r, NoRequest) /\ Release(r)

IsCurrent(k) == mem.active /\ k = mem.current
Send(r, kind) ==
  /\ At(r, "idle")
  /\ kind = "signed" => held # None
  /\ Move(r, [NoRequest EXCEPT !.pc = "sent", !.kind = kind, !.key = held, !.token = claim])
  /\ UNCHANGED <<server, registry, lock, routes, device, bounds, ghost>>

\* A write may raise: memory keeps the change, and the request ends in an error.
Stays == UNCHANGED calm
Upset == calm' = FALSE

\* handshake, which holds STATE_LOCK to its end.  An unprovisioned device gets a
\* token unless an earlier one is still valid.
EnterHandshake(r) ==
  LET enrolled == [mem EXCEPT !.token = tokens'] IN
  /\ At(r, "sent") /\ req[r].kind = "handshake" /\ lock = None
  /\ \/ /\ client = "provisioned"
        /\ lock' = r
        /\ Move(r, [req[r] EXCEPT !.pc = IF HasKey THEN "matching" ELSE "claim",
                                  !.fresh = HasKey /\ IsCurrent(req[r].key)])
        /\ NoSave /\ Stays /\ UNCHANGED <<client, queued, tokens>>
     \/ /\ client # "provisioned" /\ mem.token # None
        /\ client' = "unprovisioned" /\ queued' = "unprovisioned"
        /\ Goto(r, "reply")
        /\ NoSave /\ Stays /\ UNCHANGED <<lock, tokens>>
     \/ /\ client # "provisioned" /\ mem.token = None /\ NewToken
        /\ client' = "unprovisioned"
        /\ \/ /\ Save(enrolled) /\ Stays /\ queued' = "unprovisioned"
              /\ Move(r, [req[r] EXCEPT !.pc = "reply", !.newToken = tokens'])
           \/ SaveRaises(enrolled) /\ Upset /\ Move(r, NoRequest) /\ UNCHANGED queued
        /\ UNCHANGED lock
  /\ UNCHANGED <<stored, routes, device, keys, crashes, proven, keysOf>>

\* require_device_signature up to the replay check: the slot is looked up
\* without _state_lock and used afterwards.
MatchKey(r) ==
  /\ At(r, "matching") \/ (At(r, "sent") /\ req[r].kind = "signed")
  /\ IF req[r].key \in Usable(mem)
     THEN /\ Move(r, [req[r] EXCEPT !.pc = "auth", !.slot = Slot(req[r].key)])
          /\ proven' = proven \cup {req[r].key}
          /\ UNCHANGED lock
     ELSE End(r) /\ UNCHANGED proven
  /\ UNCHANGED <<server, registry, routes, device, bounds, keysOf, calm>>

\* A staged key that signs becomes the current key; another request may have
\* promoted it already.
Promote(r) ==
  /\ At(r, "auth") /\ req[r].slot = "pending"
  /\ \/ IsCurrent(req[r].key) /\ Goto(r, "accepted") /\ NoSave /\ Stays /\ UNCHANGED lock
     \/ /\ ~IsCurrent(req[r].key) /\ req[r].key = mem.pending /\ mem.active
        /\ \/ Save(Promoted(mem)) /\ Goto(r, "accepted") /\ Stays /\ UNCHANGED lock
           \/ SaveRaises(Promoted(mem)) /\ End(r) /\ Upset
     \/ /\ ~IsCurrent(req[r].key) /\ ~(req[r].key = mem.pending /\ mem.active)
        /\ End(r) /\ NoSave /\ Stays
  /\ UNCHANGED <<registry, routes, device, keys, tokens, crashes, proven, keysOf>>

\* The first signature with the current key verifies it.
MarkVerified(r) ==
  LET marked == [mem EXCEPT !.verified = TRUE] IN
  /\ At(r, "auth") /\ req[r].slot = "current"
  /\ \/ ~IsCurrent(req[r].key) /\ End(r) /\ NoSave /\ Stays
     \/ /\ IsCurrent(req[r].key) /\ mem.verified
        /\ Goto(r, "accepted") /\ NoSave /\ Stays /\ UNCHANGED lock
     \/ /\ IsCurrent(req[r].key) /\ ~mem.verified
        /\ \/ Save(marked) /\ Goto(r, "accepted") /\ Stays /\ UNCHANGED lock
           \/ SaveRaises(marked) /\ End(r) /\ Upset
  /\ UNCHANGED <<registry, routes, device, keys, tokens, crashes, proven, keysOf>>

AcceptPrevious(r) ==
  /\ At(r, "auth") /\ req[r].slot = "previous"
  /\ Goto(r, "accepted")
  /\ UNCHANGED <<server, registry, lock, routes, device, bounds, ghost>>

\* Only a request signed with the current key may carry the staged one back:
\* finish_security_response looks now, handshake has looked before.
DecideHandoff(r) ==
  /\ At(r, "accepted")
  /\ LET fresh == IF req[r].kind = "handshake" THEN req[r].fresh ELSE IsCurrent(req[r].key) IN
     Goto(r, IF fresh THEN "eligible" ELSE "reply")
  /\ IF req[r].kind = "handshake" /\ ~req[r].fresh THEN Release(r) ELSE UNCHANGED lock
  /\ UNCHANGED <<server, registry, routes, device, bounds, ghost>>

\* device_key_handoff_payload.
HandOff(r) ==
  /\ At(r, "eligible")
  /\ Move(r, [req[r] EXCEPT !.pc = "reply",
                            !.newKey = IF mem.active THEN mem.pending ELSE None])
  /\ Release(r)
  /\ UNCHANGED <<server, registry, routes, device, bounds, ghost>>

\* consume_device_enrollment: the token is compared without _state_lock.
VerifyToken(r) ==
  /\ At(r, "claim")
  /\ IF req[r].token # None /\ req[r].token = mem.token
     THEN Goto(r, "consume") /\ UNCHANGED lock
     ELSE End(r)
  /\ UNCHANGED <<server, registry, routes, device, bounds, ghost>>

ConsumeToken(r) ==
  LET used == [mem EXCEPT !.token = None] IN
  /\ At(r, "consume")
  /\ \/ Save(used) /\ Goto(r, "issue") /\ Stays /\ UNCHANGED lock
     \/ SaveRaises(used) /\ End(r) /\ Upset
  /\ UNCHANGED <<registry, routes, device, keys, tokens, crashes, proven, keysOf>>

IssueClaimed(r) ==
  /\ At(r, "issue") /\ NewKey
  /\ keysOf' = [keysOf EXCEPT ![req[r].token] = @ \cup {keys'}]
  /\ \/ /\ Save(Issued(mem, keys')) /\ Stays
        /\ Move(r, [req[r] EXCEPT !.pc = "reply", !.newKey = keys'])
        /\ Release(r)
     \/ SaveRaises(Issued(mem, keys')) /\ End(r) /\ Upset
  /\ UNCHANGED <<registry, routes, device, tokens, crashes, proven>>

\* The device stores what the answer carries.
Receive(r) ==
  /\ At(r, "reply")
  /\ held' = IF req[r].newKey # None THEN req[r].newKey ELSE held
  /\ claim' = IF req[r].newToken # None THEN req[r].newToken ELSE claim
  /\ Move(r, NoRequest)
  /\ UNCHANGED <<server, registry, lock, routes, bounds, ghost>>

\* A request or its answer is lost.
Lose(r) ==
  /\ At(r, "sent") \/ At(r, "reply")
  /\ Move(r, NoRequest)
  /\ UNCHANGED <<server, registry, lock, routes, device, bounds, ghost>>

-----------------------------------------------------------------------------
(* Dashboard routes.                                                       *)

\* stage_device_key_handoffs.
StageHandoff ==
  LET staged == [mem EXCEPT !.pending = keys'] IN
  /\ client = "provisioned"
  /\ mem.active /\ mem.previous = None /\ mem.pending = None
  /\ NewKey
  /\ (Save(staged) /\ Stays) \/ (SaveRaises(staged) /\ Upset)
  /\ UNCHANGED <<registry, req, lock, routes, device, tokens, crashes, proven, keysOf>>

\* The dashboard issues or rotates a key; the operator may carry it over.
IssueKey(rotate) ==
  /\ mem.current = None \/ rotate
  /\ NewKey /\ Upset
  /\ \/ Save(Issued(mem, keys')) /\ held' \in {held, keys'}
     \/ SaveRaises(Issued(mem, keys')) /\ UNCHANGED held
  /\ UNCHANGED <<registry, req, lock, routes, claim, tokens, crashes, proven, keysOf>>

RevokeKeys(K) ==
  /\ mem.current # None
  /\ Upset
  /\ Save(Revoked(mem, K)) \/ SaveRaises(Revoked(mem, K))
  /\ UNCHANGED <<registry, req, lock, routes, device, keys, tokens, crashes, proven, keysOf>>

\* security_reset_device_enrollment: revoke everything, then a new token.
BeginReset ==
  /\ ~resetting
  /\ Upset
  /\ \/ mem.current = None /\ NoSave /\ resetting' = TRUE
     \/ mem.current # None /\ Save(Revoked(mem, Key)) /\ resetting' = TRUE
     \/ mem.current # None /\ SaveRaises(Revoked(mem, Key)) /\ UNCHANGED resetting
  /\ UNCHANGED <<registry, req, lock, checked, device, keys, tokens, crashes, proven, keysOf>>

EndReset ==
  LET enrolled == [mem EXCEPT !.token = tokens'] IN
  /\ resetting /\ resetting' = FALSE
  /\ NewToken /\ Upset
  /\ \/ Save(enrolled) /\ claim' \in {claim, tokens'}
     \/ SaveRaises(enrolled) /\ UNCHANGED claim
  /\ UNCHANGED <<registry, req, lock, checked, held, keys, crashes, proven, keysOf>>

\* provision looks for a pending enrolment before it takes STATE_LOCK.
CheckProvision ==
  /\ mem.token # None /\ checked' = TRUE
  /\ UNCHANGED <<server, registry, req, lock, resetting, device, bounds, ghost>>

\* An invalid role or room ends the route after it has unprovisioned the client.
Provision ==
  /\ checked /\ checked' = FALSE
  /\ lock = None
  /\ \/ client' = "provisioned" /\ queued' = "provisioned"
     \/ client' = "unprovisioned" /\ UNCHANGED queued
  /\ UNCHANGED <<server, stored, req, lock, resetting, device, bounds, ghost>>

ReEnroll ==
  LET cancelled == [mem EXCEPT !.token = None] IN
  /\ lock = None
  /\ client = "provisioned" /\ ~HasKey
  /\ client' = "unprovisioned"
  /\ \/ Save(cancelled) /\ Stays /\ queued' = "unprovisioned"
     \/ SaveRaises(cancelled) /\ Upset /\ UNCHANGED queued
  /\ UNCHANGED <<stored, req, lock, routes, device, keys, tokens, crashes, proven, keysOf>>

\* remove_client: two writes of the security state, then the registry.
RemoveClient ==
  LET revoked == Revoked(mem, Key)
      cancelled == [revoked EXCEPT !.token = None] IN
  /\ lock = None
  /\ client # "absent" /\ Upset
  /\ \/ Save(cancelled) /\ client' = "absent" /\ queued' = "absent"
     \/ SaveRaises(revoked) /\ UNCHANGED <<client, queued>>
     \/ SaveRaises(cancelled) /\ UNCHANGED <<client, queued>>
  /\ UNCHANGED <<stored, req, lock, routes, device, keys, tokens, crashes, proven, keysOf>>

-----------------------------------------------------------------------------
(* Time, the queued registry, crashes.                                     *)

ExpireGrace ==
  /\ mem.previous # None
  /\ mem' = [mem EXCEPT !.previous = None]
  /\ disk' = [disk EXCEPT !.previous = IF @ = mem.previous THEN None ELSE @]
  /\ UNCHANGED <<registry, req, lock, routes, device, bounds, ghost>>

ExpireToken ==
  /\ mem.token # None
  /\ mem' = [mem EXCEPT !.token = None]
  /\ disk' = [disk EXCEPT !.token = IF @ = mem.token THEN None ELSE @]
  /\ UNCHANGED <<registry, req, lock, routes, device, bounds, ghost>>

FlushRegistry ==
  /\ stored # queued /\ stored' = queued
  /\ UNCHANGED <<server, client, queued, req, lock, routes, device, bounds, ghost>>

Crash ==
  /\ crashes < MaxCrashes /\ crashes' = crashes + 1
  /\ mem' = disk
  /\ client' = stored /\ queued' = stored
  /\ req' = [r \in Request |-> NoRequest] /\ lock' = None
  /\ checked' = FALSE /\ resetting' = FALSE
  /\ UNCHANGED <<disk, stored, device, keys, tokens, faults, ghost>>

-----------------------------------------------------------------------------
ServerStep(r) ==
  \/ EnterHandshake(r) \/ MatchKey(r) \/ Promote(r) \/ MarkVerified(r)
  \/ AcceptPrevious(r) \/ DecideHandoff(r) \/ HandOff(r)
  \/ VerifyToken(r) \/ ConsumeToken(r) \/ IssueClaimed(r)

Operator ==
  \/ StageHandoff
  \/ \E rotate \in BOOLEAN : IssueKey(rotate)
  \/ RevokeKeys(Key) \/ \E k \in Key : RevokeKeys({k})
  \/ BeginReset \/ EndReset
  \/ CheckProvision \/ Provision \/ ReEnroll \/ RemoveClient

Next ==
  \/ \E r \in Request, kind \in {"signed", "handshake"} : Send(r, kind)
  \/ \E r \in Request : ServerStep(r) \/ Receive(r) \/ Lose(r)
  \/ Operator
  \/ ExpireGrace \/ ExpireToken \/ FlushRegistry \/ Crash

Spec == Init /\ [][Next]_vars

\* The server serves what has reached it, the device gives up a request after a
\* while and keeps sending signed ones, and not every one or its answer is lost.
Fairness ==
  \A r \in Request :
    /\ WF_vars(ServerStep(r)) /\ SF_vars(Send(r, "signed"))
    /\ WF_vars(Lose(r)) /\ SF_vars(MatchKey(r)) /\ SF_vars(Receive(r))

FairSpec == Spec /\ Fairness

-----------------------------------------------------------------------------
(* Properties.                                                             *)

\* No more than two keys of a device are usable, before and after a restart: a
\* staged key never stands beside a previous one (kotibot_security.py:3616 "so
\* a third usable credential cannot linger").
AtMostTwoUsable ==
  \A s \in {mem, disk} : Cardinality(Usable(s)) <= 2

\* A hand-off counts as verified only when the device has signed with the key
\* that is now current, whatever was rotated while the request was checked.
VerifiedIsProven ==
  \A s \in {mem, disk} : s.verified => s.current \in proven

\* A one-time enrolment token releases one key, also across a crash between
\* its consumption and the issue.
OneKeyPerToken == \A t \in Token : Cardinality(keysOf[t]) <= 1

\* Unless an operator touches the keys or a write fails, the device can always
\* sign: staging, delivery, lost answers, promotion, expiry of the grace period
\* and restarts never leave it with a key that the server has forgotten.
DeviceKeepsAccess ==
  calm /\ held # None => held \in Usable(mem) \cap Usable(disk)

\* Two requests signed with one staged key both pass: the one that comes second
\* is refused only if an operator has intervened, or if another hand-off has
\* already put a newer key in its place (kotibot_security.py:3527 "instead of failing a
\* valid second request").
StagedProofAccepted ==
  \A r \in DOMAIN req :
    (At(r, "auth") /\ req[r].slot = "pending" /\ req'[r].pc = "idle"
     /\ crashes' = crashes)
    => ~calm' \/ req[r].key < mem.current

\* Together: what a device may present is bounded, was proven and was handed out
\* once, and no request with a staged key is refused because another one was
\* quicker (stage_device_key_handoffs, require_device_signature,
\* consume_device_enrollment).
CredentialsAreSafe ==
  /\ [](AtMostTwoUsable /\ VerifiedIsProven /\ OneKeyPerToken)
  /\ [][StagedProofAccepted]_vars

\* A staged key reaches the device and is promoted, although requests and
\* answers are lost and the server crashes now and then.
HandoffCompletes ==
  (mem.pending # None /\ IsCurrent(held) /\ calm) ~> (mem.pending = None \/ ~calm)

\* tests/devices/android/test_staged_device_key_handoff.py:135 signs with the
\* replaced key in its grace period and expects it to be accepted: a request
\* whose key is still usable when its check ends is not refused.
GraceKeyAccepted ==
  [][\A r \in Request :
       (At(r, "auth") /\ req'[r].pc = "idle" /\ crashes' = crashes /\ faults' = faults)
       => req[r].key \notin Usable(mem')]_vars
=============================================================================
