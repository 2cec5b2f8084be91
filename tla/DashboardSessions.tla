-------------------------- MODULE DashboardSessions --------------------------
(***************************************************************************)
(* Dashboard accounts and sessions in subsystems/security/                 *)
(* kotibot_security.py: login, key-client sessions, refresh, logout and    *)
(* revocation, and the two credential rotations that can be rolled back:   *)
(* of a user's password and of the secret that signs the cookies.          *)
(*                                                                         *)
(* A request checks its session, or a password, without the lock and acts  *)
(* on the result afterwards.  Sessions are numbered in order of creation.  *)
(* Expiry by time is left out: an expired session only disappears.         *)
(***************************************************************************)
EXTENDS Naturals, FiniteSets

CONSTANTS
  User, Password, Device, None,
  Request,     \* requests under way at once
  Legacy,      \* users whose stored password hash is of the old kind
  SessionLimit,\* MAX_SESSIONS_PER_USER
  MaxSessions, \* bound: sessions created
  MaxVersion,  \* bound: session versions of a user, secrets, device keys
  MaxAdds,     \* bound: users added at run time
  MaxFaults, MaxCrashes

VARIABLES
  mem,      \* SECURITY.state
  disk,     \* security_state.json
  cookie,   \* per session: the secret that signed the cookie in the browser
  req,
  made,     \* sessions created
  minted,   \* secrets made
  adds, faults, crashes,
  ended,    \* history: sessions that an acknowledged operation has ended
  promised, \* history: the password each user was last told to use
  before    \* history: the sessions that worked when the secret was replaced

counts == <<made, minted, adds, crashes>>
vars == <<mem, disk, cookie, req, counts, faults, ended, promised, before>>

Session == 1..MaxSessions
Version == 0..MaxVersion
Account == [pw : Password \cup {None}, ver : Version, legacy : BOOLEAN]
SessionRec == [who : User \cup {Device, None}, ver : Version]
Registry == [Session -> SessionRec]
State == [users : [User -> Account],
          recovery : [User -> [pw : Password \cup {None}, ver : Version]],
          secret : Version, sessions : Registry,
          retired : [secret : Version, sessions : Registry, kept : BOOLEAN],
          key : Version]        \* the current key of Device
RequestRec == [pc : {"idle", "upgrade", "verified", "created", "checked", "refreshed"},
               user : User \cup {None}, pw : Password \cup {None},
               session : Session \cup {0}]

TypeOK ==
  /\ mem \in State /\ disk \in State
  /\ cookie \in [Session -> Version]
  /\ req \in [Request -> RequestRec]
  /\ made \in 0..MaxSessions /\ minted \in Version
  /\ adds \in 0..MaxAdds /\ faults \in 0..MaxFaults /\ crashes \in 0..MaxCrashes
  /\ ended \subseteq 1..made
  /\ promised \in [User -> Password \cup {None}] /\ before \subseteq 1..made

NoAccount == [pw |-> None, ver |-> 0, legacy |-> FALSE]
NoSession == [who |-> None, ver |-> 0]
NoSessions == [i \in Session |-> NoSession]
NoRetired == [secret |-> 0, sessions |-> NoSessions, kept |-> FALSE]
Idle == [pc |-> "idle", user |-> None, pw |-> None, session |-> 0]

Init ==
  /\ \E p \in Password :
       LET s == [users |-> [u \in User |-> [pw |-> p, ver |-> 1, legacy |-> u \in Legacy]],
                 recovery |-> [u \in User |-> [pw |-> None, ver |-> 0]],
                 secret |-> 1, sessions |-> NoSessions, retired |-> NoRetired, key |-> 1]
       IN mem = s /\ disk = s /\ promised = [u \in User |-> p]
  /\ cookie = [i \in Session |-> 0]
  /\ req = [r \in Request |-> Idle]
  /\ made = 0 /\ minted = 1 /\ adds = 0 /\ faults = 0 /\ crashes = 0
  /\ ended = {} /\ before = {}

-----------------------------------------------------------------------------
(* Sessions.                                                               *)

Active(s) == {u \in User : s.users[u].pw # None}

\* The record is good: its user exists with this session version, or its device
\* key is still the current one.
Backed(s, rec) ==
  \/ rec.who \in Active(s) /\ rec.ver = s.users[rec.who].ver
  \/ rec.who = Device /\ rec.ver = s.key

\* _session_from_token, for the cookie a browser has.
Valid(s, i) ==
  /\ s.sessions[i] # NoSession /\ cookie[i] = s.secret
  /\ Backed(s, s.sessions[i])

Owned(sessions, w) == {i \in Session : sessions[i].who = w}
Without(sessions, S) == [i \in Session |-> IF i \in S THEN NoSession ELSE sessions[i]]
AllSessions(s) == {i \in Session : s.sessions[i] # NoSession}

\* _prune_sessions_unlocked.
Pruned(s) == Without(s.sessions, {i \in Session : ~Backed(s, s.sessions[i])})

\* The oldest sessions of the user make room for a new one.
Evicted(sessions, u) ==
  LET mine == Owned(sessions, u) IN
  Without(sessions, {i \in mine : Cardinality({j \in mine : j >= i}) >= SessionLimit})

At(r, pc) == req[r].pc = pc
Move(r, next) == req' = [req EXCEPT ![r] = next]

\* _save_state writes at once.  When it raises, the file may hold the new state
\* already, memory holds what the operation leaves there, and the request ends.
Commit(r, s, kept, next, over) ==
  \/ /\ mem' = s /\ disk' = s /\ UNCHANGED faults
     /\ ended' = ended \cup over
     /\ Move(r, next)
  \/ /\ faults < MaxFaults /\ faults' = faults + 1
     /\ mem' = kept /\ disk' \in {disk, s}
     /\ Move(r, Idle)
     /\ UNCHANGED ended

\* Operations that keep their change in memory, or that put it back.
Keep(r, s, over) == Commit(r, s, s, Idle, over)
Restore(r, s, over) == Commit(r, s, mem, Idle, over)

-----------------------------------------------------------------------------
(* Login, cookies, logout.                                                 *)

\* verify_dashboard_login; a hash of the old kind is replaced afterwards.
Verify(r, u) ==
  /\ At(r, "idle") /\ u \in Active(mem)
  /\ made + Cardinality({t \in Request : req[t].user # None}) < MaxSessions
  /\ Move(r, [Idle EXCEPT !.pc = IF mem.users[u].legacy THEN "upgrade" ELSE "verified",
                          !.user = u, !.pw = mem.users[u].pw])
  /\ UNCHANGED <<mem, disk, cookie, counts, faults, ended, promised, before>>

\* A wrong password or too many attempts.
RejectLogin(r) == At(r, "idle") /\ UNCHANGED vars

\* The hash of the proven password is stored without looking at the record again.
Upgrade(r) ==
  LET u == req[r].user
      s == [mem EXCEPT !.users[u].pw = req[r].pw, !.users[u].legacy = FALSE] IN
  /\ At(r, "upgrade")
  /\ Commit(r, IF u \in Active(mem) THEN s ELSE mem, IF u \in Active(mem) THEN s ELSE mem,
            [req[r] EXCEPT !.pc = "verified"], {})
  /\ UNCHANGED <<cookie, counts, promised, before>>

\* set_dashboard_cookie up to the save.
CreateSession(r) ==
  LET u == req[r].user
      i == made + 1
      room == Evicted(Pruned(mem), u)
      s == [mem EXCEPT !.sessions = [room EXCEPT ![i] = [who |-> u, ver |-> mem.users[u].ver]]]
  IN
  /\ At(r, "verified")
  /\ \/ /\ u \in Active(mem) /\ made' = i
        /\ Commit(r, s, s, [Idle EXCEPT !.pc = "created", !.session = i], {})
     \/ /\ u \notin Active(mem)
        /\ Move(r, Idle) /\ UNCHANGED <<mem, disk, made, faults, ended>>
  /\ UNCHANGED <<cookie, minted, adds, crashes, promised, before>>

\* set_key_client_dashboard_cookie: one session per device, for its current key.
CreateKeySession(r) ==
  LET i == made + 1
      room == Without(Pruned(mem), Owned(Pruned(mem), Device))
      s == [mem EXCEPT !.sessions = [room EXCEPT ![i] = [who |-> Device, ver |-> mem.key]]]
  IN
  /\ At(r, "idle") /\ made' = i
  /\ made + Cardinality({t \in Request : req[t].user # None}) < MaxSessions
  /\ Commit(r, s, s, [Idle EXCEPT !.pc = "created", !.session = i], {})
  /\ UNCHANGED <<cookie, minted, adds, crashes, promised, before>>

\* current_dashboard_session or require_dashboard: the request has a session now.
CheckSession(r, i) ==
  /\ At(r, "idle") /\ Valid(mem, i)
  /\ Move(r, [Idle EXCEPT !.pc = "checked", !.session = i])
  /\ UNCHANGED <<mem, disk, cookie, counts, faults, ended, promised, before>>

\* refresh_dashboard_cookie, up to the save.
Refresh(r) ==
  /\ At(r, "checked")
  /\ IF mem.sessions[req[r].session] # NoSession
     THEN Commit(r, mem, mem, [req[r] EXCEPT !.pc = "refreshed"], {})
     ELSE Move(r, Idle) /\ UNCHANGED <<mem, disk, faults, ended>>
  /\ UNCHANGED <<cookie, counts, promised, before>>

\* _session_signature is made after the lock is released.
Sign(r) ==
  /\ At(r, "created") \/ At(r, "refreshed")
  /\ cookie' = [cookie EXCEPT ![req[r].session] = mem.secret]
  /\ Move(r, Idle)
  /\ UNCHANGED <<mem, disk, counts, faults, ended, promised, before>>

\* revoke_current_dashboard_session.
Logout(r) ==
  LET i == req[r].session IN
  /\ At(r, "checked")
  /\ Keep(r, [mem EXCEPT !.sessions = Without(@, {i})],
          IF mem.sessions[i] # NoSession THEN {i} ELSE {})
  /\ UNCHANGED <<cookie, counts, promised, before>>

\* revoke_dashboard_session_ref and revoke_other_dashboard_sessions.
RevokeSessions(r, S) ==
  /\ At(r, "checked")
  /\ S # {}
  /\ Keep(r, [mem EXCEPT !.sessions = Without(@, S)], S)
  /\ UNCHANGED <<cookie, counts, promised, before>>

RevokeOne(r) == \E i \in AllSessions(mem) \ {req[r].session} : RevokeSessions(r, {i})
RevokeOthers(r) == RevokeSessions(r, AllSessions(mem) \ {req[r].session})

-----------------------------------------------------------------------------
(* The secret of the cookies.                                              *)

\* The sessions that work are replaced in memory, or already in the file.
Remember == before' = IF mem' = mem /\ disk' = disk THEN before ELSE {i \in Session : Valid(mem, i)}

\* A new secret; the old one is kept with its sessions.
RotateSecret(r) ==
  /\ At(r, "checked") /\ ~mem.retired.kept /\ minted < MaxVersion /\ minted' = minted + 1
  /\ Restore(r, [mem EXCEPT !.retired = [secret |-> mem.secret, sessions |-> mem.sessions,
                                         kept |-> TRUE],
                            !.secret = minted + 1, !.sessions = NoSessions], {})
  /\ Remember
  /\ UNCHANGED <<cookie, made, adds, crashes, promised>>

RollbackSecret(r) ==
  /\ At(r, "checked") /\ mem.retired.kept
  /\ Restore(r, [mem EXCEPT !.secret = mem.retired.secret,
                            !.sessions = mem.retired.sessions,
                            !.retired = NoRetired],
             AllSessions(mem))
  /\ UNCHANGED <<cookie, counts, promised, before>>

FinalizeSecret(r) ==
  /\ At(r, "checked") /\ mem.retired.kept /\ mem.retired.secret # mem.secret
  /\ Restore(r, [mem EXCEPT !.retired = NoRetired],
             {i \in Session : mem.retired.sessions[i] # NoSession})
  /\ UNCHANGED <<cookie, counts, promised, before>>

-----------------------------------------------------------------------------
(* Accounts and passwords.                                                 *)

\* Every session of a user, also one retired with an older secret.
SessionsOf(u) == Owned(mem.sessions, u) \cup Owned(mem.retired.sessions, u)
Tell(u, p) == promised' = IF mem' # mem THEN [promised EXCEPT ![u] = p] ELSE promised

RotatePassword(r, u, p) ==
  LET old == mem.users[u] IN
  /\ At(r, "checked") /\ u \in Active(mem)
  /\ mem.recovery[u].pw = None /\ p # old.pw /\ old.ver < MaxVersion
  /\ Restore(r, [mem EXCEPT !.recovery[u] = [pw |-> old.pw, ver |-> old.ver],
                            !.users[u] = [pw |-> p, ver |-> old.ver + 1, legacy |-> FALSE],
                            !.sessions = Without(@, Owned(@, u))],
             SessionsOf(u))
  /\ Tell(u, p)
  /\ UNCHANGED <<cookie, counts, before>>

\* Mutant: the session version goes back together with the password.
RollbackVersion(current, previous) == previous

\* A version that neither the current nor the retired password has had.
NextVersion(current, previous) == (IF current > previous THEN current ELSE previous) + 1

RollbackPassword(r, u) ==
  LET old == mem.recovery[u]
      next == NextVersion(mem.users[u].ver, old.ver) IN
  /\ At(r, "checked") /\ u \in Active(mem) /\ old.pw # None /\ next <= MaxVersion
  /\ Restore(r, [mem EXCEPT !.recovery[u] = [pw |-> None, ver |-> 0],
                            !.users[u] = [pw |-> old.pw, ver |-> next, legacy |-> FALSE],
                            !.sessions = Without(@, Owned(@, u))],
             SessionsOf(u))
  /\ Tell(u, old.pw)
  /\ UNCHANGED <<cookie, counts, before>>

FinalizePassword(r, u) ==
  /\ At(r, "checked") /\ u \in Active(mem)
  /\ mem.recovery[u].pw \notin {None, mem.users[u].pw}
  /\ Restore(r, [mem EXCEPT !.recovery[u] = [pw |-> None, ver |-> 0]], {})
  /\ UNCHANGED <<cookie, counts, promised, before>>

AddUser(r, u, p) ==
  /\ At(r, "checked") /\ u \notin Active(mem) /\ mem.recovery[u].pw = None
  /\ adds < MaxAdds /\ adds' = adds + 1
  /\ Keep(r, [mem EXCEPT !.users[u] = [pw |-> p, ver |-> 1, legacy |-> FALSE]], {})
  /\ Tell(u, p)
  /\ UNCHANGED <<cookie, made, minted, crashes, before>>

RemoveUser(r, u) ==
  /\ At(r, "checked") /\ u \in Active(mem) /\ Cardinality(Active(mem)) > 1
  /\ mem.recovery[u].pw = None
  /\ Keep(r, [mem EXCEPT !.users[u] = NoAccount, !.sessions = Without(@, Owned(@, u))],
          SessionsOf(u))
  /\ UNCHANGED <<cookie, counts, promised, before>>

\* The current key of the device is replaced (DeviceKeys).
ReplaceKey ==
  LET s == [mem EXCEPT !.key = @ + 1] IN
  /\ mem.key < MaxVersion
  /\ mem' = s /\ disk' = s
  /\ ended' = ended \cup Owned(mem.sessions, Device) \cup Owned(mem.retired.sessions, Device)
  /\ UNCHANGED <<cookie, req, counts, faults, promised, before>>

Crash ==
  /\ crashes < MaxCrashes /\ crashes' = crashes + 1
  /\ mem' = disk /\ req' = [r \in Request |-> Idle]
  /\ UNCHANGED <<disk, cookie, made, minted, adds, faults, ended, promised, before>>

-----------------------------------------------------------------------------
Admin(r) ==
  \/ RotateSecret(r) \/ RollbackSecret(r) \/ FinalizeSecret(r)
  \/ \E u \in User :
       \/ RollbackPassword(r, u) \/ FinalizePassword(r, u) \/ RemoveUser(r, u)
       \/ \E p \in Password : RotatePassword(r, u, p) \/ AddUser(r, u, p)

Next ==
  \/ \E r \in Request :
       \/ RejectLogin(r) \/ \E u \in User : Verify(r, u)
       \/ Upgrade(r) \/ CreateSession(r) \/ CreateKeySession(r)
       \/ \E i \in Session : CheckSession(r, i)
       \/ Refresh(r) \/ Sign(r) \/ Logout(r) \/ RevokeOne(r) \/ RevokeOthers(r)
       \/ Admin(r)
  \/ ReplaceKey \/ Crash

Spec == Init /\ [][Next]_vars

-----------------------------------------------------------------------------
(* Properties.                                                             *)

\* Somebody can always log in, now and after a restart
\* (kotibot_security.py:1749 "cannot remove the last dashboard user").
SomebodyCanLogIn == \A s \in {mem, disk} : Active(s) # {}

\* What has been ended stays ended: no logout, revocation, change of password or
\* key is undone by a rollback of the cookie secret, by a rollback of the
\* password, by a later save or by a restart, as long as no removed user is added again.
EndedStaysEnded == \A i \in ended, s \in {mem, disk} : ~Valid(s, i)

\* A user has at most MAX_SESSIONS_PER_USER sessions and a device one, also
\* among those that a rollback would bring back.
SessionsBounded ==
  \A s \in {mem, disk}, u \in User :
    /\ Cardinality(Owned(s.sessions, u)) <= SessionLimit
    /\ Cardinality(Owned(s.retired.sessions, u)) <= SessionLimit
    /\ Cardinality(Owned(s.sessions, Device)) <= 1

\* A rotation under way can be resolved: its user exists and has another
\* password, and the retired secret is not the current one; otherwise both
\* rollback and finalize would be refused for ever
\* (test_dashboard_user_password_rotation.py:589 "overwritten_or_orphaned").
RecoveryResolvable ==
  \A s \in {mem, disk} :
    /\ \A u \in User : s.recovery[u].pw # None => s.users[u].pw \notin {None, s.recovery[u].pw}
    /\ s.retired.kept => s.retired.secret # s.secret

\* Rolling the secret back, also by a restart after a rollback that could not be
\* saved, makes the cookies work again that did when it was replaced
\* (test_dashboard_session_credential_rotation.py:242 "restores_prior_sessions"),
\* except for sessions ended since, cookies that a request under way renewed with
\* the newer secret (Sign), and owners whose account or key is no longer the same.
Returns(i) ==
  \/ Valid(mem, i)' \/ cookie[i] = mem.secret \/ ~Backed(mem', mem.retired.sessions[i])
RollsBack == mem.retired.kept /\ ~mem'.retired.kept /\ mem'.secret # mem.secret
RollbackRestores == RollsBack => \A i \in before \ ended : Returns(i)

\* The same as that test has it, whatever was renewed meanwhile.
RollbackRestoresAll == RollsBack => \A i \in before \ ended : Valid(mem, i)'

\* After an acknowledged change of password the old one is refused
\* (test_dashboard_user_password_rotation.py:243 "_assert_login_fails").
OldPasswordFails ==
  \A u \in User : mem.users[u].pw \in {None, promised[u]}
=============================================================================
