---------------------------- MODULE SecurityProofs ----------------------------
(***************************************************************************)
(* Proofs about the security runtime. The credentials of a device, for any *)
(* number of requests, keys, tokens, failing writes and crashes: which     *)
(* keys are usable, which were proven, what a token releases, and whether  *)
(* a device keeps access. The accounts and sessions of the dashboard, for  *)
(* any users, passwords and limits. Both then in MCSpec.                   *)
(***************************************************************************)
EXTENDS MCSecurity, FiniteSetTheorems, WellFoundedInduction, TLAPS

-----------------------------------------------------------------------------
(* The inductive invariant.                                                *)

Named(s) == {s.current, s.previous, s.pending} \ {None}

\* A record, in memory or on disk, when the keys in P are proven, K says what
\* the tokens have released, and n tokens and m keys were made.
Sound(s, P, K, n, m) ==
  /\ s \in Record
  /\ s.active => s.current # None
  /\ s.pending = None \/ s.previous = None
  /\ s.verified => s.current \in P
  /\ Named(s) \subseteq 1 .. m
  /\ s.token # None => s.token <= n /\ K[s.token] = {}

RecordsInv ==
  /\ Sound(mem, proven, keysOf, tokens, keys)
  /\ Sound(disk, proven, keysOf, tokens, keys)

\* What a request relies on at each of its steps.
Fit(r, q, l, P, K, n, s, d) ==
  /\ q.pc \in {"claim", "consume", "issue"} => l = r
  /\ q.pc = "auth" => q.key \in P
  /\ q.pc \in {"consume", "issue"} => q.token \in Token /\ q.token <= n /\ K[q.token] = {}
  /\ q.pc = "issue" => s.token # q.token /\ d.token # q.token

RequestsInv ==
  \A r \in Request : Fit(r, req[r], lock, proven, keysOf, tokens, mem, disk)

\* What the past has left.
HistoryInv ==
  /\ proven \subseteq 1 .. keys
  /\ \A t \in Token : /\ keysOf[t] # {} => t <= tokens
                      /\ \E k \in Key \cup {None} : keysOf[t] \subseteq {k}

KeysInv == TypeOK /\ RecordsInv /\ RequestsInv /\ HistoryInv

-----------------------------------------------------------------------------
(* What the edits of a record leave.                                       *)

\* The past of a record may grow.
LEMMA SoundGrows ==
  ASSUME NEW s, NEW P, NEW Q, NEW K, NEW n \in Nat, NEW k \in Nat, NEW m \in Nat, NEW j \in Nat,
         Sound(s, P, K, n, m), P \subseteq Q, n <= k, m <= j
  PROVE  Sound(s, Q, K, k, j)
<1>1. s.token \in Token \cup {None} /\ \A t \in Token : t \in Nat
  BY DEF Sound, Record, Token
<1>2. Named(s) \subseteq 1 .. j
  BY DEF Sound
<1> QED  BY <1>1, <1>2 DEF Sound

\* issue_device_key.
LEMMA SoundIssued ==
  ASSUME NEW s, NEW P, NEW K, NEW n, NEW m \in Nat, Sound(s, P, K, n, m), m + 1 \in Key
  PROVE  Sound(Issued(s, m + 1), P, K, n, m + 1)
<1>1. /\ s \in Record
      /\ Issued(s, m + 1) = [s EXCEPT !.previous = IF s.active THEN s.current ELSE None,
                                      !.current = m + 1, !.active = TRUE,
                                      !.pending = None, !.verified = FALSE]
  BY DEF Sound, Issued
<1> DEFINE u == Issued(s, m + 1)
<1>2. /\ u \in Record
      /\ u.current = m + 1 /\ u.active /\ u.pending = None /\ ~u.verified /\ u.token = s.token
      /\ u.previous = IF s.active THEN s.current ELSE None
  BY <1>1 DEF Record
<1>3. m + 1 # None
  BY KeysAssumption
<1> HIDE DEF u
<1>4. Named(u) \subseteq 1 .. m + 1
  <2>1. Named(s) \subseteq 1 .. m
    BY DEF Sound
  <2>2. s.current = None \/ s.current \in 1 .. m
    BY <2>1 DEF Named
  <2> QED  BY <2>2, <1>2 DEF Named
<1>5. Sound(u, P, K, n, m + 1)
  BY <1>2, <1>3, <1>4 DEF Sound
<1> QED  BY <1>5 DEF u

\* _promote_staged_device_key, for a key that has signed.
LEMMA SoundPromoted ==
  ASSUME NEW s, NEW P \in SUBSET Key, NEW K, NEW n, NEW m, Sound(s, P, K, n, m), s.pending \in P
  PROVE  Sound(Promoted(s), P, K, n, m)
BY KeysAssumption DEF Sound, Promoted, Record, Named

\* revoke_device_key.
LEMMA SoundRevoked ==
  ASSUME NEW s, NEW P, NEW K, NEW n, NEW m, NEW X, Sound(s, P, K, n, m)
  PROVE  Sound(Revoked(s, X), P, K, n, m)
BY DEF Sound, Revoked, Record, Named

\* A key is staged where no other key than the current one is usable.
LEMMA SoundStaged ==
  ASSUME NEW s, NEW P, NEW K, NEW n, NEW m \in Nat, Sound(s, P, K, n, m), m + 1 \in Key,
         s.previous = None
  PROVE  Sound([s EXCEPT !.pending = m + 1], P, K, n, m + 1)
<1> DEFINE u == [s EXCEPT !.pending = m + 1]
<1>1. s \in Record
  BY DEF Sound
<1>2. /\ u \in Record /\ u.current = s.current /\ u.active = s.active /\ u.pending = m + 1
      /\ u.verified = s.verified /\ u.token = s.token /\ u.previous = None
  BY <1>1 DEF Record
<1> HIDE DEF u
<1>3. Named(u) \subseteq 1 .. m + 1
  <2>1. s.current = None \/ s.current \in 1 .. m
    BY DEF Named, Sound
  <2> QED  BY <2>1, <1>2 DEF Named
<1>4. Sound(u, P, K, n, m + 1)
  BY <1>2, <1>3 DEF Sound
<1> QED  BY <1>4 DEF u

\* The first signature with the current key.
LEMMA SoundMarked ==
  ASSUME NEW s, NEW P, NEW K, NEW n, NEW m, Sound(s, P, K, n, m), s.current \in P
  PROVE  Sound([s EXCEPT !.verified = TRUE], P, K, n, m)
BY DEF Sound, Record, Named

\* The end of the grace period.
LEMMA SoundExpired ==
  ASSUME NEW s, NEW P, NEW K, NEW n, NEW m, Sound(s, P, K, n, m)
  PROVE  Sound([s EXCEPT !.previous = None], P, K, n, m)
BY DEF Sound, Record, Named

\* A token is used, cancelled or has expired.
LEMMA SoundWithoutToken ==
  ASSUME NEW s, NEW P, NEW K, NEW n, NEW m, Sound(s, P, K, n, m)
  PROVE  Sound([s EXCEPT !.token = None], P, K, n, m)
BY DEF Sound, Record, Named

\* A new token has released nothing.
LEMMA SoundWithToken ==
  ASSUME NEW s, NEW P, NEW K, NEW n \in Nat, NEW m, Sound(s, P, K, n, m), n + 1 \in Token,
         K[n + 1] = {}
  PROVE  Sound([s EXCEPT !.token = n + 1], P, K, n + 1, m)
BY DEF Sound, Record, Named

-----------------------------------------------------------------------------
(* What the steps leave of the requests.                                   *)

\* The numbers of the state.
LEMMA Counts ==
  ASSUME TypeOK
  PROVE  /\ keys \in Nat /\ tokens \in Nat /\ keys <= MaxKeys /\ tokens <= MaxTokens
         /\ keysOf \in [Token -> SUBSET Key] /\ proven \in SUBSET Key
         /\ NewKey => keys' = keys + 1 /\ keys + 1 \in Key /\ keys' \in 0 .. MaxKeys
         /\ NewToken => tokens' = tokens + 1 /\ tokens + 1 \in Token /\ tokens' \in 0 .. MaxTokens
BY SMTT(30), KeysAssumption DEF TypeOK, NewKey, NewToken, Key, Token

\* The token of a record after a step.
TokenAfter(u, T) == u.token \in T \cup {None} \cup (tokens + 1 .. tokens')

\* A step of one request.
LEMMA OneRequestMoves ==
  ASSUME TypeOK, RequestsInv, NEW r \in Request, NEW n \in RequestRec, Move(r, n),
         \A q \in Request : q # r /\ lock = q => lock' = q,
         proven \subseteq proven', tokens' \in Nat, tokens <= tokens',
         keysOf' = keysOf \/ lock = r,
         TokenAfter(mem', {mem.token}), TokenAfter(disk', {mem.token, disk.token}),
         Fit(r, n, lock', proven', keysOf', tokens', mem', disk')
  PROVE  RequestsInv' /\ req' \in [Request -> RequestRec]
<1>1. req' = [req EXCEPT ![r] = n] /\ req \in [Request -> RequestRec]
  BY DEF Move, TypeOK
<1>2. SUFFICES ASSUME NEW q \in Request
               PROVE  Fit(q, req'[q], lock', proven', keysOf', tokens', mem', disk')
  BY <1>1 DEF RequestsInv
<1>3. CASE q = r
  BY <1>1, <1>3
<1>4. CASE q # r
  <2>1. req'[q] = req[q] /\ Fit(q, req[q], lock, proven, keysOf, tokens, mem, disk)
    BY <1>1, <1>4 DEF RequestsInv
  <2>2. tokens \in Nat /\ \A t \in Token : t \in Nat
    BY Counts DEF Token
  <2> QED  BY <1>4, <2>1, <2>2, KeysAssumption DEF Fit, TokenAfter
<1> QED  BY <1>3, <1>4

\* A step of somebody else.
LEMMA NoRequestMoves ==
  ASSUME TypeOK, RequestsInv, req' = req, lock' = lock, proven \subseteq proven',
         tokens' \in Nat, tokens <= tokens', keysOf' = keysOf,
         TokenAfter(mem', {mem.token}), TokenAfter(disk', {mem.token, disk.token})
  PROVE  RequestsInv'
<1> SUFFICES ASSUME NEW q \in Request
             PROVE  Fit(q, req[q], lock, proven', keysOf, tokens', mem', disk')
  BY DEF RequestsInv
<1>1. Fit(q, req[q], lock, proven, keysOf, tokens, mem, disk)
  BY DEF RequestsInv
<1>2. tokens \in Nat /\ \A t \in Token : t \in Nat
  BY Counts DEF Token
<1> QED  BY <1>1, <1>2, KeysAssumption DEF Fit, TokenAfter

\* A write that succeeds or raises leaves a sound record on disk, if it leaves
\* one in memory.
LEMMA WriteLeaves ==
  ASSUME KeysInv, NEW s, mem' = s, disk' \in {disk, s}, proven' = proven, keysOf' = keysOf,
         tokens' \in Nat, tokens <= tokens', keys' \in Nat, keys <= keys',
         Sound(s, proven, keysOf, tokens', keys')
  PROVE  RecordsInv' /\ HistoryInv' /\ mem' \in Record /\ disk' \in Record
         /\ (mem'.active => mem'.current # None)
<1>1. Sound(disk, proven, keysOf, tokens', keys')
  BY SoundGrows, Counts DEF KeysInv, RecordsInv
<1>2. RecordsInv'
  BY <1>1 DEF RecordsInv
<1>3. HistoryInv'
  BY Counts DEF KeysInv, HistoryInv, Token
<1> QED  BY <1>2, <1>3 DEF RecordsInv, Sound

\* What save does to memory, to the file and to the count of failing writes.
Wrote(s) == mem' = s /\ disk' \in {disk, s} /\ faults' \in 0 .. MaxFaults

LEMMA SavesWrite ==
  ASSUME TypeOK, NEW s, Save(s) \/ SaveRaises(s)
  PROVE  Wrote(s)
BY KeysAssumption DEF TypeOK, Save, SaveRaises, Wrote

LEMMA NoSaveWrites ==
  ASSUME TypeOK, NoSave
  PROVE  Wrote(mem)
BY DEF TypeOK, NoSave, Wrote

Lifecycle == {"absent", "unprovisioned", "provisioned"}

\* The types that a step which makes no key and no token keeps.
LEMMA SameCounts ==
  ASSUME TypeOK, UNCHANGED <<keys, tokens>>
  PROVE  /\ tokens' \in 0 .. MaxTokens /\ tokens <= tokens' /\ tokens' = tokens
         /\ keys' \in 0 .. MaxKeys /\ keys <= keys' /\ keys' = keys
<1>1. tokens \in Nat /\ keys \in Nat
  BY Counts
<1> QED  BY <1>1 DEF TypeOK

LEMMA SameStages ==
  ASSUME TypeOK
  PROVE  /\ client \in Lifecycle /\ queued \in Lifecycle /\ stored \in Lifecycle
         /\ Stays \/ Upset => calm' \in BOOLEAN
BY DEF TypeOK, Lifecycle, Stays, Upset

\* A step of a request that writes nothing.
LEMMA QuietStep ==
  ASSUME KeysInv, NEW r \in Request, NEW n \in RequestRec, Move(r, n),
         UNCHANGED <<mem, disk, client, queued, stored, checked, resetting,
                     keys, tokens, faults, crashes, keysOf, calm>>,
         held' \in Key \cup {None}, claim' \in Token \cup {None},
         lock' = lock \/ (lock = r /\ lock' = None),
         proven \subseteq proven', proven' \subseteq 1 .. keys,
         Fit(r, n, lock', proven', keysOf, tokens, mem, disk)
  PROVE  KeysInv'
<1> USE DEF KeysInv
<1>1. RequestsInv' /\ req' \in [Request -> RequestRec]
  <2>1. tokens' = tokens /\ tokens \in Nat /\ tokens <= tokens'
    BY Counts
  <2>2. TokenAfter(mem', {mem.token}) /\ TokenAfter(disk', {mem.token, disk.token})
    BY DEF TokenAfter
  <2> QED  BY <2>1, <2>2, OneRequestMoves
<1>2. RecordsInv'
  <2>1. /\ Sound(mem, proven', keysOf, tokens, keys)
        /\ Sound(disk, proven', keysOf, tokens, keys)
    <3>1. Sound(mem, proven, keysOf, tokens, keys) /\ Sound(disk, proven, keysOf, tokens, keys)
      BY DEF RecordsInv
    <3>2. keys \in Nat /\ tokens \in Nat /\ keys <= keys /\ tokens <= tokens
      BY Counts
    <3> QED  BY <3>1, <3>2, SoundGrows
  <2> QED  BY <2>1 DEF RecordsInv
<1>3. HistoryInv'
  BY DEF HistoryInv
<1>4. TypeOK'
  <2>1. proven' \in SUBSET Key
    BY Counts, KeysAssumption DEF Key
  <2> QED  BY <1>1, <2>1 DEF TypeOK
<1> QED  BY <1>1, <1>2, <1>3, <1>4

\* A step of a request that may write.
LEMMA WritingStep ==
  ASSUME KeysInv, NEW r \in Request, NEW n \in RequestRec, Move(r, n), NEW s, Wrote(s),
         Sound(s, proven, keysOf, tokens', keys'), TokenAfter(s, {mem.token}),
         tokens' \in 0 .. MaxTokens, tokens <= tokens',
         keys' \in 0 .. MaxKeys, keys <= keys',
         client' \in Lifecycle, queued' \in Lifecycle,
         calm' \in BOOLEAN,
         UNCHANGED <<stored, checked, resetting, held, claim, crashes, proven, keysOf>>,
         lock' \in Request \cup {None}, \A q \in Request : q # r /\ lock = q => lock' = q,
         Fit(r, n, lock', proven, keysOf, tokens', s, disk')
  PROVE  KeysInv'
<1> USE DEF KeysInv
<1>1. mem' = s /\ disk' \in {disk, s} /\ faults' \in 0 .. MaxFaults
  BY DEF Wrote
<1>2. tokens' \in Nat /\ keys' \in Nat
  BY KeysAssumption
<1>3. RequestsInv' /\ req' \in [Request -> RequestRec]
  <2>1. TokenAfter(mem', {mem.token}) /\ TokenAfter(disk', {mem.token, disk.token})
    BY <1>1 DEF TokenAfter
  <2> QED  BY <1>1, <1>2, <2>1, OneRequestMoves
<1>4. RecordsInv' /\ HistoryInv' /\ mem' \in Record /\ disk' \in Record
      /\ (mem'.active => mem'.current # None)
  BY <1>1, <1>2, WriteLeaves
<1>5. TypeOK'
  BY <1>1, <1>3, <1>4 DEF TypeOK, Lifecycle
<1> QED  BY <1>3, <1>4, <1>5

\* A step of somebody else that may write.
LEMMA OperatorStep ==
  ASSUME KeysInv, req' = req, lock' = lock, NEW s, Wrote(s),
         Sound(s, proven, keysOf, tokens', keys'), TokenAfter(s, {mem.token}),
         tokens' \in 0 .. MaxTokens, tokens <= tokens',
         keys' \in 0 .. MaxKeys, keys <= keys',
         client' \in Lifecycle, queued' \in Lifecycle, stored' \in Lifecycle,
         calm' \in BOOLEAN, checked' \in BOOLEAN, resetting' \in BOOLEAN,
         held' \in Key \cup {None}, claim' \in Token \cup {None},
         UNCHANGED <<crashes, proven, keysOf>>
  PROVE  KeysInv'
<1> USE DEF KeysInv
<1>1. mem' = s /\ disk' \in {disk, s} /\ faults' \in 0 .. MaxFaults
  BY DEF Wrote
<1>2. tokens' \in Nat /\ keys' \in Nat
  BY KeysAssumption
<1>3. RequestsInv'
  <2>1. TokenAfter(mem', {mem.token}) /\ TokenAfter(disk', {mem.token, disk.token})
    BY <1>1 DEF TokenAfter
  <2> QED  BY <1>1, <1>2, <2>1, NoRequestMoves
<1>4. RecordsInv' /\ HistoryInv' /\ mem' \in Record /\ disk' \in Record
      /\ (mem'.active => mem'.current # None)
  BY <1>1, <1>2, WriteLeaves
<1>5. TypeOK'
  BY <1>1, <1>4 DEF TypeOK, Lifecycle
<1> QED  BY <1>3, <1>4, <1>5

-----------------------------------------------------------------------------
(* The steps of a request.                                                 *)

\* What is known of a request before its step, and what ends it.
LEMMA AtStep ==
  ASSUME KeysInv, NEW r \in Request
  PROVE  /\ req[r] \in RequestRec /\ NoRequest \in RequestRec
         /\ Fit(r, req[r], lock, proven, keysOf, tokens, mem, disk)
         /\ \A l, P, K, n, s, d : Fit(r, NoRequest, l, P, K, n, s, d)
         /\ \A pc \in {"idle", "sent", "matching", "auth", "accepted", "eligible",
                       "claim", "consume", "issue", "reply"} :
              [req[r] EXCEPT !.pc = pc] \in RequestRec
         /\ Release(r) => lock' = lock \/ (lock = r /\ lock' = None)
<1>1. req[r] \in RequestRec
  BY DEF KeysInv, TypeOK
<1> QED  BY <1>1 DEF KeysInv, RequestsInv, RequestRec, NoRequest, Fit, Release

LEMMA SendInv ==
  ASSUME KeysInv, NEW r \in Request, NEW kind \in {"signed", "handshake"}, Send(r, kind)
  PROVE  KeysInv'
<1> DEFINE n == [NoRequest EXCEPT !.pc = "sent", !.kind = kind, !.key = held, !.token = claim]
<1>1. n \in RequestRec /\ n.pc = "sent"
  BY DEF KeysInv, TypeOK, RequestRec, NoRequest
<1>2. Fit(r, n, lock, proven, keysOf, tokens, mem, disk)
  BY <1>1 DEF Fit
<1>3. Move(r, n) /\ UNCHANGED <<server, registry, lock, routes, device, bounds, ghost>>
  BY DEF Send
<1> HIDE DEF n
<1> QED  BY <1>1, <1>2, <1>3, QuietStep
         DEF KeysInv, TypeOK, HistoryInv, server, registry, routes, device, bounds, ghost

LEMMA MatchKeyInv ==
  ASSUME KeysInv, NEW r \in Request, MatchKey(r)
  PROVE  KeysInv'
<1>1. UNCHANGED <<server, registry, routes, device, bounds, keysOf, calm>>
  BY DEF MatchKey
<1> USE <1>1, AtStep DEF server, registry, routes, device, bounds
<1>2. held \in Key \cup {None} /\ claim \in Token \cup {None} /\ proven \subseteq 1 .. keys
  BY DEF KeysInv, TypeOK, HistoryInv
<1>3. CASE req[r].key \in Usable(mem)
  <2> DEFINE n == [req[r] EXCEPT !.pc = "auth", !.slot = Slot(req[r].key)]
  <2>1. Move(r, n) /\ proven' = proven \cup {req[r].key} /\ lock' = lock
    BY <1>3 DEF MatchKey
  <2>2. n \in RequestRec /\ n.pc = "auth" /\ n.key = req[r].key
    <3>1. Slot(req[r].key) \in {"current", "previous", "pending", "none"}
      BY DEF Slot
    <3>2. req[r] \in RequestRec
      OBVIOUS
    <3> QED  BY ONLY <3>1, <3>2 DEF RequestRec
  <2>3. req[r].key \in 1 .. keys
    BY <1>3 DEF KeysInv, RecordsInv, Sound, Usable, Named
  <2>4. Fit(r, n, lock', proven', keysOf, tokens, mem, disk)
    BY <2>1, <2>2 DEF Fit
  <2> HIDE DEF n
  <2> QED  BY <1>2, <2>1, <2>2, <2>3, <2>4, QuietStep
<1>4. CASE req[r].key \notin Usable(mem)
  <2>1. Move(r, NoRequest) /\ Release(r) /\ proven' = proven
    BY <1>4 DEF MatchKey, End
  <2> QED  BY <1>2, <2>1, QuietStep
<1> QED  BY <1>3, <1>4

LEMMA AcceptPreviousInv ==
  ASSUME KeysInv, NEW r \in Request, AcceptPrevious(r)
  PROVE  KeysInv'
<1>0. req[r] \in RequestRec
  BY AtStep
<1> DEFINE n == [req[r] EXCEPT !.pc = "accepted"]
<1>1. n \in RequestRec /\ n.pc = "accepted"
  BY <1>0 DEF RequestRec
<1>2. Fit(r, n, lock, proven, keysOf, tokens, mem, disk)
  BY <1>1 DEF Fit
<1>3. Move(r, n) /\ UNCHANGED <<server, registry, lock, routes, device, bounds, ghost>>
  BY DEF AcceptPrevious, Goto
<1> HIDE DEF n
<1> QED  BY <1>1, <1>2, <1>3, QuietStep
         DEF KeysInv, TypeOK, HistoryInv, server, registry, routes, device, bounds, ghost

LEMMA DecideHandoffInv ==
  ASSUME KeysInv, NEW r \in Request, DecideHandoff(r)
  PROVE  KeysInv'
<1>0. req[r] \in RequestRec
  BY AtStep
<1>1. PICK pc \in {"eligible", "reply"} : Move(r, [req[r] EXCEPT !.pc = pc])
  BY DEF DecideHandoff, Goto
<1> DEFINE n == [req[r] EXCEPT !.pc = pc]
<1>2. n \in RequestRec /\ n.pc = pc
  BY <1>0 DEF RequestRec
<1>3. lock' = lock \/ (lock = r /\ lock' = None)
  BY DEF DecideHandoff, Release
<1>4. Fit(r, n, lock', proven, keysOf, tokens, mem, disk)
  BY <1>2 DEF Fit
<1>5. UNCHANGED <<server, registry, routes, device, bounds, ghost>>
  BY DEF DecideHandoff
<1>6. Move(r, n)
  BY <1>1
<1> HIDE DEF n
<1> QED  BY <1>2, <1>3, <1>4, <1>5, <1>6, QuietStep
         DEF KeysInv, TypeOK, HistoryInv, server, registry, routes, device, bounds, ghost

LEMMA HandOffInv ==
  ASSUME KeysInv, NEW r \in Request, HandOff(r)
  PROVE  KeysInv'
<1>0. req[r] \in RequestRec
  BY AtStep
<1> DEFINE n == [req[r] EXCEPT !.pc = "reply",
                               !.newKey = IF mem.active THEN mem.pending ELSE None]
<1>1. mem.pending \in Key \cup {None}
  BY DEF KeysInv, TypeOK, Record
<1>2. n \in RequestRec /\ n.pc = "reply"
  <2> DEFINE k == IF mem.active THEN mem.pending ELSE None
  <2>1. k \in Key \cup {None}
    BY <1>1
  <2> HIDE DEF k
  <2>2. [req[r] EXCEPT !.pc = "reply", !.newKey = k] \in RequestRec
        /\ [req[r] EXCEPT !.pc = "reply", !.newKey = k].pc = "reply"
    BY <1>0, <2>1 DEF RequestRec
  <2> QED  BY <2>2 DEF k
<1>3. lock' = lock \/ (lock = r /\ lock' = None)
  BY DEF HandOff, Release
<1>4. Fit(r, n, lock', proven, keysOf, tokens, mem, disk)
  BY <1>2 DEF Fit
<1>5. Move(r, n) /\ UNCHANGED <<server, registry, routes, device, bounds, ghost>>
  BY DEF HandOff
<1> HIDE DEF n
<1> QED  BY <1>2, <1>3, <1>4, <1>5, QuietStep
         DEF KeysInv, TypeOK, HistoryInv, server, registry, routes, device, bounds, ghost

LEMMA VerifyTokenInv ==
  ASSUME KeysInv, NEW r \in Request, VerifyToken(r)
  PROVE  KeysInv'
<1>0. req[r] \in RequestRec
  BY AtStep
<1>1. /\ UNCHANGED <<mem, disk, client, queued, stored, checked, resetting, held, claim,
                     keys, tokens, faults, crashes, proven, keysOf, calm>>
      /\ held \in Key \cup {None} /\ claim \in Token \cup {None} /\ proven \subseteq 1 .. keys
  BY DEF VerifyToken, KeysInv, TypeOK, HistoryInv, server, registry, routes, device, bounds, ghost
<1>2. CASE req[r].token # None /\ req[r].token = mem.token
  <2> DEFINE n == [req[r] EXCEPT !.pc = "consume"]
  <2>1. Move(r, n) /\ lock' = lock /\ req[r].pc = "claim"
    BY <1>2 DEF VerifyToken, Goto, At
  <2>2. n \in RequestRec /\ n.pc = "consume" /\ n.token = req[r].token
    BY <1>0 DEF RequestRec
  <2>3. lock = r
    BY <2>1, AtStep DEF Fit
  <2>4. mem.token \in Token /\ mem.token <= tokens /\ keysOf[mem.token] = {}
    BY <1>2 DEF KeysInv, RecordsInv, Sound, Record
  <2>5. Fit(r, n, lock', proven, keysOf, tokens, mem, disk)
    BY <1>2, <2>1, <2>2, <2>3, <2>4 DEF Fit
  <2> HIDE DEF n
  <2> QED  BY <1>1, <2>1, <2>2, <2>5, QuietStep
<1>3. CASE ~(req[r].token # None /\ req[r].token = mem.token)
  <2>1. Move(r, NoRequest) /\ Release(r)
    BY <1>3 DEF VerifyToken, End
  <2> QED  BY <1>1, <2>1, AtStep, QuietStep
<1> QED  BY <1>2, <1>3

LEMMA ReceiveInv ==
  ASSUME KeysInv, NEW r \in Request, Receive(r)
  PROVE  KeysInv'
<1>1. req[r] \in RequestRec
  BY AtStep
<1>2. held' \in Key \cup {None} /\ claim' \in Token \cup {None}
  BY <1>1 DEF Receive, RequestRec, KeysInv, TypeOK
<1>3. Move(r, NoRequest) /\ UNCHANGED <<server, registry, lock, routes, bounds, ghost>>
  BY DEF Receive
<1> QED  BY <1>2, <1>3, AtStep, QuietStep
         DEF KeysInv, HistoryInv, server, registry, routes, bounds, ghost

LEMMA LoseInv ==
  ASSUME KeysInv, NEW r \in Request, Lose(r)
  PROVE  KeysInv'
<1>1. Move(r, NoRequest) /\ UNCHANGED <<server, registry, lock, routes, device, bounds, ghost>>
  BY DEF Lose
<1> QED  BY <1>1, AtStep, QuietStep
         DEF KeysInv, TypeOK, HistoryInv, server, registry, routes, device, bounds, ghost

\* A check that ends, or goes on with a record that stays sound.
LEMMA CheckStep ==
  ASSUME KeysInv, NEW r \in Request, NEW s, Wrote(s), Sound(s, proven, keysOf, tokens, keys),
         s.token = mem.token, End(r) \/ (Goto(r, "accepted") /\ UNCHANGED lock),
         Stays \/ Upset,
         UNCHANGED <<registry, routes, device, keys, tokens, crashes, proven, keysOf>>
  PROVE  KeysInv'
<1>1. /\ tokens' \in 0 .. MaxTokens /\ tokens <= tokens' /\ keys' \in 0 .. MaxKeys /\ keys <= keys'
      /\ tokens' = tokens /\ keys' = keys
      /\ client' \in Lifecycle /\ queued' \in Lifecycle /\ calm' \in BOOLEAN
      /\ TokenAfter(s, {mem.token})
      /\ UNCHANGED <<stored, checked, resetting, held, claim, crashes, proven, keysOf>>
  <2>1. TypeOK
    BY DEF KeysInv
  <2>2. UNCHANGED <<client, queued, stored, checked, resetting, held, claim>>
    BY DEF registry, routes, device
  <2> QED  BY <2>1, <2>2, SameCounts, SameStages DEF TokenAfter
<1>2. req[r] \in RequestRec /\ NoRequest \in RequestRec
  BY AtStep
<1>3. CASE End(r)
  <2>1. Move(r, NoRequest) /\ Release(r)
    BY <1>3 DEF End
  <2>2. /\ lock' \in Request \cup {None}
        /\ \A q \in Request : q # r /\ lock = q => lock' = q
    BY <2>1 DEF Release, KeysInv, TypeOK
  <2>3. Fit(r, NoRequest, lock', proven, keysOf, tokens', s, disk')
    BY AtStep
  <2> QED  BY <1>1, <1>2, <2>1, <2>2, <2>3, WritingStep
<1>4. CASE Goto(r, "accepted") /\ UNCHANGED lock
  <2> DEFINE n == [req[r] EXCEPT !.pc = "accepted"]
  <2>1. n \in RequestRec /\ n.pc = "accepted"
    BY <1>2 DEF RequestRec
  <2>2. Move(r, n) /\ lock' = lock /\ lock \in Request \cup {None}
    BY <1>4 DEF Goto, KeysInv, TypeOK
  <2>3. Fit(r, n, lock', proven, keysOf, tokens', s, disk')
    BY <2>1 DEF Fit
  <2> HIDE DEF n
  <2> QED  BY <1>1, <2>1, <2>2, <2>3, WritingStep
<1> QED  BY <1>3, <1>4

LEMMA PromoteInv ==
  ASSUME KeysInv, NEW r \in Request, Promote(r)
  PROVE  KeysInv'
<1>1. Sound(mem, proven, keysOf, tokens, keys) /\ req[r].key \in proven /\ proven \in SUBSET Key
  BY AtStep DEF KeysInv, RecordsInv, TypeOK, Promote, At, Fit
<1>2. UNCHANGED <<registry, routes, device, keys, tokens, crashes, proven, keysOf>>
  BY DEF Promote
<1>3. TypeOK
  BY DEF KeysInv
<1>4. CASE NoSave /\ Stays /\ (End(r) \/ (Goto(r, "accepted") /\ UNCHANGED lock))
  BY <1>1, <1>2, <1>3, <1>4, NoSaveWrites, CheckStep
<1>5. CASE /\ req[r].key = mem.pending
           /\ \/ Save(Promoted(mem)) /\ Goto(r, "accepted") /\ Stays /\ UNCHANGED lock
              \/ SaveRaises(Promoted(mem)) /\ End(r) /\ Upset
  <2>1. Sound(Promoted(mem), proven, keysOf, tokens, keys)
    BY <1>1, <1>5, SoundPromoted
  <2>2. Promoted(mem).token = mem.token
    BY <1>1 DEF Promoted, Sound, Record
  <2>3. Wrote(Promoted(mem))
    BY <1>3, <1>5, SavesWrite
  <2> QED  BY <1>2, <1>5, <2>1, <2>2, <2>3, CheckStep
<1> QED  BY <1>4, <1>5 DEF Promote

LEMMA MarkVerifiedInv ==
  ASSUME KeysInv, NEW r \in Request, MarkVerified(r)
  PROVE  KeysInv'
<1> DEFINE marked == [mem EXCEPT !.verified = TRUE]
<1>1. Sound(mem, proven, keysOf, tokens, keys) /\ req[r].key \in proven
  BY AtStep DEF KeysInv, RecordsInv, TypeOK, MarkVerified, At, Fit
<1>2. UNCHANGED <<registry, routes, device, keys, tokens, crashes, proven, keysOf>>
  BY DEF MarkVerified
<1>3. TypeOK
  BY DEF KeysInv
<1>4. CASE NoSave /\ Stays /\ (End(r) \/ (Goto(r, "accepted") /\ UNCHANGED lock))
  BY <1>1, <1>2, <1>3, <1>4, NoSaveWrites, CheckStep
<1>5. CASE /\ IsCurrent(req[r].key)
           /\ \/ Save(marked) /\ Goto(r, "accepted") /\ Stays /\ UNCHANGED lock
              \/ SaveRaises(marked) /\ End(r) /\ Upset
  <2>1. Sound(marked, proven, keysOf, tokens, keys)
    BY <1>1, <1>5, SoundMarked DEF IsCurrent
  <2>2. marked.token = mem.token
    BY <1>1 DEF Sound, Record
  <2> HIDE DEF marked
  <2>3. Wrote(marked)
    BY <1>3, <1>5, SavesWrite
  <2> QED  BY <1>2, <1>5, <2>1, <2>2, <2>3, CheckStep
<1> QED  BY <1>4, <1>5 DEF MarkVerified

LEMMA ConsumeTokenInv ==
  ASSUME KeysInv, NEW r \in Request, ConsumeToken(r)
  PROVE  KeysInv'
<1> DEFINE used == [mem EXCEPT !.token = None]
<1>1. /\ req[r] \in RequestRec /\ NoRequest \in RequestRec
      /\ Fit(r, req[r], lock, proven, keysOf, tokens, mem, disk)
      /\ req[r].pc = "consume"
  BY AtStep DEF ConsumeToken, At
<1>2. /\ used.token = None /\ Sound(used, proven, keysOf, tokens, keys)
      /\ TokenAfter(used, {mem.token})
  <2>1. Sound(mem, proven, keysOf, tokens, keys)
    BY DEF KeysInv, RecordsInv
  <2> QED  BY <2>1, SoundWithoutToken DEF TokenAfter, Sound, Record
<1>3. Save(used) \/ SaveRaises(used)
  BY DEF ConsumeToken
<1>4. \/ Save(used) /\ Goto(r, "issue") /\ UNCHANGED lock
      \/ End(r)
  BY DEF ConsumeToken
<1>5. /\ tokens' \in 0 .. MaxTokens /\ tokens <= tokens' /\ keys' \in 0 .. MaxKeys /\ keys <= keys'
      /\ tokens' = tokens /\ keys' = keys
      /\ client' \in Lifecycle /\ queued' \in Lifecycle /\ calm' \in BOOLEAN
      /\ UNCHANGED <<stored, checked, resetting, held, claim, crashes, proven, keysOf>>
  <2>1. TypeOK
    BY DEF KeysInv
  <2>2. /\ UNCHANGED <<client, queued, stored, checked, resetting, held, claim, crashes,
                       keys, tokens, proven, keysOf>>
        /\ Stays \/ Upset
    BY DEF ConsumeToken, registry, routes, device
  <2> QED  BY <2>1, <2>2, SameCounts, SameStages
<1> HIDE DEF used
<1>6. Wrote(used)
  BY <1>3, SavesWrite DEF KeysInv
<1>7. CASE Save(used) /\ Goto(r, "issue") /\ UNCHANGED lock
  <2> DEFINE n == [req[r] EXCEPT !.pc = "issue"]
  <2>1. n \in RequestRec /\ n.pc = "issue" /\ n.token = req[r].token
    BY <1>1 DEF RequestRec
  <2>2. Move(r, n) /\ lock' = lock /\ lock \in Request \cup {None} /\ disk' = used
    BY <1>7 DEF Goto, KeysInv, TypeOK, Save
  <2>3. Fit(r, n, lock', proven, keysOf, tokens', used, disk')
    BY <1>1, <1>2, <1>5, <2>1, <2>2, KeysAssumption DEF Fit
  <2> HIDE DEF n
  <2> QED  BY <1>2, <1>5, <1>6, <2>1, <2>2, <2>3, WritingStep
<1>8. CASE End(r)
  <2>1. Move(r, NoRequest) /\ Release(r)
    BY <1>8 DEF End
  <2>2. /\ lock' \in Request \cup {None}
        /\ \A q \in Request : q # r /\ lock = q => lock' = q
    BY <2>1 DEF Release, KeysInv, TypeOK
  <2>3. Fit(r, NoRequest, lock', proven, keysOf, tokens', used, disk')
    BY AtStep
  <2> QED  BY <1>1, <1>2, <1>5, <1>6, <2>1, <2>2, <2>3, WritingStep
<1> QED  BY <1>4, <1>7, <1>8

LEMMA EnterHandshakeInv ==
  ASSUME KeysInv, NEW r \in Request, EnterHandshake(r)
  PROVE  KeysInv'
<1> DEFINE enrolled == [mem EXCEPT !.token = tokens']
<1>1. /\ req[r] \in RequestRec /\ NoRequest \in RequestRec /\ req[r].pc = "sent" /\ lock = None
      /\ Sound(mem, proven, keysOf, tokens, keys) /\ TypeOK
  BY AtStep DEF EnterHandshake, At, KeysInv, RecordsInv
<1>2. /\ keys' = keys /\ keys \in 0 .. MaxKeys /\ keys <= keys' /\ tokens \in 0 .. MaxTokens
      /\ tokens <= tokens /\ tokens \in Nat
      /\ UNCHANGED <<stored, checked, resetting, held, claim, crashes, proven, keysOf>>
      /\ calm' \in BOOLEAN
      /\ client' \in Lifecycle /\ queued' \in Lifecycle
      /\ lock' \in {None, r} /\ \A q \in Request : q # r /\ lock = q => lock' = q
  <2>1. tokens \in Nat /\ keys \in Nat /\ keys' = keys
    BY <1>1, Counts DEF EnterHandshake
  <2>2. tokens \in 0 .. MaxTokens /\ keys \in 0 .. MaxKeys
    BY <1>1 DEF TypeOK
  <2>3. UNCHANGED <<stored, checked, resetting, held, claim, crashes, proven, keysOf>>
    BY DEF EnterHandshake, routes, device
  <2>4. (Stays \/ Upset) /\ client' \in Lifecycle /\ queued' \in Lifecycle
    BY <1>1, SameStages DEF EnterHandshake, Lifecycle
  <2>5. lock' \in {None, r}
    BY <1>1 DEF EnterHandshake
  <2> QED  BY <1>1, <2>1, <2>2, <2>3, <2>4, <2>5, SameStages, KeysAssumption
<1>3. CASE \E pc \in {"matching", "claim"}, fresh \in BOOLEAN :
             /\ Move(r, [req[r] EXCEPT !.pc = pc, !.fresh = fresh])
             /\ lock' = r /\ NoSave /\ UNCHANGED tokens
  <2>1. PICK pc \in {"matching", "claim"}, fresh \in BOOLEAN :
             /\ Move(r, [req[r] EXCEPT !.pc = pc, !.fresh = fresh])
             /\ lock' = r /\ NoSave /\ UNCHANGED tokens
    BY <1>3
  <2> DEFINE n == [req[r] EXCEPT !.pc = pc, !.fresh = fresh]
  <2>2. n \in RequestRec /\ n.pc = pc
    BY <1>1 DEF RequestRec
  <2>3. Move(r, n)
    BY <2>1
  <2> HIDE DEF n
  <2>4. Wrote(mem) /\ TokenAfter(mem, {mem.token})
    BY <1>1, <2>1, NoSaveWrites DEF TokenAfter
  <2>5. Fit(r, n, lock', proven, keysOf, tokens', mem, disk')
    BY <2>1, <2>2 DEF Fit
  <2> QED  BY <1>1, <1>2, <2>1, <2>2, <2>3, <2>4, <2>5, WritingStep
<1>4. CASE Goto(r, "reply") /\ NoSave /\ UNCHANGED tokens
  <2> DEFINE n == [req[r] EXCEPT !.pc = "reply"]
  <2>1. n \in RequestRec /\ n.pc = "reply"
    BY <1>1 DEF RequestRec
  <2>2. Move(r, n) /\ Wrote(mem) /\ TokenAfter(mem, {mem.token})
    BY <1>1, <1>4, NoSaveWrites DEF Goto, TokenAfter
  <2>3. Fit(r, n, lock', proven, keysOf, tokens', mem, disk')
    BY <2>1 DEF Fit
  <2> HIDE DEF n
  <2> QED  BY <1>1, <1>2, <1>4, <2>1, <2>2, <2>3, WritingStep
<1>5. CASE /\ NewToken /\ (Save(enrolled) \/ SaveRaises(enrolled))
           /\ \/ Move(r, [req[r] EXCEPT !.pc = "reply", !.newToken = tokens'])
              \/ Move(r, NoRequest)
  <2>1. tokens' = tokens + 1 /\ tokens + 1 \in Token /\ tokens' \in 0 .. MaxTokens
    BY <1>1, <1>5, Counts
  <2>2. tokens <= tokens' /\ keysOf[tokens + 1] = {}
    BY <1>2, <2>1 DEF KeysInv, HistoryInv
  <2>3. Sound(enrolled, proven, keysOf, tokens', keys) /\ TokenAfter(enrolled, {mem.token})
    <3>1. Sound([mem EXCEPT !.token = tokens + 1], proven, keysOf, tokens + 1, keys)
      BY <1>1, <1>2, <2>1, <2>2, SoundWithToken
    <3>2. enrolled.token = tokens'
      BY <1>1 DEF Sound, Record
    <3> QED  BY <1>2, <2>1, <3>1, <3>2 DEF TokenAfter
  <2> HIDE DEF enrolled
  <2>4. Wrote(enrolled)
    BY <1>1, <1>5, SavesWrite
  <2>5. PICK n \in RequestRec : Move(r, n) /\ n.pc \in {"reply", "idle"}
    <3> DEFINE m == [req[r] EXCEPT !.pc = "reply", !.newToken = tokens']
    <3>1. m \in RequestRec /\ m.pc = "reply"
      BY <1>1, <2>1 DEF RequestRec
    <3>2. NoRequest.pc = "idle"
      BY DEF NoRequest
    <3> QED  BY <1>1, <1>5, <3>1, <3>2
  <2>6. Fit(r, n, lock', proven, keysOf, tokens', enrolled, disk')
    BY <2>5 DEF Fit
  <2> QED  BY <1>1, <1>2, <2>1, <2>2, <2>3, <2>4, <2>5, <2>6, WritingStep
<1> QED  BY <1>3, <1>4, <1>5 DEF EnterHandshake, HasKey, IsCurrent

\* The key that a token releases is its first.
LEMMA IssueClaimedInv ==
  ASSUME KeysInv, NEW r \in Request, IssueClaimed(r)
  PROVE  KeysInv'
<1> DEFINE s == Issued(mem, keys + 1)
<1> DEFINE tok == req[r].token
<1>1. /\ req[r] \in RequestRec /\ NoRequest \in RequestRec /\ req[r].pc = "issue" /\ TypeOK
      /\ Fit(r, req[r], lock, proven, keysOf, tokens, mem, disk)
  BY AtStep DEF IssueClaimed, At, KeysInv
<1>2. /\ lock = r /\ tok \in Token /\ tok <= tokens /\ keysOf[tok] = {}
      /\ mem.token # tok /\ disk.token # tok
  BY <1>1 DEF Fit
<1>3. keys' = keys + 1 /\ keys + 1 \in Key /\ keys' \in 0 .. MaxKeys /\ keys \in Nat
      /\ tokens \in Nat /\ keysOf \in [Token -> SUBSET Key] /\ proven \in SUBSET Key
  BY <1>1, Counts DEF IssueClaimed
<1>4. keysOf' = [keysOf EXCEPT ![tok] = @ \cup {keys'}]
  BY DEF IssueClaimed
<1>5. keysOf'[tok] = {keys'} /\ keysOf' \in [Token -> SUBSET Key]
      /\ \A t \in Token : t # tok => keysOf'[t] = keysOf[t]
  BY <1>2, <1>3, <1>4
<1>6. UNCHANGED <<client, queued, stored, checked, resetting, held, claim, tokens, crashes, proven>>
      /\ (Stays \/ Upset)
  BY DEF IssueClaimed, registry, routes, device
<1>7. (Save(s) \/ SaveRaises(s)) /\ Release(r)
  BY <1>3 DEF IssueClaimed, End
<1>8. Wrote(s)
  BY <1>1, <1>7, SavesWrite
<1>9. mem' = s /\ disk' \in {disk, s} /\ faults' \in 0 .. MaxFaults
  BY <1>8 DEF Wrote
<1>10. Sound(mem, proven, keysOf', tokens, keys) /\ Sound(disk, proven, keysOf', tokens, keys)
  <2>1. Sound(mem, proven, keysOf, tokens, keys) /\ Sound(disk, proven, keysOf, tokens, keys)
    BY DEF KeysInv, RecordsInv
  <2>2. mem.token \in Token \cup {None} /\ disk.token \in Token \cup {None}
    BY <2>1 DEF Sound, Record
  <2> QED  BY <1>2, <1>5, <2>1, <2>2 DEF Sound
<1>11. Sound(s, proven, keysOf', tokens, keys') /\ s.token = mem.token
  <2>1. Sound(s, proven, keysOf', tokens, keys')
    BY <1>3, <1>10, SoundIssued
  <2>2. mem \in Record
    BY <1>1 DEF TypeOK
  <2> QED  BY <2>1, <2>2 DEF Issued, Record
<1>12. Sound(disk, proven, keysOf', tokens, keys')
  <2>1. keys' \in Nat /\ keys <= keys' /\ tokens <= tokens
    BY <1>3
  <2> QED  BY <1>3, <1>10, <2>1, SoundGrows
<1> HIDE DEF s, tok
<1>13. RecordsInv'
  BY <1>6, <1>9, <1>11, <1>12 DEF RecordsInv
<1>14. PICK n \in RequestRec : Move(r, n) /\ n.pc \in {"reply", "idle"}
  <2> DEFINE m == [req[r] EXCEPT !.pc = "reply", !.newKey = keys']
  <2>1. m \in RequestRec /\ m.pc = "reply"
    BY <1>1, <1>3 DEF RequestRec
  <2>2. NoRequest.pc = "idle"
    BY DEF NoRequest
  <2>3. Move(r, m) \/ Move(r, NoRequest)
    BY DEF IssueClaimed, End
  <2> QED  BY <1>1, <2>1, <2>2, <2>3
<1>15. RequestsInv' /\ req' \in [Request -> RequestRec]
  <2>1. Fit(r, n, lock', proven', keysOf', tokens', mem', disk')
    BY <1>14 DEF Fit
  <2>2. TokenAfter(mem', {mem.token}) /\ TokenAfter(disk', {mem.token, disk.token})
    BY <1>9, <1>11 DEF TokenAfter
  <2>3. tokens' \in Nat /\ tokens <= tokens' /\ proven \subseteq proven'
    BY <1>3, <1>6
  <2>4. \A q \in Request : q # r /\ lock = q => lock' = q
    BY <1>2
  <2> QED  BY <1>1, <1>2, <1>14, <2>1, <2>2, <2>3, <2>4, OneRequestMoves DEF KeysInv
<1>16. HistoryInv'
  <2>1. proven' \subseteq 1 .. keys'
    BY <1>3, <1>6 DEF KeysInv, HistoryInv
  <2>2. ASSUME NEW t \in Token
        PROVE  /\ keysOf'[t] # {} => t <= tokens'
               /\ \E k \in Key \cup {None} : keysOf'[t] \subseteq {k}
    <3>1. CASE t = tok
      BY <1>2, <1>3, <1>5, <1>6, <3>1
    <3>2. CASE t # tok
      BY <1>5, <1>6, <3>2 DEF KeysInv, HistoryInv
    <3> QED  BY <3>1, <3>2
  <2> QED  BY <2>1, <2>2 DEF HistoryInv
<1>17. TypeOK'
  <2>1. mem' \in Record /\ (mem'.active => mem'.current # None) /\ disk' \in Record
    BY <1>13 DEF RecordsInv, Sound
  <2>2. lock' \in Request \cup {None} /\ calm' \in BOOLEAN
    BY <1>1, <1>6, <1>7, SameStages DEF Release, TypeOK
  <2> QED  BY <1>1, <1>3, <1>5, <1>6, <1>9, <1>15, <2>1, <2>2 DEF TypeOK
<1> QED  BY <1>13, <1>15, <1>16, <1>17 DEF KeysInv

-----------------------------------------------------------------------------
(* The dashboard, time and crashes.                                        *)

LEMMA StageHandoffInv ==
  ASSUME KeysInv, StageHandoff
  PROVE  KeysInv'
<1> DEFINE s == [mem EXCEPT !.pending = keys + 1]
<1>1. TypeOK /\ Sound(mem, proven, keysOf, tokens, keys) /\ mem.previous = None
  BY DEF KeysInv, RecordsInv, StageHandoff
<1>2. keys' = keys + 1 /\ keys + 1 \in Key /\ keys' \in 0 .. MaxKeys /\ keys \in Nat /\ keys <= keys'
      /\ tokens \in Nat
  BY <1>1, Counts DEF StageHandoff
<1>3. Sound(s, proven, keysOf, tokens, keys') /\ s.token = mem.token
  <2>1. mem \in Record
    BY <1>1 DEF Sound
  <2>2. s.token = mem.token
    BY <2>1 DEF Record
  <2> QED  BY <1>1, <1>2, <2>2, SoundStaged
<1>4. Save(s) \/ SaveRaises(s)
  BY <1>2 DEF StageHandoff
<1> HIDE DEF s
<1>5. Wrote(s) /\ TokenAfter(s, {mem.token})
  BY <1>1, <1>3, <1>4, SavesWrite DEF TokenAfter
<1>6. /\ UNCHANGED <<req, lock, client, queued, stored, checked, resetting, held, claim, tokens,
                     crashes, proven, keysOf>>
      /\ Stays \/ Upset
  BY DEF StageHandoff, registry, routes, device
<1>7. client' \in Lifecycle /\ queued' \in Lifecycle /\ stored' \in Lifecycle /\ calm' \in BOOLEAN
  BY <1>1, <1>6, SameStages
<1>8. /\ checked' \in BOOLEAN /\ resetting' \in BOOLEAN
      /\ held' \in Key \cup {None} /\ claim' \in Token \cup {None}
      /\ tokens' \in 0 .. MaxTokens /\ tokens <= tokens' /\ tokens' = tokens
  BY <1>1, <1>2, <1>6 DEF TypeOK
<1> QED  BY <1>2, <1>3, <1>5, <1>6, <1>7, <1>8, OperatorStep

LEMMA IssueKeyInv ==
  ASSUME KeysInv, NEW rotate \in BOOLEAN, IssueKey(rotate)
  PROVE  KeysInv'
<1> DEFINE s == Issued(mem, keys + 1)
<1>1. TypeOK /\ Sound(mem, proven, keysOf, tokens, keys)
  BY DEF KeysInv, RecordsInv
<1>2. keys' = keys + 1 /\ keys + 1 \in Key /\ keys' \in 0 .. MaxKeys /\ keys \in Nat /\ keys <= keys'
      /\ tokens \in Nat
  BY <1>1, Counts DEF IssueKey
<1>3. Sound(s, proven, keysOf, tokens, keys') /\ s.token = mem.token
  <2>1. mem \in Record
    BY <1>1 DEF Sound
  <2> QED  BY <1>1, <1>2, <2>1, SoundIssued DEF Record, Issued
<1>4. (Save(s) \/ SaveRaises(s)) /\ held' \in {held, keys + 1}
  BY <1>2 DEF IssueKey
<1> HIDE DEF s
<1>5. Wrote(s) /\ TokenAfter(s, {mem.token})
  BY <1>1, <1>3, <1>4, SavesWrite DEF TokenAfter
<1>6. /\ UNCHANGED <<req, lock, client, queued, stored, checked, resetting, claim, tokens,
                     crashes, proven, keysOf>>
      /\ Upset
  BY DEF IssueKey, registry, routes
<1>7. client' \in Lifecycle /\ queued' \in Lifecycle /\ stored' \in Lifecycle /\ calm' \in BOOLEAN
  BY <1>1, <1>6, SameStages
<1>8. /\ checked' \in BOOLEAN /\ resetting' \in BOOLEAN
      /\ held' \in Key \cup {None} /\ claim' \in Token \cup {None}
      /\ tokens' \in 0 .. MaxTokens /\ tokens <= tokens' /\ tokens' = tokens
  BY <1>1, <1>2, <1>4, <1>6 DEF TypeOK
<1> QED  BY <1>2, <1>3, <1>5, <1>6, <1>7, <1>8, OperatorStep

\* What revokes, cancels or expires leaves the counters.
LEMMA DroppingStep ==
  ASSUME KeysInv, NEW s, Wrote(s), Sound(s, proven, keysOf, tokens, keys),
         s.token \in {None, mem.token},
         client' \in Lifecycle, queued' \in Lifecycle, Stays \/ Upset, resetting' \in BOOLEAN,
         UNCHANGED <<req, lock, checked, stored, held, claim, keys, tokens, crashes, proven, keysOf>>
  PROVE  KeysInv'
<1>1. TypeOK
  BY DEF KeysInv
<1>2. TokenAfter(s, {mem.token})
  BY DEF TokenAfter
<1>3. /\ tokens' \in 0 .. MaxTokens /\ tokens <= tokens' /\ tokens' = tokens
      /\ keys' \in 0 .. MaxKeys /\ keys <= keys' /\ keys' = keys
      /\ stored' \in Lifecycle /\ calm' \in BOOLEAN
  BY <1>1, SameCounts, SameStages
<1>4. held' \in Key \cup {None} /\ claim' \in Token \cup {None} /\ checked' \in BOOLEAN
  BY <1>1 DEF TypeOK
<1> QED  BY <1>2, <1>3, <1>4, OperatorStep

LEMMA RevokedToken ==
  ASSUME KeysInv, NEW X
  PROVE  /\ Sound(Revoked(mem, X), proven, keysOf, tokens, keys)
         /\ Revoked(mem, X).token = mem.token
<1>1. Sound(mem, proven, keysOf, tokens, keys)
  BY DEF KeysInv, RecordsInv
<1>2. mem \in Record
  BY <1>1 DEF Sound
<1> QED  BY <1>1, <1>2, SoundRevoked DEF Record, Revoked

LEMMA RevokeKeysInv ==
  ASSUME KeysInv, NEW X, RevokeKeys(X)
  PROVE  KeysInv'
<1>1. Wrote(Revoked(mem, X))
  BY SavesWrite DEF RevokeKeys, KeysInv
<1>2. /\ UNCHANGED <<req, lock, client, queued, stored, checked, resetting, held, claim, keys, tokens,
                     crashes, proven, keysOf>>
      /\ Upset
  BY DEF RevokeKeys, registry, routes, device
<1>3. client' \in Lifecycle /\ queued' \in Lifecycle /\ resetting' \in BOOLEAN
  BY <1>2, SameStages DEF KeysInv, TypeOK
<1> QED  BY <1>1, <1>2, <1>3, RevokedToken, DroppingStep

LEMMA BeginResetInv ==
  ASSUME KeysInv, BeginReset
  PROVE  KeysInv'
<1>1. TypeOK
  BY DEF KeysInv
<1>2. /\ UNCHANGED <<req, lock, client, queued, stored, checked, held, claim, keys, tokens,
                     crashes, proven, keysOf>>
      /\ Upset
  BY DEF BeginReset, registry, device
<1>3. client' \in Lifecycle /\ queued' \in Lifecycle
  BY <1>1, <1>2, SameStages
<1>4. resetting' \in BOOLEAN
  BY <1>1 DEF BeginReset, TypeOK
<1>5. Sound(mem, proven, keysOf, tokens, keys)
  BY DEF KeysInv, RecordsInv
<1>6. Wrote(mem) \/ Wrote(Revoked(mem, Key))
  BY <1>1, NoSaveWrites, SavesWrite DEF BeginReset
<1> QED  BY <1>2, <1>3, <1>4, <1>5, <1>6, RevokedToken, DroppingStep

LEMMA EndResetInv ==
  ASSUME KeysInv, EndReset
  PROVE  KeysInv'
<1> DEFINE s == [mem EXCEPT !.token = tokens + 1]
<1>1. TypeOK /\ Sound(mem, proven, keysOf, tokens, keys)
  BY DEF KeysInv, RecordsInv
<1>2. tokens' = tokens + 1 /\ tokens + 1 \in Token /\ tokens' \in 0 .. MaxTokens /\ tokens \in Nat
      /\ keys \in Nat /\ keysOf \in [Token -> SUBSET Key]
  BY <1>1, Counts DEF EndReset
<1>3. tokens <= tokens' /\ keysOf[tokens + 1] = {}
  BY <1>2 DEF KeysInv, HistoryInv
<1>4. Sound(s, proven, keysOf, tokens', keys) /\ s.token = tokens'
  <2>1. Sound(s, proven, keysOf, tokens + 1, keys)
    BY <1>1, <1>2, <1>3, SoundWithToken
  <2>2. mem \in Record
    BY <1>1 DEF Sound
  <2> QED  BY <1>2, <2>1, <2>2 DEF Record
<1>5. (Save(s) \/ SaveRaises(s)) /\ claim' \in {claim, tokens + 1}
  BY <1>2 DEF EndReset
<1> HIDE DEF s
<1>6. Wrote(s) /\ TokenAfter(s, {mem.token})
  BY <1>1, <1>2, <1>4, <1>5, SavesWrite DEF TokenAfter
<1>7. /\ UNCHANGED <<req, lock, client, queued, stored, checked, held, keys, crashes, proven, keysOf>>
      /\ Upset /\ resetting' = FALSE
  BY DEF EndReset, registry
<1>8. client' \in Lifecycle /\ queued' \in Lifecycle /\ stored' \in Lifecycle /\ calm' \in BOOLEAN
  BY <1>1, <1>7, SameStages
<1>9. /\ checked' \in BOOLEAN /\ resetting' \in BOOLEAN
      /\ held' \in Key \cup {None} /\ claim' \in Token \cup {None}
      /\ keys' \in 0 .. MaxKeys /\ keys <= keys' /\ keys' = keys
  <2>1. keys' = keys /\ held' = held /\ checked' = checked /\ resetting' = FALSE
    BY <1>7
  <2>2. /\ held \in Key \cup {None} /\ claim \in Token \cup {None} /\ checked \in BOOLEAN
        /\ keys \in 0 .. MaxKeys
    BY <1>1 DEF TypeOK
  <2>3. claim' \in Token \cup {None} /\ held' \in Key \cup {None} /\ checked' \in BOOLEAN
    BY <1>2, <1>5, <2>1, <2>2
  <2>4. keys' \in 0 .. MaxKeys /\ keys <= keys' /\ keys' = keys
    BY <1>2, <2>1, <2>2
  <2> QED  BY <2>1, <2>3, <2>4
<1> QED  BY <1>2, <1>3, <1>4, <1>6, <1>7, <1>8, <1>9, OperatorStep

LEMMA ReEnrollInv ==
  ASSUME KeysInv, ReEnroll
  PROVE  KeysInv'
<1> DEFINE s == [mem EXCEPT !.token = None]
<1>1. TypeOK /\ Sound(mem, proven, keysOf, tokens, keys)
  BY DEF KeysInv, RecordsInv
<1>2. Sound(s, proven, keysOf, tokens, keys) /\ s.token = None
  BY <1>1, SoundWithoutToken DEF Sound, Record
<1>3. Save(s) \/ SaveRaises(s)
  BY DEF ReEnroll
<1> HIDE DEF s
<1>4. Wrote(s)
  BY <1>1, <1>3, SavesWrite
<1>5. /\ UNCHANGED <<req, lock, stored, checked, resetting, held, claim, keys, tokens, crashes,
                     proven, keysOf>>
      /\ Stays \/ Upset
  BY DEF ReEnroll, routes, device
<1>6. client' \in Lifecycle /\ queued' \in Lifecycle /\ resetting' \in BOOLEAN
  BY <1>1, <1>5, SameStages DEF ReEnroll, Lifecycle, TypeOK
<1> QED  BY <1>2, <1>4, <1>5, <1>6, DroppingStep

LEMMA RemoveClientInv ==
  ASSUME KeysInv, RemoveClient
  PROVE  KeysInv'
<1> DEFINE revoked == Revoked(mem, Key)
<1> DEFINE cancelled == [revoked EXCEPT !.token = None]
<1>1. TypeOK
  BY DEF KeysInv
<1>2. Sound(revoked, proven, keysOf, tokens, keys) /\ revoked.token = mem.token
  BY RevokedToken
<1>3. Save(cancelled) \/ SaveRaises(revoked) \/ SaveRaises(cancelled)
  BY DEF RemoveClient
<1> HIDE DEF revoked
<1>4. Sound(cancelled, proven, keysOf, tokens, keys) /\ cancelled.token = None
  BY <1>2, SoundWithoutToken DEF Sound, Record
<1> HIDE DEF cancelled
<1>5. Wrote(revoked) \/ Wrote(cancelled)
  BY <1>1, <1>3, SavesWrite
<1>6. /\ UNCHANGED <<req, lock, stored, checked, resetting, held, claim, keys, tokens, crashes,
                     proven, keysOf>>
      /\ Upset
  BY DEF RemoveClient, routes, device
<1>7. client' \in Lifecycle /\ queued' \in Lifecycle /\ resetting' \in BOOLEAN
  BY <1>1, <1>6, SameStages DEF RemoveClient, Lifecycle, TypeOK
<1> QED  BY <1>2, <1>4, <1>5, <1>6, <1>7, DroppingStep

\* The routes and the registry touch neither a record nor a request.
LEMMA RegistryInv ==
  ASSUME KeysInv, CheckProvision \/ Provision \/ FlushRegistry
  PROVE  KeysInv'
<1>1. TypeOK /\ Sound(mem, proven, keysOf, tokens, keys)
  BY DEF KeysInv, RecordsInv
<1>2. UNCHANGED <<mem, disk, req, lock, held, claim, keys, tokens, faults, crashes, proven, keysOf, calm>>
  BY DEF CheckProvision, Provision, FlushRegistry, server, device, bounds, ghost
<1>3. Wrote(mem) /\ TokenAfter(mem, {mem.token})
  BY <1>1, <1>2 DEF TypeOK, Wrote, TokenAfter
<1>4. /\ client' \in Lifecycle /\ queued' \in Lifecycle /\ stored' \in Lifecycle
      /\ checked' \in BOOLEAN /\ resetting' \in BOOLEAN
  <2>1. client \in Lifecycle /\ queued \in Lifecycle /\ stored \in Lifecycle
        /\ checked \in BOOLEAN /\ resetting \in BOOLEAN
    BY <1>1, SameStages DEF TypeOK
  <2> QED  BY <2>1 DEF CheckProvision, Provision, FlushRegistry, registry, routes, Lifecycle
<1>5. /\ tokens' \in 0 .. MaxTokens /\ tokens <= tokens' /\ tokens' = tokens
      /\ keys' \in 0 .. MaxKeys /\ keys <= keys' /\ keys' = keys
  BY <1>1, <1>2, SameCounts
<1>6. held' \in Key \cup {None} /\ claim' \in Token \cup {None} /\ calm' \in BOOLEAN
  BY <1>1, <1>2 DEF TypeOK
<1> QED  BY <1>1, <1>2, <1>3, <1>4, <1>5, <1>6, OperatorStep

\* What expires in memory expires on disk too, if it is there.
LEMMA ExpiryInv ==
  ASSUME KeysInv, ExpireGrace \/ ExpireToken
  PROVE  KeysInv'
<1>1. /\ TypeOK /\ Sound(mem, proven, keysOf, tokens, keys) /\ Sound(disk, proven, keysOf, tokens, keys)
  BY DEF KeysInv, RecordsInv
<1>2. UNCHANGED <<registry, req, lock, routes, device, bounds, ghost>>
  BY DEF ExpireGrace, ExpireToken
<1>3. /\ Sound(mem', proven, keysOf, tokens, keys) /\ Sound(disk', proven, keysOf, tokens, keys)
      /\ mem'.token \in {None, mem.token} /\ disk'.token \in {None, disk.token}
  <2>1. CASE ExpireGrace
    <3>1. /\ mem' = [mem EXCEPT !.previous = None]
          /\ disk' = [disk EXCEPT !.previous = None] \/ disk' = disk
      BY <1>1, <2>1 DEF ExpireGrace, Sound, Record
    <3>2. mem \in Record /\ disk \in Record
      BY <1>1 DEF Sound
    <3>3. mem'.token = mem.token /\ disk'.token = disk.token
      BY <3>1, <3>2 DEF Record
    <3> QED  BY <1>1, <3>1, <3>3, SoundExpired
  <2>2. CASE ExpireToken
    <3>1. /\ mem' = [mem EXCEPT !.token = None]
          /\ disk' = [disk EXCEPT !.token = None] \/ disk' = disk
      BY <1>1, <2>2 DEF ExpireToken, Sound, Record
    <3>2. mem \in Record /\ disk \in Record
      BY <1>1 DEF Sound
    <3>3. mem'.token = None /\ disk'.token \in {None, disk.token}
      BY <3>1, <3>2 DEF Record
    <3> QED  BY <1>1, <3>1, <3>3, SoundWithoutToken
  <2> QED  BY <2>1, <2>2
<1>4. RecordsInv' /\ HistoryInv'
  BY <1>2, <1>3 DEF RecordsInv, HistoryInv, KeysInv, bounds, ghost
<1>5. RequestsInv'
  <2>1. tokens' \in Nat /\ tokens <= tokens'
    BY <1>1, <1>2, Counts DEF bounds
  <2>2. TokenAfter(mem', {mem.token}) /\ TokenAfter(disk', {mem.token, disk.token})
    BY <1>3 DEF TokenAfter
  <2> QED  BY <1>1, <1>2, <2>1, <2>2, NoRequestMoves DEF KeysInv, ghost
<1>6. TypeOK'
  <2>1. mem' \in Record /\ (mem'.active => mem'.current # None) /\ disk' \in Record
    BY <1>3 DEF Sound
  <2> QED  BY <1>1, <1>2, <2>1 DEF TypeOK, registry, routes, device, bounds, ghost
<1> QED  BY <1>4, <1>5, <1>6 DEF KeysInv

LEMMA CrashInv ==
  ASSUME KeysInv, Crash
  PROVE  KeysInv'
<1>1. TypeOK /\ Sound(disk, proven, keysOf, tokens, keys)
  BY DEF KeysInv, RecordsInv
<1>2. /\ mem' = disk /\ req' = [r \in Request |-> NoRequest]
      /\ UNCHANGED <<disk, stored, held, claim, keys, tokens, faults, proven, keysOf, calm>>
  BY DEF Crash, device, ghost
<1>3. RecordsInv' /\ HistoryInv'
  BY <1>1, <1>2 DEF RecordsInv, HistoryInv, KeysInv
<1>4. RequestsInv'
  BY <1>2 DEF RequestsInv, Fit, NoRequest
<1>5. TypeOK'
  <2>1. mem' \in Record /\ (mem'.active => mem'.current # None) /\ disk' \in Record
    BY <1>1, <1>2 DEF Sound
  <2>2. req' \in [Request -> RequestRec]
    BY <1>2 DEF NoRequest, RequestRec
  <2>3. crashes' \in 0 .. MaxCrashes
    BY <1>1, KeysAssumption DEF Crash, TypeOK
  <2> QED  BY <1>1, <1>2, <2>1, <2>2, <2>3 DEF TypeOK, Crash
<1> QED  BY <1>3, <1>4, <1>5 DEF KeysInv

-----------------------------------------------------------------------------
(* The theorems.                                                           *)

LEMMA InitInv == Init => KeysInv
<1> SUFFICES ASSUME Init PROVE KeysInv
  OBVIOUS
<1>1. NoRecord \in Record /\ ~NoRecord.active /\ NoRecord.pending = None /\ ~NoRecord.verified
      /\ Named(NoRecord) = {} /\ NoRecord.token = None
  BY DEF NoRecord, Record, Named
<1>2. NoRequest \in RequestRec /\ NoRequest.pc = "idle"
  BY DEF NoRequest, RequestRec
<1>3. TypeOK
  <2>1. 0 \in 0 .. MaxKeys /\ 0 \in 0 .. MaxTokens /\ 0 \in 0 .. MaxFaults /\ 0 \in 0 .. MaxCrashes
    BY KeysAssumption
  <2>2. {client, queued, stored} \subseteq {"absent", "unprovisioned", "provisioned"}
    BY DEF Init
  <2>3. req \in [Request -> RequestRec] /\ keysOf \in [Token -> SUBSET Key]
    BY <1>2 DEF Init
  <2> QED  BY <1>1, <2>1, <2>2, <2>3 DEF Init, TypeOK
<1>4. RecordsInv
  BY <1>1 DEF Init, RecordsInv, Sound
<1>5. RequestsInv
  BY <1>2 DEF Init, RequestsInv, Fit
<1>6. HistoryInv
  BY DEF Init, HistoryInv
<1> QED  BY <1>3, <1>4, <1>5, <1>6 DEF KeysInv

LEMMA NextInv == KeysInv /\ [Next]_vars => KeysInv'
<1> SUFFICES ASSUME KeysInv, [Next]_vars PROVE KeysInv'
  OBVIOUS
<1>1. ASSUME NEW r \in Request, ServerStep(r) PROVE KeysInv'
  BY <1>1, EnterHandshakeInv, MatchKeyInv, PromoteInv, MarkVerifiedInv, AcceptPreviousInv,
     DecideHandoffInv, HandOffInv, VerifyTokenInv, ConsumeTokenInv, IssueClaimedInv
  DEF ServerStep
<1>2. CASE Operator
  BY <1>2, StageHandoffInv, IssueKeyInv, RevokeKeysInv, BeginResetInv, EndResetInv,
     RegistryInv, ReEnrollInv, RemoveClientInv
  DEF Operator
<1>3. CASE UNCHANGED vars
  BY <1>3 DEF vars, server, registry, routes, device, bounds, ghost, KeysInv, TypeOK, RecordsInv,
     RequestsInv, HistoryInv
<1> QED  BY <1>1, <1>2, <1>3, SendInv, ReceiveInv, LoseInv, ExpiryInv, RegistryInv, CrashInv DEF Next

\* Types, the shape of the records, what the requests rely on and what the past
\* has left hold in every state of the program.
THEOREM DeviceKeysInvariant == Spec => []KeysInv
BY InitInv, NextInv, PTL DEF Spec

\* No more than two keys are usable: a staged key stands beside no previous one.
LEMMA TwoUsable ==
  ASSUME NEW s, NEW P, NEW K, NEW n, NEW m, Sound(s, P, K, n, m)
  PROVE  Cardinality(Usable(s)) <= 2
<1>1. \E x, y : Usable(s) \subseteq {x, y}
  BY DEF Usable, Sound
<1>2. PICK x, y : Usable(s) \subseteq {x, y}
  BY <1>1
<1>3. IsFiniteSet({x, y}) /\ Cardinality({x, y}) <= 2
  <2>1. CASE x = y
    BY <2>1, FS_Singleton
  <2>2. CASE x # y
    <3>1. IsFiniteSet({x}) /\ Cardinality({x}) = 1
      BY FS_Singleton
    <3>2. {x, y} = {x} \cup {y} /\ y \notin {x}
      BY <2>2
    <3> QED  BY <3>1, <3>2, FS_AddElement
  <2> QED  BY <2>1, <2>2
<1>4. Cardinality(Usable(s)) <= Cardinality({x, y}) /\ Cardinality(Usable(s)) \in Nat
      /\ Cardinality({x, y}) \in Nat
  BY <1>2, <1>3, FS_Subset, FS_CardinalityType
<1> QED  BY <1>3, <1>4

\* Whatever requests, dashboard routes, failing writes and crashes overlap: at
\* most two keys of a device are usable, only a key with which it has signed
\* counts as verified, and an enrolment token releases one key.
THEOREM KeysStaySound ==
  Spec => [](AtMostTwoUsable /\ VerifiedIsProven /\ OneKeyPerToken)
<1>1. KeysInv => AtMostTwoUsable /\ VerifiedIsProven /\ OneKeyPerToken
  <2> SUFFICES ASSUME KeysInv
               PROVE  AtMostTwoUsable /\ VerifiedIsProven /\ OneKeyPerToken
    OBVIOUS
  <2>1. AtMostTwoUsable
    BY TwoUsable DEF KeysInv, RecordsInv, AtMostTwoUsable
  <2>2. VerifiedIsProven
    BY DEF KeysInv, RecordsInv, Sound, VerifiedIsProven
  <2>3. OneKeyPerToken
    <3>1. SUFFICES ASSUME NEW t \in Token PROVE Cardinality(keysOf[t]) <= 1
      BY DEF OneKeyPerToken
    <3>2. PICK k : keysOf[t] \subseteq {k}
      BY DEF KeysInv, HistoryInv
    <3>3. IsFiniteSet({k}) /\ Cardinality({k}) = 1
      BY FS_Singleton
    <3> QED  BY <3>2, <3>3, FS_Subset, FS_CardinalityType
  <2> QED  BY <2>1, <2>2, <2>3
<1> QED  BY <1>1, DeviceKeysInvariant, PTL

\* Type correctness.
THEOREM DeviceKeysTypes == Spec => []TypeOK
<1>1. KeysInv => TypeOK
  BY DEF KeysInv
<1> QED  BY <1>1, DeviceKeysInvariant, PTL

-----------------------------------------------------------------------------
(* Two requests signed with one staged key.                                *)

\* While no operator has intervened and no write has failed: memory is what is
\* on disk, a staged key is newer than the current one, and whoever has signed
\* with a staged key finds it still staged, promoted, or replaced by a newer one.
StagedInv ==
  calm =>
    /\ mem = disk
    /\ mem.pending # None => mem.active /\ mem.current < mem.pending
    /\ \A r \in Request :
         req[r].pc = "auth" /\ req[r].slot = "pending" =>
           mem.active /\ (req[r].key = mem.pending \/ req[r].key <= mem.current)

\* Nobody passes the look at the candidates.
KeepsAuth == \A r \in Request : req'[r].pc = "auth" => req'[r] = req[r]

LEMMA LeavesAuth ==
  ASSUME TypeOK, NEW r \in Request, NEW n, Move(r, n), n.pc # "auth"
  PROVE  KeepsAuth
BY DEF TypeOK, Move, KeepsAuth

LEMMA RequestLeavesAuth ==
  ASSUME TypeOK, NEW r \in Request,
         End(r) \/ \E pc \in {"accepted", "eligible", "claim", "consume", "issue", "reply"} : Goto(r, pc)
  PROVE  KeepsAuth
<1>1. NoRequest.pc # "auth"
  BY DEF NoRequest
<1>2. \A pc \in {"accepted", "eligible", "claim", "consume", "issue", "reply"} :
        [req[r] EXCEPT !.pc = pc].pc # "auth"
  BY DEF TypeOK, RequestRec
<1> QED  BY <1>1, <1>2, LeavesAuth DEF End, Goto

\* What changes neither the keys nor who has signed.
LEMMA StagedSame ==
  ASSUME StagedInv, KeepsAuth, calm' => calm,
         calm' => /\ mem' = disk' /\ mem'.active = mem.active /\ mem'.current = mem.current
                  /\ mem'.pending = mem.pending
  PROVE  StagedInv'
BY DEF StagedInv, KeepsAuth

LEMMA StagedServerStep ==
  ASSUME KeysInv, StagedInv, NEW r \in Request, ServerStep(r)
  PROVE  StagedInv'
<1> USE DEF KeysInv
<1>1. TypeOK /\ req[r] \in RequestRec /\ mem \in Record
  BY DEF TypeOK
<1>2. CASE EnterHandshake(r)
  <2>1. KeepsAuth
    <3>1. \A pc \in {"matching", "claim"}, f \in BOOLEAN :
            [req[r] EXCEPT !.pc = pc, !.fresh = f].pc # "auth"
      BY <1>1 DEF RequestRec
    <3>2. \A x : [req[r] EXCEPT !.pc = "reply", !.newToken = x].pc # "auth"
      BY <1>1 DEF RequestRec
    <3>3. NoRequest.pc # "auth"
      BY DEF NoRequest
    <3>4. \/ \E pc \in {"matching", "claim"}, f \in BOOLEAN :
               Move(r, [req[r] EXCEPT !.pc = pc, !.fresh = f])
          \/ Goto(r, "reply")
          \/ Move(r, [req[r] EXCEPT !.pc = "reply", !.newToken = tokens'])
          \/ Move(r, NoRequest)
      BY <1>2 DEF EnterHandshake, HasKey, IsCurrent
    <3> QED  BY <1>1, <3>1, <3>2, <3>3, <3>4, LeavesAuth, RequestLeavesAuth
  <2>2. calm' => calm /\ (NoSave \/ Save([mem EXCEPT !.token = tokens']))
    BY <1>2 DEF EnterHandshake, Stays, Upset
  <2> QED  BY <1>1, <2>1, <2>2, StagedSame DEF NoSave, Save, StagedInv, Record
<1>3. CASE MatchKey(r)
  <2>1. UNCHANGED <<mem, disk, calm>>
    BY <1>3 DEF MatchKey, server
  <2>2. CASE req[r].key \notin Usable(mem)
    BY <1>1, <1>3, <2>1, <2>2, StagedSame, RequestLeavesAuth DEF MatchKey, StagedInv
  <2>3. CASE req[r].key \in Usable(mem)
    <3> DEFINE n == [req[r] EXCEPT !.pc = "auth", !.slot = Slot(req[r].key)]
    <3>1. n.key = req[r].key /\ n.slot = Slot(req[r].key)
      BY <1>1 DEF RequestRec
    <3>2. Move(r, n)
      BY <1>3, <2>3 DEF MatchKey
    <3> HIDE DEF n
    <3>3. \A q \in Request : req'[q] = IF q = r THEN n ELSE req[q]
      BY <1>1, <3>2 DEF Move, TypeOK
    <3>4. Slot(req[r].key) = "pending" => req[r].key = mem.pending /\ mem.pending # None
      BY <2>3 DEF Slot, Usable
    <3> QED  BY <2>1, <3>1, <3>3, <3>4 DEF StagedInv
  <2> QED  BY <2>2, <2>3
<1>4. CASE Promote(r)
  <2>1. KeepsAuth
    BY <1>1, <1>4, RequestLeavesAuth DEF Promote
  <2>2. calm' => calm /\ (NoSave \/ (Save(Promoted(mem)) /\ mem.pending # None))
    <3>1. req[r].key \in proven /\ proven \in SUBSET Key
      BY <1>4, AtStep DEF Promote, At, Fit, TypeOK
    <3>2. req[r].key # None
      BY <3>1, KeysAssumption
    <3>3. CASE Save(Promoted(mem)) /\ Stays /\ req[r].key = mem.pending
      BY <3>2, <3>3 DEF Stays
    <3>4. CASE Upset
      BY <3>4 DEF Upset
    <3>5. CASE NoSave /\ Stays
      BY <3>5 DEF Stays
    <3> QED  BY <1>4, <3>3, <3>4, <3>5 DEF Promote
  <2>3. CASE ~calm'
    BY <2>3 DEF StagedInv
  <2>4. CASE calm' /\ NoSave
    BY <2>1, <2>2, <2>4, StagedSame DEF NoSave, StagedInv
  <2>5. CASE calm' /\ Save(Promoted(mem)) /\ mem.pending # None
    <3>1. mem' = disk' /\ mem'.active = mem.active /\ mem'.current = mem.pending /\ mem'.pending = None
      BY <1>1, <2>5 DEF Save, Promoted, Record
    <3>2. calm /\ mem.active /\ mem.current < mem.pending
          /\ mem.current \in Nat /\ mem.pending \in Nat
      BY <1>1, <2>2, <2>5 DEF StagedInv, Record, TypeOK, Key
    <3>3. ASSUME NEW q \in Request, req'[q].pc = "auth", req'[q].slot = "pending"
          PROVE  req'[q].key <= mem'.current
      <4>1. req'[q] = req[q] /\ req[q].key \in proven /\ proven \in SUBSET Key
        BY <2>1, <3>3, AtStep DEF KeepsAuth, Fit, TypeOK
      <4>2. req[q].key = mem.pending \/ req[q].key <= mem.current
        BY <3>2, <3>3, <4>1 DEF StagedInv
      <4>3. req[q].key \in Nat
        <5>1. req[q].key \in Key /\ MaxKeys \in Nat
          BY <4>1, KeysAssumption
        <5> QED  BY <5>1 DEF Key
      <4> QED  BY <3>1, <3>2, <4>1, <4>2, <4>3
    <3> QED  BY <3>1, <3>2, <3>3 DEF StagedInv
  <2> QED  BY <2>2, <2>3, <2>4, <2>5
<1>5. CASE MarkVerified(r)
  <2>1. KeepsAuth
    BY <1>1, <1>5, RequestLeavesAuth DEF MarkVerified
  <2>2. calm' => calm /\ (NoSave \/ Save([mem EXCEPT !.verified = TRUE]))
    BY <1>5 DEF MarkVerified, Stays, Upset
  <2> QED  BY <1>1, <2>1, <2>2, StagedSame DEF NoSave, Save, StagedInv, Record
<1>6. CASE AcceptPrevious(r) \/ DecideHandoff(r) \/ VerifyToken(r)
  <2>1. KeepsAuth
    BY <1>1, <1>6, RequestLeavesAuth DEF AcceptPrevious, DecideHandoff, VerifyToken
  <2>2. UNCHANGED <<mem, disk, calm>>
    BY <1>6 DEF AcceptPrevious, DecideHandoff, VerifyToken, server, ghost
  <2> QED  BY <2>1, <2>2, StagedSame DEF StagedInv
<1>7. CASE HandOff(r)
  <2>1. \A x : [req[r] EXCEPT !.pc = "reply", !.newKey = x].pc # "auth"
    BY <1>1 DEF RequestRec
  <2>2. KeepsAuth
    BY <1>1, <1>7, <2>1, LeavesAuth DEF HandOff
  <2>3. UNCHANGED <<mem, disk, calm>>
    BY <1>7 DEF HandOff, server, ghost
  <2> QED  BY <2>2, <2>3, StagedSame DEF StagedInv
<1>8. CASE ConsumeToken(r)
  <2>1. KeepsAuth
    BY <1>1, <1>8, RequestLeavesAuth DEF ConsumeToken
  <2>2. calm' => calm /\ Save([mem EXCEPT !.token = None])
    BY <1>8 DEF ConsumeToken, Stays, Upset
  <2> QED  BY <1>1, <2>1, <2>2, StagedSame DEF Save, Record
<1>9. CASE IssueClaimed(r)
  <2>1. KeepsAuth
    <3>1. \A x : [req[r] EXCEPT !.pc = "reply", !.newKey = x].pc # "auth"
      BY <1>1 DEF RequestRec
    <3> QED  BY <1>1, <1>9, <3>1, LeavesAuth, RequestLeavesAuth DEF IssueClaimed
  <2>2. keys' = keys + 1 /\ keys \in Nat
    BY <1>9, Counts DEF IssueClaimed
  <2>3. calm' => calm /\ Save(Issued(mem, keys + 1))
    BY <1>9, <2>2 DEF IssueClaimed, Stays, Upset
  <2>4. SUFFICES ASSUME calm' PROVE StagedInv'
    BY DEF StagedInv
  <2>5. mem' = disk' /\ mem'.active /\ mem'.current = keys + 1 /\ mem'.pending = None
    BY <1>1, <2>3, <2>4 DEF Save, Issued, Record
  <2>6. ASSUME NEW q \in Request, req'[q].pc = "auth" PROVE req'[q].key <= mem'.current
    <3>1. req[q].key \in proven /\ req'[q] = req[q] /\ proven \subseteq 1 .. keys
      BY <2>1, <2>6, AtStep DEF KeepsAuth, Fit, HistoryInv
    <3>2. req'[q].key \in 1 .. keys
      BY <3>1
    <3> QED  BY <2>2, <2>5, <3>2
  <2> QED  BY <2>5, <2>6 DEF StagedInv
<1> QED  BY <1>2, <1>3, <1>4, <1>5, <1>6, <1>7, <1>8, <1>9 DEF ServerStep

LEMMA StagedOtherStep ==
  ASSUME KeysInv, StagedInv, [Next]_vars, \A r \in Request : ~ServerStep(r)
  PROVE  StagedInv'
<1> USE DEF KeysInv
<1>1. TypeOK /\ mem \in Record /\ disk \in Record
  BY DEF TypeOK
<1>2. ASSUME NEW r \in Request, NEW kind \in {"signed", "handshake"}, Send(r, kind)
      PROVE  StagedInv'
  <2>1. [NoRequest EXCEPT !.pc = "sent", !.kind = kind, !.key = held, !.token = claim].pc # "auth"
    BY DEF NoRequest
  <2>2. KeepsAuth /\ UNCHANGED <<mem, disk, calm>>
    BY <1>1, <1>2, <2>1, LeavesAuth DEF Send, server, ghost
  <2> QED  BY <2>2, StagedSame DEF StagedInv
<1>3. ASSUME NEW r \in Request, Receive(r) \/ Lose(r)
      PROVE  StagedInv'
  <2>1. NoRequest.pc # "auth"
    BY DEF NoRequest
  <2>2. KeepsAuth /\ UNCHANGED <<mem, disk, calm>>
    BY <1>1, <1>3, <2>1, LeavesAuth DEF Receive, Lose, server, ghost
  <2> QED  BY <2>2, StagedSame DEF StagedInv
<1>4. CASE req' = req
  <2>1. KeepsAuth
    BY <1>4 DEF KeepsAuth
  <2>2. CASE StageHandoff
    <3>1. keys' = keys + 1 /\ keys \in Nat
      BY <2>2, Counts DEF StageHandoff
    <3>2. calm' => calm /\ Save([mem EXCEPT !.pending = keys + 1])
      BY <2>2, <3>1 DEF StageHandoff, Stays, Upset
    <3>3. SUFFICES ASSUME calm' PROVE StagedInv'
      BY DEF StagedInv
    <3>4. mem' = disk' /\ mem'.active = mem.active /\ mem'.current = mem.current
          /\ mem'.pending = keys + 1
      BY <1>1, <3>2, <3>3 DEF Save, Record
    <3>5. mem.active /\ mem.current # None /\ mem.pending = None
      BY <2>2 DEF StageHandoff, RecordsInv, Sound
    <3>6. mem.current \in 1 .. keys
      BY <3>5 DEF RecordsInv, Sound, Named
    <3>7. ASSUME NEW q \in Request, req[q].pc = "auth", req[q].slot = "pending"
          PROVE  req[q].key <= mem.current
      <4>1. req[q].key \in Key
        BY <3>7, AtStep DEF Fit, TypeOK
      <4> QED  BY <3>2, <3>3, <3>5, <3>7, <4>1, KeysAssumption DEF StagedInv
    <3> QED  BY <1>4, <3>1, <3>4, <3>5, <3>6, <3>7 DEF StagedInv
  <2>3. CASE ~calm'
    BY <2>3 DEF StagedInv
  <2>4. CASE ReEnroll
    <3>1. calm' => calm /\ Save([mem EXCEPT !.token = None])
      BY <2>4 DEF ReEnroll, Stays, Upset
    <3> QED  BY <1>1, <2>1, <3>1, StagedSame DEF Save, Record
  <2>5. CASE ExpireGrace \/ ExpireToken
    <3>1. calm' = calm
      BY <2>5 DEF ExpireGrace, ExpireToken, ghost
    <3>2. calm => /\ mem' = disk' /\ mem'.active = mem.active /\ mem'.current = mem.current
                  /\ mem'.pending = mem.pending
      BY <1>1, <2>5 DEF ExpireGrace, ExpireToken, StagedInv, Record
    <3> QED  BY <2>1, <3>1, <3>2, StagedSame
  <2>6. CASE UNCHANGED <<mem, disk, calm>>
    BY <2>1, <2>6, StagedSame DEF StagedInv
  <2>7. CASE Crash
    BY <1>1, <2>1, <2>7, StagedSame DEF Crash, ghost, StagedInv
  <2> QED  BY <1>2, <1>3, <2>2, <2>3, <2>4, <2>5, <2>6, <2>7
           DEF Next, Operator, IssueKey, RevokeKeys, BeginReset, EndReset, RemoveClient, Upset,
               CheckProvision, Provision, FlushRegistry, server, ghost, vars
<1>5. CASE Crash
  <2>1. KeepsAuth
    BY <1>5 DEF Crash, KeepsAuth, NoRequest
  <2>2. calm' = calm /\ mem' = disk /\ disk' = disk
    BY <1>5 DEF Crash, ghost
  <2> QED  BY <2>1, <2>2, StagedSame DEF StagedInv
<1> QED  BY <1>2, <1>3, <1>4, <1>5
         DEF Next, Operator, StageHandoff, IssueKey, RevokeKeys, BeginReset, EndReset, RemoveClient,
             ReEnroll, CheckProvision, Provision, FlushRegistry, ExpireGrace, ExpireToken, vars

\* Two requests signed with one staged key both pass, whatever promotes it, the
\* grace period, hand-offs and restarts do in between.
THEOREM StagedKeysPass == Spec => [][StagedProofAccepted]_vars
<1>1. Init => StagedInv
  BY KeysAssumption DEF Init, StagedInv, NoRecord, NoRequest
<1>2. KeysInv /\ StagedInv /\ [Next]_vars => StagedInv'
  BY StagedServerStep, StagedOtherStep
<1>3. KeysInv /\ StagedInv /\ [Next]_vars => StagedProofAccepted
  <2> SUFFICES ASSUME KeysInv, StagedInv, [Next]_vars, NEW r \in Request,
                      req[r].pc = "auth", req[r].slot = "pending", req'[r].pc = "idle",
                      crashes' = crashes, calm', ~(req[r].key < mem.current)
               PROVE  FALSE
    BY DEF StagedProofAccepted, At, KeysInv, TypeOK
  <2>1. TypeOK /\ \A q \in Request : req[q] \in RequestRec
    BY DEF KeysInv, TypeOK
  <2>2. ASSUME NEW q \in Request, NEW n, Move(q, n) PROVE q = r
    BY <2>1, <2>2 DEF Move, TypeOK
  <2>3. CASE Promote(r)
    <3>1. calm /\ ~IsCurrent(req[r].key) /\ ~(req[r].key = mem.pending /\ mem.active)
      <4>1. ~Goto(r, "accepted")
        <5>1. [req[r] EXCEPT !.pc = "accepted"].pc = "accepted"
          BY <2>1 DEF RequestRec
        <5> QED  BY <2>1, <5>1 DEF Goto, Move, TypeOK
      <4> QED  BY <2>3, <4>1 DEF Promote, Stays, Upset
    <3>2. mem.active /\ req[r].key <= mem.current /\ req[r].key # mem.current
      BY <3>1 DEF StagedInv, IsCurrent
    <3>3. req[r].key \in Nat /\ mem.current \in Nat
      <4>1. req[r].key \in Key /\ mem.current \in Key /\ MaxKeys \in Nat
        BY <2>1, <3>2, AtStep, KeysAssumption DEF KeysInv, TypeOK, Fit, Record
      <4> QED  BY <4>1 DEF Key
    <3> QED  BY <3>2, <3>3
  <2>4. req' # req
    OBVIOUS
  <2>5. \A q \in Request : \A n : Move(q, n) => q = r
    BY <2>2
  <2>6. \A q \in Request : ~Send(q, "signed") /\ ~Send(q, "handshake") /\ ~Receive(q) /\ ~Lose(q)
    BY <2>5 DEF Send, Receive, Lose, At
  <2>7. \A q \in Request : ServerStep(q) => Promote(r)
    <3> SUFFICES ASSUME NEW q \in Request, ServerStep(q) PROVE Promote(r)
      OBVIOUS
    <3>1. q = r
      BY <2>5 DEF ServerStep, EnterHandshake, MatchKey, Promote, MarkVerified, AcceptPrevious,
         DecideHandoff, HandOff, VerifyToken, ConsumeToken, IssueClaimed, End, Goto
    <3> QED  BY <3>1 DEF ServerStep, EnterHandshake, MatchKey, Promote, MarkVerified,
         AcceptPrevious, DecideHandoff, HandOff, VerifyToken, ConsumeToken, IssueClaimed, At
  <2>8. ~Crash
    BY KeysAssumption DEF Crash, KeysInv, TypeOK
  <2> QED  BY <2>3, <2>4, <2>6, <2>7, <2>8
           DEF Next, Operator, StageHandoff, IssueKey, RevokeKeys, BeginReset, EndReset,
               RemoveClient, ReEnroll, CheckProvision, Provision, FlushRegistry, ExpireGrace,
               ExpireToken, vars
<1> QED  BY <1>1, <1>2, <1>3, DeviceKeysInvariant, PTL DEF Spec

\* What the run checks of the credentials, at every step.
THEOREM DeviceCredentials == Spec => CredentialsAreSafe
BY KeysStaySound, StagedKeysPass, PTL DEF CredentialsAreSafe

-----------------------------------------------------------------------------
(* A device that sends one request at a time keeps access.                 *)

\* What a request carries there and back.
Carried(q, k, s) ==
  /\ q.pc # "idle" => q.key = k
  /\ q.pc \in {"claim", "consume", "issue"} => ~s.active
  /\ q.newKey # None => q.pc = "reply" /\ s.active /\ q.newKey \in {s.current, s.pending}

\* While no operator has intervened and no write has failed, the device holds
\* the current key or the staged one, and no answer brings another.
AccessInv ==
  calm =>
    /\ mem = disk
    /\ held # None => mem.active /\ held \in {mem.current, mem.pending}
    /\ \A r \in Request : Carried(req[r], held, mem)

\* No other request is under way.
Alone(r) == \A q \in Request : q # r => req[q].pc = "idle"

\* A step of the request.
LEMMA AccessMove ==
  ASSUME TypeOK, AccessInv, NEW r \in Request, Alone(r), NEW n, Move(r, n), calm' => calm,
         calm' => /\ mem' = disk'
                  /\ held' # None => mem'.active /\ held' \in {mem'.current, mem'.pending}
                  /\ Carried(n, held', mem')
  PROVE  AccessInv'
<1>1. ASSUME NEW q \in Request, calm' PROVE Carried(req'[q], held', mem')
  <2>1. CASE q = r
    BY <1>1, <2>1 DEF TypeOK, Move
  <2>2. CASE q # r
    <3>1. req'[q] = req[q] /\ req[q].pc = "idle" /\ Carried(req[q], held, mem)
      BY <1>1, <2>2 DEF TypeOK, Move, AccessInv, Alone
    <3> QED  BY <3>1 DEF Carried
  <2> QED  BY <2>1, <2>2
<1> QED  BY <1>1 DEF AccessInv

\* A step that ends the request.
LEMMA AccessEnd ==
  ASSUME TypeOK, AccessInv, NEW r \in Request, Alone(r), Move(r, NoRequest),
         calm' => calm, held' = held,
         calm' => /\ mem' = disk' /\ mem'.active = mem.active /\ mem'.current = mem.current
                  /\ mem'.pending = mem.pending
  PROVE  AccessInv'
<1>1. NoRequest.pc = "idle" /\ NoRequest.newKey = None
  BY DEF NoRequest
<1>2. Carried(NoRequest, held', mem')
  BY <1>1 DEF Carried
<1> QED  BY <1>2, AccessMove DEF AccessInv

\* A step beside the request.
LEMMA AccessBeside ==
  ASSUME AccessInv, UNCHANGED <<req, held>>, calm' => calm,
         calm' => /\ mem' = disk' /\ mem'.active = mem.active /\ mem'.current = mem.current
                  /\ (mem'.pending = mem.pending \/ mem.pending = None)
  PROVE  AccessInv'
BY DEF AccessInv, Carried

LEMMA AccessServerStep ==
  ASSUME KeysInv, AccessInv, NEW r \in Request, Alone(r), ServerStep(r)
  PROVE  AccessInv'
<1>1. TypeOK /\ req[r] \in RequestRec /\ mem \in Record
  BY DEF KeysInv, TypeOK
<1>2. held' = held /\ (calm' => calm)
  BY DEF ServerStep, EnterHandshake, MatchKey, Promote, MarkVerified, AcceptPrevious, DecideHandoff,
     HandOff, VerifyToken, ConsumeToken, IssueClaimed, Stays, Upset, device, ghost
<1>3. calm' => Carried(req[r], held, mem) /\ mem = disk
  BY <1>2 DEF AccessInv
<1>4. ASSUME NEW pc \in {"accepted", "eligible", "consume", "issue"}, Goto(r, pc),
             req[r].pc \notin {"idle", "reply"},
             pc \in {"consume", "issue"} => req[r].pc \in {"claim", "consume", "issue"},
             calm' => /\ mem' = disk' /\ mem'.active = mem.active /\ mem'.current = mem.current
                      /\ mem'.pending = mem.pending
      PROVE  AccessInv'
  <2> DEFINE n == [req[r] EXCEPT !.pc = pc]
  <2>1. n.pc = pc /\ n.key = req[r].key /\ n.newKey = req[r].newKey
    BY <1>1 DEF RequestRec
  <2>2. Move(r, n)
    BY <1>4 DEF Goto
  <2> HIDE DEF n
  <2>3. calm' => Carried(n, held', mem')
    BY <1>2, <1>3, <1>4, <2>1 DEF Carried
  <2> QED  BY <1>1, <1>2, <1>4, <2>2, <2>3, AccessMove DEF AccessInv
<1>5. CASE EnterHandshake(r)
  <2>1. req[r].pc = "sent"
    BY <1>5 DEF EnterHandshake, At
  <2>2. calm' => mem' = disk' /\ (mem' = mem \/ mem' = [mem EXCEPT !.token = tokens'])
    BY <1>2, <1>3, <1>5 DEF EnterHandshake, NoSave, Save, Upset
  <2>3. calm' => /\ mem' = disk' /\ mem'.active = mem.active /\ mem'.current = mem.current
                 /\ mem'.pending = mem.pending
    BY <1>1, <2>2 DEF Record
  <2>4. CASE Move(r, NoRequest)
    BY <1>1, <1>2, <2>3, <2>4, AccessEnd
  <2>5. ASSUME NEW n, Move(r, n), n.key = req[r].key, n.newKey = req[r].newKey,
               n.pc \in {"matching", "claim", "reply"}, n.pc = "claim" => ~HasKey
        PROVE  AccessInv'
    <3>1. n.pc = "claim" => ~mem.active
      BY <2>5 DEF HasKey, Usable, KeysInv, TypeOK
    <3>2. calm' => Carried(n, held', mem')
      BY <1>2, <1>3, <2>1, <2>3, <2>5, <3>1 DEF Carried
    <3> QED  BY <1>1, <1>2, <2>3, <2>5, <3>2, AccessMove DEF AccessInv
  <2>6. ASSUME NEW pc \in {"matching", "claim"}, NEW f, pc = "claim" => ~HasKey,
               Move(r, [req[r] EXCEPT !.pc = pc, !.fresh = f])
        PROVE  AccessInv'
    <3> DEFINE n == [req[r] EXCEPT !.pc = pc, !.fresh = f]
    <3>1. n.key = req[r].key /\ n.newKey = req[r].newKey /\ n.pc = pc
      BY <1>1 DEF RequestRec
    <3>2. Move(r, n)
      BY <2>6
    <3> HIDE DEF n
    <3> QED  BY <2>5, <2>6, <3>1, <3>2
  <2>7. CASE Move(r, [req[r] EXCEPT !.pc = "reply", !.newToken = tokens'])
    <3> DEFINE n == [req[r] EXCEPT !.pc = "reply", !.newToken = tokens']
    <3>1. n.key = req[r].key /\ n.newKey = req[r].newKey /\ n.pc = "reply"
      BY <1>1 DEF RequestRec
    <3>2. Move(r, n)
      BY <2>7
    <3> HIDE DEF n
    <3> QED  BY <2>5, <3>1, <3>2
  <2>8. CASE Move(r, [req[r] EXCEPT !.pc = "reply"])
    <3> DEFINE n == [req[r] EXCEPT !.pc = "reply"]
    <3>1. n.key = req[r].key /\ n.newKey = req[r].newKey /\ n.pc = "reply"
      BY <1>1 DEF RequestRec
    <3>2. Move(r, n)
      BY <2>8
    <3> HIDE DEF n
    <3> QED  BY <2>5, <3>1, <3>2
  <2>9. \/ \E f : HasKey /\ Move(r, [req[r] EXCEPT !.pc = "matching", !.fresh = f])
        \/ \E f : ~HasKey /\ Move(r, [req[r] EXCEPT !.pc = "claim", !.fresh = f])
        \/ Move(r, [req[r] EXCEPT !.pc = "reply"])
        \/ Move(r, [req[r] EXCEPT !.pc = "reply", !.newToken = tokens'])
        \/ Move(r, NoRequest)
    BY <1>5 DEF EnterHandshake, Goto
  <2> QED  BY <2>4, <2>6, <2>7, <2>8, <2>9
<1>6. CASE MatchKey(r)
  <2>1. UNCHANGED <<mem, disk, calm>>
    BY <1>6 DEF MatchKey, server
  <2>2. CASE End(r)
    BY <1>1, <1>2, <1>3, <2>1, <2>2, AccessEnd DEF End
  <2>3. CASE ~End(r)
    <3> DEFINE n == [req[r] EXCEPT !.pc = "auth", !.slot = Slot(req[r].key)]
    <3>1. n.key = req[r].key /\ n.newKey = req[r].newKey /\ n.pc = "auth"
      BY <1>1 DEF RequestRec
    <3>2. Move(r, n) /\ req[r].pc \in {"matching", "sent"}
      BY <1>6, <2>3 DEF MatchKey, At
    <3> HIDE DEF n
    <3>3. calm' => Carried(n, held', mem')
      BY <1>2, <1>3, <2>1, <3>1, <3>2 DEF Carried
    <3> QED  BY <1>1, <1>2, <2>1, <3>2, <3>3, AccessMove DEF AccessInv
  <2> QED  BY <2>2, <2>3
<1>7. CASE Promote(r)
  <2>1. req[r].pc = "auth"
    BY <1>7 DEF Promote, At
  <2>2. CASE NoSave
    BY <1>1, <1>2, <1>3, <1>4, <1>7, <2>1, <2>2, AccessEnd DEF Promote, NoSave, End
  <2>3. CASE ~calm'
    BY <2>3 DEF AccessInv
  <2>4. CASE calm' /\ Save(Promoted(mem)) /\ Goto(r, "accepted") /\ req[r].key = mem.pending
             /\ mem.active
    <3> DEFINE n == [req[r] EXCEPT !.pc = "accepted"]
    <3>1. n.pc = "accepted" /\ n.key = req[r].key /\ n.newKey = req[r].newKey
      BY <1>1 DEF RequestRec
    <3>2. Move(r, n)
      BY <2>4 DEF Goto
    <3> HIDE DEF n
    <3>3. mem' = disk' /\ mem'.active /\ mem'.current = mem.pending
      BY <1>1, <2>4 DEF Save, Promoted, Record
    <3>4. held = mem.pending /\ req[r].newKey = None
      BY <1>3, <2>1, <2>4 DEF Carried
    <3>5. Carried(n, held', mem')
      BY <1>2, <2>4, <3>1, <3>4 DEF Carried
    <3> QED  BY <1>1, <1>2, <3>2, <3>3, <3>4, <3>5, AccessMove
  <2> QED  BY <1>7, <2>2, <2>3, <2>4 DEF Promote, Upset
<1>8. CASE MarkVerified(r)
  <2>1. req[r].pc = "auth"
    BY <1>8 DEF MarkVerified, At
  <2>2. calm' => mem' = disk' /\ (mem' = mem \/ mem' = [mem EXCEPT !.verified = TRUE])
    BY <1>2, <1>3, <1>8 DEF MarkVerified, NoSave, Save, Upset
  <2>3. calm' => /\ mem' = disk' /\ mem'.active = mem.active /\ mem'.current = mem.current
                 /\ mem'.pending = mem.pending
    BY <1>1, <2>2 DEF Record
  <2>4. End(r) \/ Goto(r, "accepted")
    BY <1>8 DEF MarkVerified
  <2> QED  BY <1>1, <1>2, <1>4, <2>1, <2>3, <2>4, AccessEnd DEF End
<1>9. CASE AcceptPrevious(r) \/ DecideHandoff(r) \/ VerifyToken(r)
  <2>1. UNCHANGED <<mem, disk, calm>>
    BY <1>9 DEF AcceptPrevious, DecideHandoff, VerifyToken, server, ghost
  <2>2. \/ req[r].pc \in {"auth", "accepted"} /\ (Goto(r, "accepted") \/ Goto(r, "eligible"))
        \/ req[r].pc = "accepted" /\ Goto(r, "reply")
        \/ req[r].pc = "claim" /\ Goto(r, "consume")
        \/ End(r)
    BY <1>9 DEF AcceptPrevious, DecideHandoff, VerifyToken, At
  <2>3. ASSUME req[r].pc = "accepted", Goto(r, "reply") PROVE AccessInv'
    <3> DEFINE n == [req[r] EXCEPT !.pc = "reply"]
    <3>1. n.pc = "reply" /\ n.key = req[r].key /\ n.newKey = req[r].newKey
      BY <1>1 DEF RequestRec
    <3>2. Move(r, n)
      BY <2>3 DEF Goto
    <3> HIDE DEF n
    <3>3. calm' => Carried(n, held', mem')
      BY <1>2, <1>3, <2>1, <2>3, <3>1 DEF Carried
    <3> QED  BY <1>1, <1>2, <2>1, <3>2, <3>3, AccessMove DEF AccessInv
  <2>4. CASE End(r)
    BY <1>1, <1>2, <1>3, <2>1, <2>4, AccessEnd DEF End
  <2> QED  BY <1>3, <1>4, <2>1, <2>2, <2>3, <2>4
<1>10. CASE HandOff(r)
  <2> DEFINE n == [req[r] EXCEPT !.pc = "reply",
                                 !.newKey = IF mem.active THEN mem.pending ELSE None]
  <2>1. n.pc = "reply" /\ n.key = req[r].key /\ n.newKey = (IF mem.active THEN mem.pending ELSE None)
    BY <1>1 DEF RequestRec
  <2>2. Move(r, n) /\ req[r].pc = "eligible" /\ UNCHANGED <<mem, disk, calm>>
    BY <1>10 DEF HandOff, At, server, ghost
  <2> HIDE DEF n
  <2>3. calm' => Carried(n, held', mem')
    BY <1>2, <1>3, <2>1, <2>2 DEF Carried
  <2> QED  BY <1>1, <1>2, <2>2, <2>3, AccessMove DEF AccessInv
<1>11. CASE ConsumeToken(r)
  <2>1. req[r].pc = "consume" /\ (Goto(r, "issue") \/ End(r))
    BY <1>11 DEF ConsumeToken, At
  <2>2. calm' => mem' = disk' /\ mem' = [mem EXCEPT !.token = None]
    BY <1>11 DEF ConsumeToken, Save, Upset
  <2>3. calm' => /\ mem' = disk' /\ mem'.active = mem.active /\ mem'.current = mem.current
                 /\ mem'.pending = mem.pending
    BY <1>1, <2>2 DEF Record
  <2> QED  BY <1>1, <1>2, <1>4, <2>1, <2>3, AccessEnd DEF End
<1>12. CASE IssueClaimed(r)
  <2>1. req[r].pc = "issue" /\ keys' = keys + 1 /\ keys \in Nat
    BY <1>1, <1>12, Counts DEF IssueClaimed, At
  <2>2. CASE ~calm'
    BY <2>2 DEF AccessInv
  <2>3. CASE calm'
    <3> DEFINE n == [req[r] EXCEPT !.pc = "reply", !.newKey = keys']
    <3>1. n.pc = "reply" /\ n.key = req[r].key /\ n.newKey = keys'
      BY <1>1 DEF RequestRec
    <3>2. Move(r, n) /\ Save(Issued(mem, keys'))
      BY <1>12, <2>3 DEF IssueClaimed, Upset
    <3> HIDE DEF n
    <3>3. mem' = disk' /\ mem'.active /\ mem'.current = keys'
      BY <1>1, <3>2 DEF Save, Issued, Record
    <3>4. held = None /\ req[r].key = held
      BY <1>2, <1>3, <2>1, <2>3 DEF Carried, AccessInv
    <3>5. Carried(n, held', mem')
      BY <1>2, <3>1, <3>3, <3>4 DEF Carried
    <3> QED  BY <1>1, <1>2, <3>2, <3>3, <3>4, <3>5, AccessMove
  <2> QED  BY <2>2, <2>3
<1> QED  BY <1>5, <1>6, <1>7, <1>8, <1>9, <1>10, <1>11, <1>12 DEF ServerStep

LEMMA AccessOtherStep ==
  ASSUME KeysInv, AccessInv, OneRequest, OneRequest', Next,
         \A r \in Request : ~ServerStep(r)
  PROVE  AccessInv'
<1>1. TypeOK /\ mem \in Record /\ disk \in Record /\ \A r \in Request : req[r] \in RequestRec
  BY DEF KeysInv, TypeOK
<1>0. ASSUME NEW r \in Request, req[r].pc # "idle" PROVE Alone(r)
  BY <1>0 DEF OneRequest, Alone
<1>2. ASSUME NEW r \in Request, NEW kind \in {"signed", "handshake"}, Send(r, kind)
      PROVE  AccessInv'
  <2> DEFINE n == [NoRequest EXCEPT !.pc = "sent", !.kind = kind, !.key = held, !.token = claim]
  <2>1. n.pc = "sent" /\ n.key = held /\ n.newKey = None
    BY DEF NoRequest
  <2>2. Move(r, n) /\ UNCHANGED <<mem, disk, calm, held>>
    BY <1>2 DEF Send, server, device, ghost
  <2> HIDE DEF n
  <2>3. Carried(n, held', mem')
    BY <2>1, <2>2 DEF Carried
  <2>4. Alone(r)
    <3>1. req'[r] = n /\ \A q \in Request : q # r => req'[q] = req[q]
      BY <1>1, <2>2 DEF Move, TypeOK
    <3> QED  BY <2>1, <3>1 DEF OneRequest, Alone
  <2> QED  BY <1>1, <2>2, <2>3, <2>4, AccessMove DEF AccessInv
<1>3. ASSUME NEW r \in Request, Receive(r)
      PROVE  AccessInv'
  <2>1. Move(r, NoRequest) /\ UNCHANGED <<mem, disk, calm>>
        /\ held' = IF req[r].newKey # None THEN req[r].newKey ELSE held
    BY <1>3 DEF Receive, server, ghost
  <2>2. NoRequest.pc = "idle" /\ NoRequest.newKey = None
    BY DEF NoRequest
  <2>3. Carried(NoRequest, held', mem')
    BY <2>2 DEF Carried
  <2>4. calm' => (held' # None => mem'.active /\ held' \in {mem'.current, mem'.pending})
    BY <2>1 DEF AccessInv, Carried
  <2>5. Alone(r)
    BY <1>3, <1>0 DEF Receive, At
  <2> QED  BY <1>1, <2>1, <2>3, <2>4, <2>5, AccessMove DEF AccessInv
<1>4. ASSUME NEW r \in Request, Lose(r)
      PROVE  AccessInv'
  <2>1. Alone(r)
    BY <1>4, <1>0 DEF Lose, At
  <2> QED  BY <1>1, <1>4, <2>1, AccessEnd DEF Lose, AccessInv, server, device, ghost
<1>5. CASE ~calm'
  BY <1>5 DEF AccessInv
<1>6. CASE StageHandoff
  <2>1. UNCHANGED <<req, held>> /\ mem.pending = None
    BY <1>6 DEF StageHandoff, device
  <2>2. calm' => calm /\ mem' = disk' /\ mem' = [mem EXCEPT !.pending = keys']
    BY <1>6 DEF StageHandoff, Save, Stays, Upset
  <2> QED  BY <1>1, <2>1, <2>2, AccessBeside DEF Record
<1>7. CASE ReEnroll
  <2>1. UNCHANGED <<req, held>>
    BY <1>7 DEF ReEnroll, device
  <2>2. calm' => calm /\ mem' = disk' /\ mem' = [mem EXCEPT !.token = None]
    BY <1>7 DEF ReEnroll, Save, Stays, Upset
  <2> QED  BY <1>1, <2>1, <2>2, AccessBeside DEF Record
<1>8. CASE ExpireGrace \/ ExpireToken
  <2>1. UNCHANGED <<req, held, calm>>
    BY <1>8 DEF ExpireGrace, ExpireToken, device, ghost
  <2>2. calm => /\ mem' = disk' /\ mem'.active = mem.active /\ mem'.current = mem.current
                /\ mem'.pending = mem.pending
    BY <1>1, <1>8 DEF ExpireGrace, ExpireToken, AccessInv, Record
  <2> QED  BY <2>1, <2>2, AccessBeside
<1>9. CASE CheckProvision \/ Provision \/ FlushRegistry
  <2>1. UNCHANGED <<mem, disk, calm, req, held>>
    BY <1>9 DEF CheckProvision, Provision, FlushRegistry, server, device, ghost
  <2> QED  BY <2>1, AccessBeside DEF AccessInv
<1>10. CASE Crash
  <2>1. /\ mem' = disk /\ disk' = disk /\ held' = held /\ calm' = calm
        /\ req' = [r \in Request |-> NoRequest]
    BY <1>10 DEF Crash, device, ghost
  <2>2. NoRequest.pc = "idle" /\ NoRequest.newKey = None
    BY DEF NoRequest
  <2> QED  BY <2>1, <2>2 DEF AccessInv, Carried
<1> QED  BY <1>2, <1>3, <1>4, <1>5, <1>6, <1>7, <1>8, <1>9, <1>10
         DEF Next, Operator, IssueKey, RevokeKeys, BeginReset, EndReset, RemoveClient, Upset

LEMMA AccessInit == Init => AccessInv
  BY KeysAssumption DEF Init, AccessInv, Carried, NoRecord, NoRequest

LEMMA AccessNext ==
  ASSUME KeysInv, AccessInv, OneRequest, OneRequest', [Next]_vars
  PROVE  AccessInv'
<1>1. CASE UNCHANGED vars
  BY <1>1 DEF vars, server, device, ghost, AccessInv
<1>2. ASSUME NEW r \in Request, ServerStep(r) PROVE Alone(r)
  <2>1. req[r].pc # "idle"
    BY <1>2 DEF ServerStep, EnterHandshake, MatchKey, Promote, MarkVerified, AcceptPrevious,
       DecideHandoff, HandOff, VerifyToken, ConsumeToken, IssueClaimed, At
  <2> QED  BY <2>1 DEF OneRequest, Alone
<1> QED  BY <1>1, <1>2, AccessServerStep, AccessOtherStep

LEMMA AccessSigns == AccessInv => DeviceKeepsAccess
  BY DEF AccessInv, DeviceKeepsAccess, Usable

\* A device that sends one request at a time can always sign: staging, delivery,
\* lost answers, promotion, expiry and restarts never leave it with a key that
\* the server has forgotten.
THEOREM DeviceAccess == Spec /\ []OneRequest => []DeviceKeepsAccess
BY AccessInit, AccessNext, AccessSigns, DeviceKeysInvariant, PTL DEF Spec

-----------------------------------------------------------------------------
(* The security runtime: of its components, the keys take the steps of a     *)
(* device that sends one request at a time.                                  *)

\* While the behaviour is about the keys.
KeysPart == part = "keys" => KeysInv /\ AccessInv /\ OneRequest

LEMMA KeysPartInit == MCInit => KeysPart
<1>1. Init => OneRequest
  BY DEF Init, OneRequest, NoRequest
<1> QED  BY <1>1, InitInv, AccessInit DEF MCInit, KeysPart

LEMMA KeysPartNext == KeysPart /\ [MCNext]_MCvars => KeysPart'
<1> SUFFICES ASSUME KeysPart, [MCNext]_MCvars, part' = "keys" PROVE KeysPart'
  BY DEF KeysPart
<1>1. part = "keys"
  BY DEF MCNext, KeysStep, SessionsStep, LimitsStep, MCvars
<1>2. [Next]_vars /\ (OneRequest' \/ UNCHANGED vars)
  BY <1>1 DEF MCNext, KeysStep, SessionsStep, LimitsStep, MCvars
<1>3. OneRequest'
  BY <1>1, <1>2 DEF KeysPart, OneRequest, vars
<1> QED  BY <1>1, <1>2, <1>3, NextInv, AccessNext DEF KeysPart

\* The keys of a device in the composition: a device that sends one request at
\* a time, and that nobody has touched, can always sign (require_device_signature,
\* device_key_handoff_payload).
THEOREM DeviceKeepsSigning == MCSpec => []DeviceStaysIn
<1>1. KeysPart => DeviceStaysIn
  BY AccessSigns DEF KeysPart, DeviceStaysIn
<1> QED  BY <1>1, KeysPartInit, KeysPartNext, PTL DEF MCSpec

-----------------------------------------------------------------------------
(* The sessions of the dashboard.                                          *)

Session == Sessions!Session
NoSession == Sessions!NoSession
AccountRec == [pw : Password \cup {None}, ver : Nat, legacy : BOOLEAN]
RecoveryRec == [pw : Password \cup {None}, ver : Nat]
SessionRec == [who : Person \cup {"device", None}, ver : Nat]
Registry == [Session -> SessionRec]
RetiredRec == [secret : Nat, sessions : Registry, kept : BOOLEAN]
StateRec == [users : [Person -> AccountRec], recovery : [Person -> RecoveryRec],
             secret : Nat, sessions : Registry, retired : RetiredRec, key : Nat]
AskedRec == [pc : {"idle", "upgrade", "verified", "created", "checked", "refreshed"},
             user : Person \cup {None}, pw : Password \cup {None}, session : Nat]

\* No owner has too many sessions.
Bounded(R) ==
  /\ \A u \in Person : Cardinality(Sessions!Owned(R, u)) <= SessionLimit
  /\ Cardinality(Sessions!Owned(R, "device")) <= 1

\* What a state of the file or the memory is, with m sessions and n secrets made
\* so far: sessions are numbered, none is retired and present, secrets are old.
SoundState(s, m, n) ==
  /\ s \in StateRec /\ \E u \in Person : s.users[u].pw # None
  /\ \A i \in Session : i > m => s.sessions[i] = NoSession /\ s.retired.sessions[i] = NoSession
  /\ \A i \in Session : s.retired.sessions[i] = NoSession \/ s.sessions[i] = NoSession
  /\ s.secret <= n /\ s.retired.secret <= n
  /\ Bounded(s.sessions) /\ Bounded(s.retired.sessions)

\* No session is of a version its owner has not had yet, unless the owner is gone.
Within(s, rec) ==
  /\ rec.who \in Person /\ s.users[rec.who].pw # None => rec.ver <= s.users[rec.who].ver
  /\ rec.who = "device" => rec.ver <= s.key

\* A session that can never be good again: it is not there, or its owner is gone
\* or has a newer version.
Gone(s, rec) ==
  \/ rec = NoSession
  \/ rec.who \in Person /\ (s.users[rec.who].pw = None \/ rec.ver < s.users[rec.who].ver)
  \/ rec.who = "device" /\ rec.ver < s.key
Dead(s, i) == Gone(s, s.sessions[i]) /\ Gone(s, s.retired.sessions[i])

\* As long as no user is added: what was ended is dead.
KeptState(s, E) ==
  /\ \A i \in Session : Within(s, s.sessions[i]) /\ Within(s, s.retired.sessions[i])
  /\ \A i \in E \cap Session : Dead(s, i)

\* A rotation under way can be resolved.
Resolvable(s) ==
  /\ \A u \in Person : s.recovery[u].pw # None => s.users[u].pw \notin {None, s.recovery[u].pw}
  /\ s.retired.kept => s.retired.secret # s.secret

\* From s to t sessions disappear, retire or come back, and no new one appears;
\* versions only grow.
Drawn(Q, R) == \A i \in Session : Q[i] \in {R[i], NoSession}
Shrunk(s, t) ==
  /\ Drawn(t.sessions, s.sessions) \/ Drawn(t.sessions, s.retired.sessions)
  /\ Drawn(t.retired.sessions, s.sessions) \/ Drawn(t.retired.sessions, s.retired.sessions)
  /\ \A i \in Session : t.retired.sessions[i] = NoSession \/ t.sessions[i] = NoSession
Onward(s, t) ==
  /\ \A u \in Person : t.users[u].pw # None => s.users[u].pw # None /\ s.users[u].ver <= t.users[u].ver
  /\ s.key <= t.key

\* The least of some numbers.
Below == {p \in Nat \X Nat : p[1] < p[2]}

LEMMA BelowIsWellFounded == IsWellFoundedOn(Below, Nat)
  BY NatLessThanWellFounded DEF OpToRel, Below

LEMMA Smallest ==
  ASSUME NEW T, T \subseteq Nat, T # {}
  PROVE  \E x \in T : \A y \in T : x <= y
<1>1. \A x, y \in Nat : x < y => <<x, y>> \in Below
  BY DEF Below
<1>2. PICK x \in T : \A y \in T : ~ (<<y, x>> \in Below)
  BY BelowIsWellFounded, WFMin
<1>3. ASSUME NEW y \in T PROVE x <= y
  <2>1. x \in Nat /\ y \in Nat
    OBVIOUS
  <2>2. ~ (y < x)
    BY <2>1, <1>1, <1>2, Zenon
  <2> QED  BY <2>1, <2>2
<1> QED  BY <1>3

LEMMA SessionFacts ==
  /\ Session = 1 .. MaxSessions /\ IsFiniteSet(Session) /\ NoSession \in SessionRec
  /\ NoSession.who = None /\ None \notin Person /\ None # "device" /\ "device" \notin Person
  /\ NoSession = [who |-> None, ver |-> 0]
<1>1. Session = 1 .. MaxSessions /\ MaxSessions \in Nat
  BY AccountsAssumption DEF Session, Sessions!Session
<1>2. IsFiniteSet(Session)
  BY <1>1, FS_Interval
<1> QED  BY <1>1, <1>2, AccountsAssumption DEF NoSession, Sessions!NoSession, SessionRec

LEMMA OwnedShrinks ==
  ASSUME NEW R \in Registry, NEW Q \in Registry, Drawn(Q, R), Bounded(R)
  PROVE  Bounded(Q)
<1>1. ASSUME NEW w \in Person \cup {"device"}
      PROVE  /\ Cardinality(Sessions!Owned(Q, w)) <= Cardinality(Sessions!Owned(R, w))
             /\ Cardinality(Sessions!Owned(Q, w)) \in Nat /\ Cardinality(Sessions!Owned(R, w)) \in Nat
  <2>1. Sessions!Owned(Q, w) \subseteq Sessions!Owned(R, w)
    BY SessionFacts DEF Sessions!Owned, Session, Drawn
  <2>2. Sessions!Owned(R, w) \subseteq Session
    BY DEF Sessions!Owned, Session
  <2>3. IsFiniteSet(Sessions!Owned(R, w))
    BY <2>2, SessionFacts, FS_Subset
  <2> QED  BY <2>1, <2>3, FS_Subset, FS_CardinalityType
<1> QED  BY <1>1, AccountsAssumption DEF Bounded

\* No sessions at all.
LEMMA NobodyBounded == Sessions!NoSessions \in Registry /\ Bounded(Sessions!NoSessions)
                       /\ \A i \in Session : Sessions!NoSessions[i] = NoSession
<1>1. Sessions!NoSessions \in Registry /\ \A i \in Session : Sessions!NoSessions[i] = NoSession
  BY SessionFacts DEF Sessions!NoSessions, NoSession, Session, Registry
<1>2. \A w \in Person \cup {"device"} : Sessions!Owned(Sessions!NoSessions, w) = {}
  BY <1>1, SessionFacts DEF Sessions!Owned, Session
<1>3. Bounded(Sessions!NoSessions)
  BY <1>2, FS_EmptySet, AccountsAssumption DEF Bounded
<1> QED  BY <1>1, <1>3

LEMMA ShrunkSound ==
  ASSUME NEW s, NEW m \in Nat, NEW n \in Nat, SoundState(s, m, n),
         NEW t \in StateRec, NEW k \in Nat, NEW l \in Nat, m <= k, Shrunk(s, t),
         t.secret <= l, t.retired.secret <= l, \E u \in Person : t.users[u].pw # None
  PROVE  SoundState(t, k, l)
<1>1. s \in StateRec /\ s.sessions \in Registry /\ s.retired.sessions \in Registry
      /\ t.sessions \in Registry /\ t.retired.sessions \in Registry
  BY DEF SoundState, StateRec, RetiredRec
<1>2. Bounded(t.sessions) /\ Bounded(t.retired.sessions)
  BY <1>1, OwnedShrinks DEF SoundState, Shrunk
<1>3. \A i \in Session : i \in Nat
  BY SessionFacts
<1>4. \A i \in Session : i > k => t.sessions[i] = NoSession /\ t.retired.sessions[i] = NoSession
  BY <1>3 DEF SoundState, Shrunk, Drawn
<1>5. \A i \in Session : t.retired.sessions[i] = NoSession \/ t.sessions[i] = NoSession
  BY DEF SoundState, Shrunk
<1> QED  BY <1>2, <1>4, <1>5 DEF SoundState

LEMMA GoneStays ==
  ASSUME NEW s \in StateRec, NEW t \in StateRec, Onward(s, t), NEW rec \in SessionRec
  PROVE  /\ Gone(s, rec) => Gone(t, rec)
         /\ Within(s, rec) => Within(t, rec)
<1>1. s.key \in Nat /\ t.key \in Nat /\ rec.ver \in Nat
      /\ \A u \in Person : s.users[u].ver \in Nat /\ t.users[u].ver \in Nat
  BY DEF StateRec, AccountRec, SessionRec
<1> QED  BY <1>1 DEF Gone, Within, Onward

LEMMA NobodyGone ==
  ASSUME NEW s
  PROVE  Gone(s, NoSession) /\ Within(s, NoSession)
BY SessionFacts DEF Gone, Within

LEMMA ShrunkKept ==
  ASSUME NEW s \in StateRec, NEW t \in StateRec, NEW E, NEW F, KeptState(s, E), Shrunk(s, t), Onward(s, t),
         \A i \in (F \cap Session) \ E : Dead(t, i)
  PROVE  KeptState(t, F)
<1>1. \A i \in Session : s.sessions[i] \in SessionRec /\ s.retired.sessions[i] \in SessionRec
  BY DEF StateRec, RetiredRec, Registry
<1>2. ASSUME NEW i \in Session
      PROVE  /\ Within(t, t.sessions[i]) /\ Within(t, t.retired.sessions[i])
             /\ Dead(s, i) => Dead(t, i)
  <2>1. /\ t.sessions[i] \in {s.sessions[i], s.retired.sessions[i], NoSession}
        /\ t.retired.sessions[i] \in {s.sessions[i], s.retired.sessions[i], NoSession}
    BY DEF Shrunk, Drawn
  <2>2. Within(s, s.sessions[i]) /\ Within(s, s.retired.sessions[i])
    BY DEF KeptState
  <2> QED  BY <1>1, <2>1, <2>2, GoneStays, NobodyGone DEF Dead
<1> QED  BY <1>2 DEF KeptState

\* Who is dead is not accepted.
LEMMA DeadIsRefused ==
  ASSUME NEW s \in StateRec, NEW i \in Session, Dead(s, i)
  PROVE  ~Sessions!Backed(s, s.sessions[i]) \/ s.sessions[i] = NoSession
<1> DEFINE rec == s.sessions[i]
<1>1. s.key \in Nat /\ rec.ver \in Nat
      /\ \A u \in Person : s.users[u].ver \in Nat
  BY DEF StateRec, AccountRec, Registry, SessionRec
<1>2. Gone(s, rec)
  BY DEF Dead
<1> HIDE DEF rec
<1>3. CASE rec = NoSession
  BY <1>3 DEF rec
<1>4. CASE rec.who \in Person /\ (s.users[rec.who].pw = None \/ rec.ver < s.users[rec.who].ver)
  <2>1. rec.who # "device"
    BY <1>4, SessionFacts
  <2>2. ~(rec.who \in Sessions!Active(s) /\ rec.ver = s.users[rec.who].ver)
    <3>1. CASE s.users[rec.who].pw = None
      BY <3>1 DEF Sessions!Active
    <3>2. CASE rec.ver < s.users[rec.who].ver
      BY <1>1, <1>4, <3>2
    <3> QED  BY <1>4, <3>1, <3>2
  <2>3. ~Sessions!Backed(s, rec)
    BY <2>1, <2>2 DEF Sessions!Backed
  <2> QED  BY <2>3 DEF rec
<1>5. CASE rec.who = "device" /\ rec.ver < s.key
  <2>1. rec.who \notin Sessions!Active(s)
    BY <1>5, SessionFacts DEF Sessions!Active
  <2>2. rec.ver # s.key
    BY <1>1, <1>5
  <2>3. ~Sessions!Backed(s, rec)
    BY <2>1, <2>2 DEF Sessions!Backed
  <2> QED  BY <2>3 DEF rec
<1> QED  BY <1>2, <1>3, <1>4, <1>5 DEF Gone

\* The sessions of an owner from one on.
Newer(R, w, i) == {j \in Sessions!Owned(R, w) : j >= i}

\* Room for one more session of an owner.
LEMMA EvictionMakesRoom ==
  ASSUME NEW R \in Registry, NEW u \in Person
  PROVE  /\ Sessions!Evicted(R, u) \in Registry /\ Drawn(Sessions!Evicted(R, u), R)
         /\ Cardinality(Sessions!Owned(Sessions!Evicted(R, u), u)) < SessionLimit
<1> DEFINE Mine == Sessions!Owned(R, u)
           Stay == Sessions!Owned(Sessions!Evicted(R, u), u)
<1>1. Mine \subseteq Session /\ IsFiniteSet(Mine) /\ Session \subseteq Nat
  <2>1. Mine \subseteq Session
    BY DEF Sessions!Owned, Session
  <2>2. Session \subseteq Nat
    BY SessionFacts
  <2> HIDE DEF Mine
  <2> QED  BY <2>1, <2>2, SessionFacts, FS_Subset
<1>2. /\ Sessions!Evicted(R, u) \in Registry /\ Drawn(Sessions!Evicted(R, u), R)
      /\ \A i \in Stay : i \in Mine /\ Cardinality(Newer(R, u, i)) < SessionLimit
  <2>1. Sessions!Evicted(R, u)
          = [i \in Session |-> IF i \in {j \in Mine : Cardinality(Newer(R, u, j)) >= SessionLimit}
                               THEN NoSession ELSE R[i]]
    <3>1. Sessions!Evicted(R, u)
            = Sessions!Without(R, {i \in Mine : Cardinality(Newer(R, u, i)) >= SessionLimit})
      <4>1. Sessions!Evicted(R, u)
              = Sessions!Without(R, {i \in Sessions!Owned(R, u) :
                  Cardinality({j \in Sessions!Owned(R, u) : j >= i}) >= SessionLimit})
        BY Zenon DEF Sessions!Evicted, Sessions!Cardinality, Cardinality, Sessions!IsFiniteSet, IsFiniteSet
      <4>2. \A i : {j \in Sessions!Owned(R, u) : j >= i} = Newer(R, u, i)
        BY Zenon DEF Newer
      <4> QED  BY <4>1, <4>2
    <3>2. \A X : Sessions!Without(R, X) = [i \in Session |-> IF i \in X THEN NoSession ELSE R[i]]
      BY Zenon DEF Sessions!Without, NoSession, Session
    <3> QED  BY <3>1, <3>2, Zenon
  <2>2. \A j \in Mine : Cardinality(Newer(R, u, j)) \in Nat
    <3>1. \A j \in Mine : Newer(R, u, j) \subseteq Mine
      BY DEF Newer
    <3> QED  BY <3>1, <1>1, FS_Subset, FS_CardinalityType
  <2>3. /\ Sessions!Evicted(R, u) \in Registry /\ Drawn(Sessions!Evicted(R, u), R)
    BY <2>1, SessionFacts DEF Registry, Drawn
  <2>4. ASSUME NEW i \in Stay
        PROVE  i \in Mine /\ Cardinality(Newer(R, u, i)) < SessionLimit
    <3>1. i \in Session /\ Sessions!Evicted(R, u)[i].who = u
      BY DEF Sessions!Owned, Session
    <3>2. ~(i \in Mine /\ Cardinality(Newer(R, u, i)) >= SessionLimit) /\ R[i].who = u
      BY <3>1, <2>1, SessionFacts
    <3>3. i \in Mine
      BY <3>1, <3>2 DEF Sessions!Owned, Session
    <3> HIDE DEF Mine
    <3> QED  BY <3>2, <3>3, <2>2, AccountsAssumption
  <2> QED  BY <2>3, <2>4
<1>3. CASE Stay = {}
  BY <1>2, <1>3, FS_EmptySet, AccountsAssumption
<1>4. CASE Stay # {}
  <2>1. Stay \subseteq Nat
    BY <1>1, <1>2
  <2>2. PICK k \in Stay : \A j \in Stay : k <= j
    BY <1>4, <2>1, Smallest
  <2>3. Stay \subseteq Newer(R, u, k)
    BY <2>1, <2>2, <1>2 DEF Newer
  <2>4. IsFiniteSet(Newer(R, u, k))
    <3>1. Newer(R, u, k) \subseteq Mine
      BY DEF Newer
    <3> QED  BY <3>1, <1>1, FS_Subset
  <2>5. Cardinality(Stay) <= Cardinality(Newer(R, u, k))
        /\ Cardinality(Stay) \in Nat /\ Cardinality(Newer(R, u, k)) \in Nat
    BY <2>3, <2>4, FS_Subset, FS_CardinalityType
  <2> QED  BY <2>5, <1>2, <2>2, AccountsAssumption
<1> QED  BY <1>2, <1>3, <1>4

-----------------------------------------------------------------------------
\* The requests, and what has been counted.
RequestOK(q) ==
  /\ q \in AskedRec
  /\ q.pc = "upgrade" => q.user \in Person /\ q.pw \in Password
  /\ q.pc = "verified" => q.user \in Person
  /\ q.pc \in {"checked", "refreshed"} => q.session \in Session
AskedOK == asked \in [Request -> AskedRec] /\ \A r \in Request : RequestOK(asked[r])
CountsOK ==
  /\ made \in Nat /\ minted \in Nat /\ adds \in Nat /\ fileFaults \in Nat /\ fileCrashes \in Nat
  /\ cookie \in [Session -> Nat] /\ before \subseteq Session /\ ended \subseteq Session \cap 1 .. made
AccountsInv ==
  /\ AskedOK /\ CountsOK
  /\ SoundState(state, made, minted) /\ SoundState(file, made, minted)
  /\ adds = 0 => KeptState(state, ended) /\ KeptState(file, ended)

\* Requests that are about to store a hash have the password that is stored.
PasswordIsCurrent == \A r \in Request :
  asked[r].pc = "upgrade" => state.users[asked[r].user].pw = asked[r].pw

\* An operation that makes t of the state and ends the sessions over: what it
\* leaves, also when the save fails, and what is right about t.
Saved(t, over) ==
  /\ state' \in {state, t} /\ file' \in {file, t}
  /\ \/ ended' = ended
     \/ ended' = ended \cup over /\ state' = t /\ file' = t
Good(t, over) ==
  /\ SoundState(t, made', minted') /\ over \subseteq Session \cap 1 .. made'
  /\ adds' = 0 => KeptState(t, ended \cup over)
  /\ Resolvable(state) /\ PasswordIsCurrent => Resolvable(t)

\* Sound stays sound while more sessions and secrets are made.
LEMMA LaterSound ==
  ASSUME NEW s, NEW m \in Nat, NEW n \in Nat, SoundState(s, m, n),
         NEW k \in Nat, NEW l \in Nat, m <= k, n <= l
  PROVE  SoundState(s, k, l)
<1>1. s.secret \in Nat /\ s.retired.secret \in Nat /\ \A i \in Session : i \in Nat
  BY SessionFacts DEF SoundState, StateRec, RetiredRec
<1> QED  BY <1>1 DEF SoundState

LEMMA SavedSound ==
  ASSUME AccountsInv, made' \in Nat, minted' \in Nat, made <= made', minted <= minted',
         adds' = 0 => adds = 0, NEW t, NEW over, Saved(t, over), Good(t, over)
  PROVE  /\ SoundState(state', made', minted') /\ SoundState(file', made', minted')
         /\ adds' = 0 => KeptState(state', ended') /\ KeptState(file', ended')
         /\ ended' \subseteq Session \cap 1 .. made'
<1>1. SoundState(state, made', minted') /\ SoundState(file, made', minted')
  BY LaterSound DEF AccountsInv, CountsOK
<1>2. SoundState(state', made', minted') /\ SoundState(file', made', minted')
  BY <1>1 DEF Saved, Good
<1>3. ended' \subseteq Session \cap 1 .. made'
  <2>1. (ended \subseteq Session \cap 1 .. made') /\ over \subseteq Session \cap 1 .. made'
    BY DEF AccountsInv, CountsOK, Good
  <2> QED  BY <2>1 DEF Saved
<1>4. \A s : KeptState(s, ended \cup over) => KeptState(s, ended)
  BY DEF KeptState
<1>5. ASSUME adds' = 0 PROVE KeptState(state', ended') /\ KeptState(file', ended')
  <2>1. KeptState(state, ended) /\ KeptState(file, ended) /\ KeptState(t, ended \cup over)
    BY <1>5 DEF AccountsInv, Good
  <2> QED  BY <2>1, <1>4 DEF Saved
<1> QED  BY <1>2, <1>3, <1>5

\* What an operation that saves leaves.
LEMMA CommitSaves ==
  ASSUME NEW r, NEW t, NEW kept \in {state, t}, NEW next, NEW over,
         Sessions!Commit(r, t, kept, next, over)
  PROVE  Saved(t, over)
<1>1. CASE state' = t /\ file' = t /\ ended' = ended \cup over
  BY <1>1 DEF Saved
<1>2. CASE state' = kept /\ file' \in {file, t} /\ ended' = ended
  BY <1>2 DEF Saved
<1> QED  BY <1>1, <1>2 DEF Sessions!Commit

\* What the state is made of.
LEMMA StateFacts ==
  ASSUME AccountsInv
  PROVE  /\ state \in StateRec /\ made \in Nat /\ minted \in Nat
         /\ state.sessions \in Registry /\ state.retired.sessions \in Registry
         /\ state.secret \in Nat /\ state.retired.secret \in Nat
         /\ state.secret <= minted /\ state.retired.secret <= minted
         /\ \A i \in Session : /\ state.sessions[i] # NoSession => i \in 1 .. made
                               /\ state.retired.sessions[i] # NoSession => i \in 1 .. made
                               /\ state.sessions[i] = NoSession \/ state.retired.sessions[i] = NoSession
<1>1. \A i \in Session : i \in Nat /\ i > 0
  BY SessionFacts
<1>2. SoundState(state, made, minted) /\ made \in Nat /\ minted \in Nat
  BY DEF AccountsInv, CountsOK
<1>3. state \in StateRec
  BY <1>2 DEF SoundState
<1> QED  BY <1>1, <1>2, <1>3 DEF SoundState, StateRec, RetiredRec

\* An operation by which sessions only disappear, retire or come back.
LEMMA ShrunkGood ==
  ASSUME AccountsInv, made' = made, minted' \in Nat, minted <= minted', adds' = 0 => adds = 0,
         NEW t \in StateRec, NEW over, Shrunk(state, t), adds' = 0 => Onward(state, t),
         t.secret <= minted', t.retired.secret <= minted', \E u \in Person : t.users[u].pw # None,
         over \subseteq Session \cap 1 .. made, adds' = 0 => \A i \in over \cap Session : Dead(t, i),
         Resolvable(state) /\ PasswordIsCurrent => Resolvable(t)
  PROVE  Good(t, over)
<1>1. SoundState(t, made', minted')
  BY ShrunkSound, StateFacts DEF AccountsInv
<1>2. ASSUME adds' = 0 PROVE KeptState(t, ended \cup over)
  <2>1. KeptState(state, ended) /\ state \in StateRec
    BY <1>2, StateFacts DEF AccountsInv
  <2>2. \A i \in ((ended \cup over) \cap Session) \ ended : Dead(t, i)
    BY <1>2
  <2> QED  BY <1>2, <2>1, <2>2, ShrunkKept
<1> QED  BY <1>1, <1>2 DEF Good

\* An operation on the accounts leaves something sound.
Done == \E t, over : Saved(t, over) /\ Good(t, over)

LEMMA WithoutFacts ==
  ASSUME NEW R \in Registry, NEW S
  PROVE  /\ Sessions!Without(R, S) \in Registry
         /\ \A i \in Session : Sessions!Without(R, S)[i] = IF i \in S THEN NoSession ELSE R[i]
         /\ Drawn(Sessions!Without(R, S), R)
<1>1. Sessions!Without(R, S) = [i \in Session |-> IF i \in S THEN NoSession ELSE R[i]]
  BY DEF Sessions!Without, NoSession, Session
<1> QED  BY <1>1, SessionFacts DEF Registry, Drawn

\* Sessions are taken out of the state.
LEMMA RevokedGood ==
  ASSUME AccountsInv, made' = made, minted' = minted, adds' = adds, NEW S, NEW over,
         over \subseteq S \cap Session, \A i \in over : state.sessions[i] # NoSession
  PROVE  Good([state EXCEPT !.sessions = Sessions!Without(@, S)], over)
<1> DEFINE t == [state EXCEPT !.sessions = Sessions!Without(@, S)]
<1>1. state \in StateRec
  BY StateFacts
<1>2. /\ t \in StateRec /\ t.sessions = Sessions!Without(state.sessions, S)
      /\ t.retired = state.retired /\ t.users = state.users /\ t.recovery = state.recovery
      /\ t.secret = state.secret /\ t.key = state.key
  BY <1>1, WithoutFacts DEF StateRec
<1> HIDE DEF t
<1>3. Shrunk(state, t)
  BY <1>2, StateFacts, WithoutFacts DEF Shrunk, Drawn
<1>4. Onward(state, t)
  BY <1>1, <1>2 DEF Onward, StateRec, AccountRec
<1>5. over \subseteq Session \cap 1 .. made
  BY StateFacts
<1>6. \A i \in over \cap Session : Dead(t, i)
  BY <1>2, StateFacts, WithoutFacts, NobodyGone DEF Dead
<1>7. Resolvable(state) => Resolvable(t)
  BY <1>2 DEF Resolvable
<1>8. \E u \in Person : t.users[u].pw # None
  BY <1>2 DEF AccountsInv, SoundState
<1>9. minted' \in Nat /\ minted <= minted' /\ t.secret <= minted' /\ t.retired.secret <= minted'
  BY <1>2, StateFacts
<1>10. Good(t, over)
  BY <1>2, <1>3, <1>4, <1>5, <1>6, <1>7, <1>8, <1>9, ShrunkGood
<1> QED  BY <1>10 DEF t

LEMMA RevokeDone ==
  ASSUME AccountsInv, NEW r \in Request, NEW S \in SUBSET Sessions!AllSessions(state),
         Sessions!RevokeSessions(r, S)
  PROVE  Done
<1>1. S \subseteq Session /\ \A i \in S : state.sessions[i] # NoSession
  BY DEF Sessions!AllSessions, Session, NoSession
<1>2. made' = made /\ minted' = minted /\ adds' = adds
  BY DEF Sessions!RevokeSessions, Sessions!counts
<1>3. Good([state EXCEPT !.sessions = Sessions!Without(@, S)], S)
  BY <1>1, <1>2, RevokedGood
<1>4. Saved([state EXCEPT !.sessions = Sessions!Without(@, S)], S)
  BY CommitSaves DEF Sessions!RevokeSessions, Sessions!Keep
<1> QED  BY <1>3, <1>4 DEF Done

LEMMA LogoutDone ==
  ASSUME AccountsInv, NEW r \in Request, Sessions!Logout(r)
  PROVE  Done
<1> DEFINE i == asked[r].session
           over == IF state.sessions[i] # NoSession THEN {i} ELSE {}
<1>1. asked[r].pc = "checked" /\ made' = made /\ minted' = minted /\ adds' = adds
  BY DEF Sessions!Logout, Sessions!counts, Sessions!At
<1>2. i \in Session
  BY <1>1 DEF AccountsInv, AskedOK, RequestOK
<1>3. over \subseteq {i} \cap Session /\ \A j \in over : state.sessions[j] # NoSession
  BY <1>2
<1>4. Saved([state EXCEPT !.sessions = Sessions!Without(@, {i})], over)
  BY CommitSaves DEF Sessions!Logout, Sessions!Keep, NoSession
<1> HIDE DEF i, over
<1>5. Good([state EXCEPT !.sessions = Sessions!Without(@, {i})], over)
  BY <1>1, <1>3, RevokedGood
<1> QED  BY <1>4, <1>5 DEF Done

\* The state as it is is as good as before.
LEMMA StateIsGood ==
  ASSUME AccountsInv, made' \in Nat, made <= made', minted' = minted, adds' = adds
  PROVE  Good(state, {})
<1>1. SoundState(state, made', minted')
  BY LaterSound DEF AccountsInv, CountsOK
<1>2. adds' = 0 => KeptState(state, ended \cup {})
  BY DEF AccountsInv, KeptState
<1> QED  BY <1>1, <1>2 DEF Good

LEMMA RefreshDone ==
  ASSUME AccountsInv, NEW r \in Request, Sessions!Refresh(r)
  PROVE  Done
<1>1. made' = made /\ minted' = minted /\ adds' = adds /\ made \in Nat
  BY DEF Sessions!Refresh, Sessions!counts, AccountsInv, CountsOK
<1>2. Saved(state, {})
  <2>1. CASE Sessions!Commit(r, state, state, [asked[r] EXCEPT !.pc = "refreshed"], {})
    BY <2>1, CommitSaves
  <2>2. CASE state' = state /\ file' = file /\ ended' = ended
    BY <2>2 DEF Saved
  <2> QED  BY <2>1, <2>2 DEF Sessions!Refresh
<1>3. Good(state, {})
  BY <1>1, StateIsGood
<1> QED  BY <1>2, <1>3 DEF Done

LEMMA RotateSecretDone ==
  ASSUME AccountsInv, NEW r \in Request, Sessions!RotateSecret(r)
  PROVE  Done
<1> DEFINE t == [state EXCEPT !.retired = [secret |-> state.secret, sessions |-> state.sessions,
                                           kept |-> TRUE],
                              !.secret = minted + 1, !.sessions = Sessions!NoSessions]
<1>1. made' = made /\ minted' = minted + 1 /\ adds' = adds
  BY DEF Sessions!RotateSecret
<1>2. Saved(t, {})
  BY CommitSaves DEF Sessions!RotateSecret, Sessions!Restore
<1>3. state \in StateRec /\ minted \in Nat /\ state.secret \in Nat /\ state.secret <= minted
  BY StateFacts
<1>4. /\ t \in StateRec /\ t.sessions = Sessions!NoSessions
      /\ t.retired.sessions = state.sessions /\ t.retired.secret = state.secret
      /\ t.users = state.users /\ t.recovery = state.recovery
      /\ t.secret = minted + 1 /\ t.key = state.key
  <2> DEFINE old == [secret |-> state.secret, sessions |-> state.sessions, kept |-> TRUE]
  <2>1. old \in RetiredRec /\ old.sessions = state.sessions /\ old.secret = state.secret
    BY StateFacts DEF RetiredRec
  <2>2. minted + 1 \in Nat
    BY <1>3
  <2> HIDE DEF old
  <2>3. t = [state EXCEPT !.retired = old, !.secret = minted + 1, !.sessions = Sessions!NoSessions]
    BY DEF old
  <2> HIDE DEF t
  <2> QED  BY <1>3, <2>1, <2>2, <2>3, NobodyBounded DEF StateRec
<1> HIDE DEF t
<1>5. Shrunk(state, t)
  BY <1>4, NobodyBounded DEF Shrunk, Drawn
<1>6. Onward(state, t)
  BY <1>3, <1>4 DEF Onward, StateRec, AccountRec
<1>7. Resolvable(state) => Resolvable(t)
  BY <1>3, <1>4 DEF Resolvable
<1>8. \E u \in Person : t.users[u].pw # None
  BY <1>4 DEF AccountsInv, SoundState
<1>9. minted' \in Nat /\ minted <= minted' /\ t.secret <= minted' /\ t.retired.secret <= minted'
  BY <1>1, <1>3, <1>4
<1>10. Good(t, {})
  BY <1>1, <1>4, <1>5, <1>6, <1>7, <1>8, <1>9, ShrunkGood
<1> QED  BY <1>2, <1>10 DEF Done

\* No retired secret.
LEMMA NoRetiredFacts ==
  /\ Sessions!NoRetired \in RetiredRec /\ Sessions!NoRetired.secret = 0
  /\ Sessions!NoRetired.sessions = Sessions!NoSessions /\ ~Sessions!NoRetired.kept
BY NobodyBounded DEF Sessions!NoRetired, RetiredRec

LEMMA RollbackSecretDone ==
  ASSUME AccountsInv, NEW r \in Request, Sessions!RollbackSecret(r)
  PROVE  Done
<1> DEFINE t == [state EXCEPT !.secret = state.retired.secret,
                              !.sessions = state.retired.sessions,
                              !.retired = Sessions!NoRetired]
           over == Sessions!AllSessions(state)
<1>1. made' = made /\ minted' = minted /\ adds' = adds
  BY DEF Sessions!RollbackSecret, Sessions!counts
<1>2. Saved(t, over)
  BY CommitSaves DEF Sessions!RollbackSecret, Sessions!Restore
<1>3. state \in StateRec /\ state.retired \in RetiredRec
  BY StateFacts DEF StateRec
<1>4. /\ t \in StateRec /\ t.sessions = state.retired.sessions
      /\ t.retired.sessions = Sessions!NoSessions /\ t.retired.secret = 0 /\ ~t.retired.kept
      /\ t.users = state.users /\ t.recovery = state.recovery
      /\ t.secret = state.retired.secret /\ t.key = state.key
  BY <1>3, NoRetiredFacts DEF StateRec, RetiredRec
<1>5. over \subseteq Session /\ \A i \in over : state.sessions[i] # NoSession
  BY DEF Sessions!AllSessions, Session, NoSession
<1> HIDE DEF t, over
<1>6. Shrunk(state, t)
  BY <1>4, NobodyBounded DEF Shrunk, Drawn
<1>7. Onward(state, t)
  BY <1>3, <1>4 DEF Onward, StateRec, AccountRec
<1>8. Resolvable(state) => Resolvable(t)
  BY <1>3, <1>4 DEF Resolvable
<1>9. \E u \in Person : t.users[u].pw # None
  BY <1>4 DEF AccountsInv, SoundState
<1>10. minted' \in Nat /\ minted <= minted' /\ t.secret <= minted' /\ t.retired.secret <= minted'
  BY <1>1, StateFacts, <1>4
<1>11. over \subseteq Session \cap 1 .. made /\ \A i \in over \cap Session : Dead(t, i)
  BY <1>4, <1>5, StateFacts, NobodyBounded, NobodyGone DEF Dead
<1>12. Good(t, over)
  BY <1>1, <1>4, <1>6, <1>7, <1>8, <1>9, <1>10, <1>11, ShrunkGood
<1> QED  BY <1>2, <1>12 DEF Done

LEMMA FinalizeSecretDone ==
  ASSUME AccountsInv, NEW r \in Request, Sessions!FinalizeSecret(r)
  PROVE  Done
<1> DEFINE t == [state EXCEPT !.retired = Sessions!NoRetired]
           over == {i \in Session : state.retired.sessions[i] # NoSession}
<1>1. made' = made /\ minted' = minted /\ adds' = adds
  BY DEF Sessions!FinalizeSecret, Sessions!counts
<1>2. Saved(t, over)
  BY CommitSaves DEF Sessions!FinalizeSecret, Sessions!Restore, Session, NoSession
<1>3. state \in StateRec /\ state.retired \in RetiredRec
  BY StateFacts DEF StateRec
<1>4. /\ t \in StateRec /\ t.sessions = state.sessions
      /\ t.retired.sessions = Sessions!NoSessions /\ t.retired.secret = 0 /\ ~t.retired.kept
      /\ t.users = state.users /\ t.recovery = state.recovery
      /\ t.secret = state.secret /\ t.key = state.key
  BY <1>3, NoRetiredFacts DEF StateRec, RetiredRec
<1>5. over \subseteq Session /\ \A i \in over : state.retired.sessions[i] # NoSession
  OBVIOUS
<1> HIDE DEF t, over
<1>6. Shrunk(state, t)
  BY <1>4, NobodyBounded DEF Shrunk, Drawn
<1>7. Onward(state, t)
  BY <1>3, <1>4 DEF Onward, StateRec, AccountRec
<1>8. Resolvable(state) => Resolvable(t)
  BY <1>3, <1>4 DEF Resolvable
<1>9. \E u \in Person : t.users[u].pw # None
  BY <1>4 DEF AccountsInv, SoundState
<1>10. minted' \in Nat /\ minted <= minted' /\ t.secret <= minted' /\ t.retired.secret <= minted'
  BY <1>1, StateFacts, <1>4
<1>11. over \subseteq Session \cap 1 .. made /\ \A i \in over \cap Session : Dead(t, i)
  BY <1>4, <1>5, StateFacts, NobodyBounded, NobodyGone DEF Dead
<1>12. Good(t, over)
  BY <1>1, <1>4, <1>6, <1>7, <1>8, <1>9, <1>10, <1>11, ShrunkGood
<1> QED  BY <1>2, <1>12 DEF Done

\* The account of one user changes, and sessions are taken out.
Changed(t, u, acc, rc, S) ==
  /\ t \in StateRec /\ acc \in AccountRec /\ rc \in RecoveryRec
  /\ t.users = [state.users EXCEPT ![u] = acc] /\ t.recovery = [state.recovery EXCEPT ![u] = rc]
  /\ t.sessions = Sessions!Without(state.sessions, S) /\ t.retired = state.retired
  /\ t.secret = state.secret /\ t.key = state.key

\* The sessions of a user end with the account or its version.
LEMMA OwnedEnd ==
  ASSUME AccountsInv, adds = 0, NEW u \in Person, NEW t, NEW acc, NEW rc,
         Changed(t, u, acc, rc, Sessions!Owned(state.sessions, u)),
         acc.pw = None \/ (state.users[u].pw # None /\ state.users[u].ver < acc.ver)
  PROVE  \A i \in Sessions!SessionsOf(u) : i \in 1 .. made /\ Dead(t, i)
<1>1. state \in StateRec /\ t \in StateRec
  BY StateFacts DEF Changed
<1>2. t.users[u] = acc /\ t.retired = state.retired
      /\ t.sessions = Sessions!Without(state.sessions, Sessions!Owned(state.sessions, u))
  BY <1>1 DEF Changed, StateRec
<1>3. TAKE i \in Sessions!SessionsOf(u)
<1>4. i \in Session /\ (state.sessions[i].who = u \/ state.retired.sessions[i].who = u)
  BY DEF Sessions!SessionsOf, Sessions!Owned, Session
<1>5. i \in 1 .. made
  BY <1>4, StateFacts, SessionFacts
<1>6. CASE state.sessions[i].who = u
  <2>1. state.retired.sessions[i] = NoSession
    BY <1>4, <1>6, StateFacts, SessionFacts
  <2>2. i \in Sessions!Owned(state.sessions, u)
    BY <1>4, <1>6 DEF Sessions!Owned, Session
  <2>3. t.sessions[i] = NoSession
    BY <1>2, <1>4, <2>2, StateFacts, WithoutFacts
  <2> QED  BY <1>2, <1>5, <2>1, <2>3, NobodyGone DEF Dead
<1>7. CASE state.retired.sessions[i].who = u
  <2>1. state.sessions[i] = NoSession
    BY <1>4, <1>7, StateFacts, SessionFacts
  <2>2. t.sessions[i] = NoSession
    BY <1>2, <1>4, <2>1, StateFacts, WithoutFacts
  <2>3. Within(state, state.retired.sessions[i])
    BY <1>4 DEF AccountsInv, KeptState
  <2>4. /\ state.retired.sessions[i].ver \in Nat /\ state.users[u].ver \in Nat /\ acc.ver \in Nat
    BY <1>1, <1>4 DEF Changed, StateRec, RetiredRec, Registry, SessionRec, AccountRec
  <2>5. Gone(t, state.retired.sessions[i])
    BY <1>2, <1>7, <2>3, <2>4 DEF Within, Gone
  <2> QED  BY <1>2, <1>5, <2>2, <2>5, NobodyGone DEF Dead
<1> QED  BY <1>4, <1>6, <1>7

LEMMA ChangedGood ==
  ASSUME AccountsInv, made' = made, minted' = minted, adds' = 0 => adds = 0,
         NEW u \in Person, NEW t, NEW acc, NEW rc, NEW S, NEW over, Changed(t, u, acc, rc, S),
         over \subseteq Session \cap 1 .. made, adds' = 0 => \A i \in over : Dead(t, i),
         adds' = 0 /\ acc.pw # None => state.users[u].pw # None /\ state.users[u].ver <= acc.ver,
         \E v \in Person : t.users[v].pw # None,
         Resolvable(state) /\ PasswordIsCurrent /\ rc.pw # None => acc.pw \notin {None, rc.pw}
  PROVE  Good(t, over)
<1>1. state \in StateRec /\ t \in StateRec
  BY StateFacts DEF Changed
<1>2. /\ \A v \in Person : t.users[v] = IF v = u THEN acc ELSE state.users[v]
      /\ \A v \in Person : t.recovery[v] = IF v = u THEN rc ELSE state.recovery[v]
  BY <1>1 DEF Changed, StateRec
<1>3. Shrunk(state, t)
  BY StateFacts, WithoutFacts DEF Changed, Shrunk, Drawn
<1>4. ASSUME adds' = 0 PROVE Onward(state, t)
  <2>1. state.key <= t.key
    BY <1>1 DEF Changed, StateRec
  <2>2. ASSUME NEW v \in Person, t.users[v].pw # None
        PROVE  state.users[v].pw # None /\ state.users[v].ver <= t.users[v].ver
    <3>1. state.users[v].ver \in Nat
      BY <1>1 DEF StateRec, AccountRec
    <3> QED  BY <1>2, <1>4, <2>2, <3>1
  <2> QED  BY <2>1, <2>2 DEF Onward
<1>5. Resolvable(state) /\ PasswordIsCurrent => Resolvable(t)
  BY <1>2 DEF Resolvable, Changed
<1>6. minted' \in Nat /\ minted <= minted' /\ t.secret <= minted' /\ t.retired.secret <= minted'
  BY StateFacts DEF Changed
<1> QED  BY <1>1, <1>3, <1>4, <1>5, <1>6, ShrunkGood

LEMMA RotatePasswordDone ==
  ASSUME AccountsInv, NEW r \in Request, NEW u \in Person, NEW p \in Password,
         Sessions!RotatePassword(r, u, p)
  PROVE  Done
<1> DEFINE old == state.users[u]
           acc == [pw |-> p, ver |-> old.ver + 1, legacy |-> FALSE]
           rc == [pw |-> old.pw, ver |-> old.ver]
           S == Sessions!Owned(state.sessions, u)
           t == [state EXCEPT !.recovery[u] = rc, !.users[u] = acc,
                              !.sessions = Sessions!Without(@, S)]
           over == Sessions!SessionsOf(u)
<1>1. made' = made /\ minted' = minted /\ adds' = adds /\ state.users[u].pw # None /\ p # old.pw
  BY DEF Sessions!RotatePassword, Sessions!counts, Sessions!Active
<1>2. Saved(t, over)
  BY CommitSaves DEF Sessions!RotatePassword, Sessions!Restore
<1>3. state \in StateRec /\ old \in AccountRec /\ old.ver \in Nat
  BY StateFacts DEF StateRec, AccountRec
<1>4. acc \in AccountRec /\ rc \in RecoveryRec /\ acc.pw = p /\ acc.ver = old.ver + 1 /\ rc.pw = old.pw
  BY <1>3 DEF AccountRec, RecoveryRec
<1> HIDE DEF acc, rc, S, over
<1>5. Changed(t, u, acc, rc, S)
  BY <1>3, <1>4, StateFacts, WithoutFacts DEF Changed, StateRec
<1> HIDE DEF t
<1>6. \E v \in Person : t.users[v].pw # None
  BY <1>3, <1>4, <1>5, AccountsAssumption DEF Changed, StateRec
<1>7. adds = 0 => \A i \in over : i \in 1 .. made /\ Dead(t, i)
  BY <1>1, <1>3, <1>4, <1>5, OwnedEnd DEF over, S
<1>8. over \subseteq Session \cap 1 .. made
  BY StateFacts, SessionFacts DEF over, Sessions!SessionsOf, Sessions!Owned, Session
<1>9. Good(t, over)
  <2>1. state.users[u].pw # None /\ state.users[u].ver <= acc.ver
    BY <1>1, <1>3, <1>4
  <2>2. acc.pw \notin {None, rc.pw}
    BY <1>1, <1>4, AccountsAssumption
  <2>3. adds' = 0 => adds = 0
    BY <1>1
  <2> HIDE DEF old
  <2> QED  BY <1>1, <1>5, <1>6, <1>7, <1>8, <2>1, <2>2, <2>3, ChangedGood
<1> QED  BY <1>2, <1>9 DEF Done

LEMMA RollbackPasswordDone ==
  ASSUME AccountsInv, NEW r \in Request, NEW u \in Person, Sessions!RollbackPassword(r, u)
  PROVE  Done
<1> DEFINE old == state.recovery[u]
           next == Sessions!NextVersion(state.users[u].ver, old.ver)
           acc == [pw |-> old.pw, ver |-> next, legacy |-> FALSE]
           rc == [pw |-> None, ver |-> 0]
           S == Sessions!Owned(state.sessions, u)
           t == [state EXCEPT !.recovery[u] = rc, !.users[u] = acc,
                              !.sessions = Sessions!Without(@, S)]
           over == Sessions!SessionsOf(u)
<1>1. made' = made /\ minted' = minted /\ adds' = adds /\ state.users[u].pw # None /\ old.pw # None
  BY DEF Sessions!RollbackPassword, Sessions!counts, Sessions!Active
<1>2. Saved(t, over)
  BY CommitSaves DEF Sessions!RollbackPassword, Sessions!Restore
<1>3. /\ state \in StateRec /\ old.pw \in Password \cup {None} /\ old.ver \in Nat
      /\ state.users[u].ver \in Nat
  BY StateFacts DEF StateRec, AccountRec, RecoveryRec
<1>4. next \in Nat /\ state.users[u].ver < next
  BY <1>3 DEF Sessions!NextVersion
<1> HIDE DEF next, old
<1>5. acc \in AccountRec /\ rc \in RecoveryRec /\ acc.pw = old.pw /\ acc.ver = next /\ rc.pw = None
  BY <1>3, <1>4 DEF AccountRec, RecoveryRec
<1> HIDE DEF acc, rc, S, over
<1>6. Changed(t, u, acc, rc, S)
  BY <1>3, <1>5, StateFacts, WithoutFacts DEF Changed, StateRec
<1> HIDE DEF t
<1>7. \E v \in Person : t.users[v].pw # None
  BY <1>1, <1>3, <1>5, <1>6 DEF Changed, StateRec
<1>8. adds = 0 => \A i \in over : i \in 1 .. made /\ Dead(t, i)
  BY <1>1, <1>4, <1>5, <1>6, OwnedEnd DEF over, S
<1>9. over \subseteq Session \cap 1 .. made
  BY StateFacts, SessionFacts DEF over, Sessions!SessionsOf, Sessions!Owned, Session
<1>10. state.users[u].ver <= acc.ver
  BY <1>3, <1>4, <1>5
<1>11. adds' = 0 => adds = 0
  BY <1>1
<1>12. Good(t, over)
  BY <1>1, <1>5, <1>6, <1>7, <1>8, <1>9, <1>10, <1>11, ChangedGood
<1> QED  BY <1>2, <1>12 DEF Done

\* Nothing is taken out.
LEMMA WithoutNothing ==
  ASSUME NEW R \in Registry
  PROVE  Sessions!Without(R, {}) = R
BY WithoutFacts DEF Registry

LEMMA FinalizePasswordDone ==
  ASSUME AccountsInv, NEW r \in Request, NEW u \in Person, Sessions!FinalizePassword(r, u)
  PROVE  Done
<1> DEFINE acc == state.users[u]
           rc == [pw |-> None, ver |-> 0]
           t == [state EXCEPT !.recovery[u] = rc]
<1>1. made' = made /\ minted' = minted /\ adds' = adds /\ acc.pw # None
  BY DEF Sessions!FinalizePassword, Sessions!counts, Sessions!Active
<1>2. Saved(t, {})
  BY CommitSaves DEF Sessions!FinalizePassword, Sessions!Restore
<1>3. state \in StateRec /\ acc \in AccountRec /\ acc.ver \in Nat
  BY StateFacts DEF StateRec, AccountRec
<1>4. rc \in RecoveryRec /\ rc.pw = None
  BY DEF RecoveryRec
<1> HIDE DEF rc
<1>5. Changed(t, u, acc, rc, {})
  BY <1>3, <1>4, StateFacts, WithoutNothing DEF Changed, StateRec
<1>6. \E v \in Person : t.users[v].pw # None
  BY <1>1, <1>3
<1> HIDE DEF t
<1>7. adds' = 0 => adds = 0
  BY <1>1
<1>8. acc.ver <= acc.ver
  BY <1>3
<1>9. Good(t, {})
  BY <1>1, <1>4, <1>5, <1>6, <1>7, <1>8, ChangedGood
<1> QED  BY <1>2, <1>9 DEF Done

LEMMA AddUserDone ==
  ASSUME AccountsInv, NEW r \in Request, NEW u \in Person, NEW p \in Password,
         Sessions!AddUser(r, u, p)
  PROVE  Done
<1> DEFINE acc == [pw |-> p, ver |-> 1, legacy |-> FALSE]
           rc == state.recovery[u]
           t == [state EXCEPT !.users[u] = acc]
<1>1. made' = made /\ minted' = minted /\ adds' # 0 /\ rc.pw = None
  BY DEF Sessions!AddUser, AccountsInv, CountsOK
<1>2. Saved(t, {})
  BY CommitSaves DEF Sessions!AddUser, Sessions!Keep
<1>3. state \in StateRec /\ rc \in RecoveryRec
  BY StateFacts DEF StateRec
<1>4. acc \in AccountRec /\ acc.pw = p /\ p # None
  BY AccountsAssumption DEF AccountRec
<1> HIDE DEF acc
<1>5. Changed(t, u, acc, rc, {})
  BY <1>3, <1>4, StateFacts, WithoutNothing DEF Changed, StateRec
<1>6. \E v \in Person : t.users[v].pw # None
  BY <1>3, <1>4 DEF StateRec
<1> HIDE DEF t, rc
<1>7. Good(t, {})
  BY <1>1, <1>5, <1>6, ChangedGood
<1> QED  BY <1>2, <1>7 DEF Done

LEMMA RemoveUserDone ==
  ASSUME AccountsInv, NEW r \in Request, NEW u \in Person, Sessions!RemoveUser(r, u)
  PROVE  Done
<1> DEFINE acc == Sessions!NoAccount
           rc == state.recovery[u]
           S == Sessions!Owned(state.sessions, u)
           t == [state EXCEPT !.users[u] = acc, !.sessions = Sessions!Without(@, S)]
           over == Sessions!SessionsOf(u)
<1>1. made' = made /\ minted' = minted /\ adds' = adds /\ rc.pw = None
  BY DEF Sessions!RemoveUser, Sessions!counts
<1>2. Saved(t, over)
  BY CommitSaves DEF Sessions!RemoveUser, Sessions!Keep
<1>3. state \in StateRec /\ rc \in RecoveryRec
  BY StateFacts DEF StateRec
<1>4. acc \in AccountRec /\ acc.pw = None
  BY DEF AccountRec, Sessions!NoAccount
<1>5. \E v \in Person \ {u} : state.users[v].pw # None
  <2>1. SUFFICES ASSUME \A v \in Person \ {u} : state.users[v].pw = None PROVE FALSE
    OBVIOUS
  <2>2. Sessions!Active(state) = {u}
    BY <2>1 DEF Sessions!Active, Sessions!RemoveUser
  <2>3. Cardinality(Sessions!Active(state)) = 1
    BY <2>2, FS_Singleton
  <2>4. Cardinality(Sessions!Active(state)) > 1
    BY Zenon DEF Sessions!RemoveUser, Sessions!Cardinality, Cardinality, Sessions!IsFiniteSet, IsFiniteSet
  <2> QED  BY <2>3, <2>4
<1> HIDE DEF acc, S, over
<1>6. Changed(t, u, acc, rc, S)
  BY <1>3, <1>4, StateFacts, WithoutFacts DEF Changed, StateRec
<1> HIDE DEF t, rc
<1>7. \E v \in Person : t.users[v].pw # None
  BY <1>3, <1>5, <1>6 DEF Changed, StateRec
<1>8. adds = 0 => \A i \in over : i \in 1 .. made /\ Dead(t, i)
  BY <1>4, <1>6, OwnedEnd DEF over, S
<1>9. over \subseteq Session \cap 1 .. made
  BY StateFacts, SessionFacts DEF over, Sessions!SessionsOf, Sessions!Owned, Session
<1>10. adds' = 0 => adds = 0
  BY <1>1
<1>11. Good(t, over)
  BY <1>1, <1>4, <1>6, <1>7, <1>8, <1>9, <1>10, ChangedGood
<1> QED  BY <1>2, <1>11 DEF Done

\* Two fields of an account are changed one after the other, or at once.
LEMMA RecordUpdated ==
  ASSUME NEW f \in [Person -> AccountRec], NEW v \in Person, NEW p
  PROVE  [f EXCEPT ![v].pw = p, ![v].legacy = FALSE]
           = [f EXCEPT ![v] = [f[v] EXCEPT !.pw = p, !.legacy = FALSE]]
<1> DEFINE g == [f EXCEPT ![v].pw = p, ![v].legacy = FALSE]
           h == [f EXCEPT ![v] = [f[v] EXCEPT !.pw = p, !.legacy = FALSE]]
<1>1. f[v] \in AccountRec
  OBVIOUS
<1>2. g[v] = [[f[v] EXCEPT !.pw = p] EXCEPT !.legacy = FALSE] /\ h[v] = [f[v] EXCEPT !.pw = p, !.legacy = FALSE]
  OBVIOUS
<1>3. g[v] = h[v]
  BY <1>1, <1>2 DEF AccountRec
<1>4. \A w \in Person : w # v => g[w] = f[w] /\ h[w] = f[w]
  OBVIOUS
<1>5. g = [w \in Person |-> g[w]] /\ h = [w \in Person |-> h[w]]
  OBVIOUS
<1> HIDE DEF g, h
<1>6. g = h
  BY <1>3, <1>4, <1>5
<1> QED  BY <1>6 DEF g, h

LEMMA UpgradeDone ==
  ASSUME AccountsInv, NEW r \in Request, Sessions!Upgrade(r)
  PROVE  Done
<1> DEFINE u == asked[r].user
           acc == [state.users[u] EXCEPT !.pw = asked[r].pw, !.legacy = FALSE]
           rc == state.recovery[u]
           t == [state EXCEPT !.users[u].pw = asked[r].pw, !.users[u].legacy = FALSE]
<1>1. made' = made /\ minted' = minted /\ adds' = adds /\ asked[r].pc = "upgrade"
  BY DEF Sessions!Upgrade, Sessions!counts, Sessions!At
<1>2. u \in Person /\ asked[r].pw \in Password
  BY <1>1 DEF AccountsInv, AskedOK, RequestOK
<1>3. CASE u \notin Sessions!Active(state)
  <2>1. Saved(state, {})
    BY <1>3, CommitSaves DEF Sessions!Upgrade
  <2>2. made \in Nat
    BY StateFacts
  <2> QED  BY <2>1, <2>2, <1>1, StateIsGood DEF Done
<1>4. CASE u \in Sessions!Active(state)
  <2>1. Saved(t, {})
    BY <1>4, CommitSaves DEF Sessions!Upgrade
  <2>2. state \in StateRec /\ rc \in RecoveryRec /\ state.users[u] \in AccountRec
    BY StateFacts, <1>2 DEF StateRec
  <2>3. acc \in AccountRec /\ acc.pw = asked[r].pw /\ acc.ver = state.users[u].ver /\ acc.ver \in Nat
    BY <2>2, <1>2 DEF AccountRec
  <2>4. t = [state EXCEPT !.users[u] = acc]
    <3>1. [state.users EXCEPT ![u].pw = asked[r].pw, ![u].legacy = FALSE] = [state.users EXCEPT ![u] = acc]
      <4>1. state.users \in [Person -> AccountRec]
        BY <2>2 DEF StateRec
      <4>2. [state.users EXCEPT ![u].pw = asked[r].pw, ![u].legacy = FALSE]
              = [state.users EXCEPT ![u] = [state.users[u] EXCEPT !.pw = asked[r].pw, !.legacy = FALSE]]
        <5> DEFINE f == state.users
                   q == asked[r].pw
        <5>1. f \in [Person -> AccountRec] /\ u \in Person
          BY <4>1, <1>2
        <5> HIDE DEF u, f, q
        <5>2. [f EXCEPT ![u].pw = q, ![u].legacy = FALSE]
                = [f EXCEPT ![u] = [f[u] EXCEPT !.pw = q, !.legacy = FALSE]]
          BY <5>1, RecordUpdated, Zenon
        <5> QED  BY <5>2 DEF f, q
      <4> QED  BY <4>2
    <3> QED  BY <2>2, <3>1 DEF StateRec
  <2> HIDE DEF acc, t
  <2>5. Changed(t, u, acc, rc, {})
    BY <2>2, <2>3, <2>4, <1>2, StateFacts, WithoutNothing DEF Changed, StateRec
  <2>6. state.users[u].pw # None /\ acc.pw # None
    BY <1>2, <1>4, <2>3, AccountsAssumption DEF Sessions!Active
  <2>7. \E v \in Person : t.users[v].pw # None
    BY <2>2, <2>4, <2>6, <1>2 DEF StateRec
  <2>8. Resolvable(state) /\ PasswordIsCurrent /\ rc.pw # None => acc.pw \notin {None, rc.pw}
    BY <1>1, <1>2, <2>3 DEF Resolvable, PasswordIsCurrent
  <2>9. adds' = 0 => adds = 0
    BY <1>1
  <2>10. acc.ver <= acc.ver
    BY <2>3
  <2> HIDE DEF rc, u
  <2>11. Good(t, {})
    BY <1>1, <1>2, <2>3, <2>5, <2>6, <2>7, <2>8, <2>9, <2>10, ChangedGood
  <2> QED  BY <2>1, <2>11 DEF Done
<1> QED  BY <1>3, <1>4

LEMMA ReplaceKeyDone ==
  ASSUME AccountsInv, Sessions!ReplaceKey
  PROVE  Done
<1> DEFINE t == [state EXCEPT !.key = @ + 1]
           over == Sessions!Owned(state.sessions, "device")
                     \cup Sessions!Owned(state.retired.sessions, "device")
<1>1. made' = made /\ minted' = minted /\ adds' = adds
  BY DEF Sessions!ReplaceKey, Sessions!counts
<1>2. Saved(t, over)
  BY DEF Sessions!ReplaceKey, Saved
<1>3. state \in StateRec /\ state.key \in Nat
  BY StateFacts DEF StateRec
<1>4. /\ t \in StateRec /\ t.sessions = state.sessions /\ t.retired = state.retired
      /\ t.users = state.users /\ t.recovery = state.recovery
      /\ t.secret = state.secret /\ t.key = state.key + 1
  BY <1>3 DEF StateRec
<1> HIDE DEF t
<1>5. Shrunk(state, t)
  BY <1>4, StateFacts DEF Shrunk, Drawn
<1>6. Onward(state, t)
  BY <1>3, <1>4 DEF Onward, StateRec, AccountRec
<1>7. Resolvable(state) => Resolvable(t)
  BY <1>4 DEF Resolvable
<1>8. \E u \in Person : t.users[u].pw # None
  BY <1>4 DEF AccountsInv, SoundState
<1>9. minted' \in Nat /\ minted <= minted' /\ t.secret <= minted' /\ t.retired.secret <= minted'
  BY <1>1, StateFacts, <1>4
<1>10. \A i \in over : i \in Session /\ (state.sessions[i].who = "device" \/ state.retired.sessions[i].who = "device")
  BY DEF Sessions!Owned, Session
<1>11. over \subseteq Session \cap 1 .. made
  BY <1>10, StateFacts, SessionFacts
<1>12. ASSUME adds' = 0, NEW i \in over PROVE Dead(t, i)
  <2>1. Within(state, state.sessions[i]) /\ Within(state, state.retired.sessions[i])
    BY <1>1, <1>10, <1>12 DEF AccountsInv, KeptState
  <2>2. state.sessions[i] = NoSession \/ state.retired.sessions[i] = NoSession
    BY <1>10, StateFacts
  <2>3. state.sessions[i].ver \in Nat /\ state.retired.sessions[i].ver \in Nat
    BY <1>10, StateFacts DEF Registry, SessionRec
  <2>4. state.sessions[i] = NoSession \/ state.sessions[i].who = "device"
    BY <1>10, <2>2, SessionFacts
  <2>5. state.retired.sessions[i] = NoSession \/ state.retired.sessions[i].who = "device"
    BY <1>10, <2>2, SessionFacts
  <2>6. ASSUME NEW rec, Within(state, rec), rec.ver \in Nat, rec = NoSession \/ rec.who = "device"
        PROVE  Gone(t, rec)
    <3>1. CASE rec = NoSession
      BY <3>1 DEF Gone
    <3>2. CASE rec.who = "device"
      <4>1. rec.ver <= state.key
        BY <2>6, <3>2 DEF Within
      <4>2. rec.ver < t.key
        BY <1>3, <1>4, <2>6, <4>1
      <4> QED  BY <3>2, <4>2 DEF Gone
    <3> QED  BY <2>6, <3>1, <3>2
  <2>7. Gone(t, state.sessions[i]) /\ Gone(t, state.retired.sessions[i])
    BY <2>1, <2>3, <2>4, <2>5, <2>6
  <2> QED  BY <1>4, <2>7 DEF Dead
<1> HIDE DEF over
<1>13. Good(t, over)
  BY <1>1, <1>4, <1>5, <1>6, <1>7, <1>8, <1>9, <1>11, <1>12, ShrunkGood
<1> QED  BY <1>2, <1>13 DEF Done

\* A new session, when its owner has room for one.
LEMMA AddedGood ==
  ASSUME AccountsInv, made' = made + 1, minted' = minted, adds' = adds,
         NEW room \in Registry, Drawn(room, state.sessions),
         NEW w \in Person \cup {"device"}, NEW v \in Nat,
         Cardinality(Sessions!Owned(room, w)) < IF w = "device" THEN 1 ELSE SessionLimit,
         adds' = 0 => Within(state, [who |-> w, ver |-> v])
  PROVE  Good([state EXCEPT !.sessions = [room EXCEPT ![made + 1] = [who |-> w, ver |-> v]]], {})
<1> DEFINE rec == [who |-> w, ver |-> v]
           new == [room EXCEPT ![made + 1] = rec]
           t == [state EXCEPT !.sessions = new]
<1>1. state \in StateRec /\ made \in Nat /\ made + 1 \in Nat /\ rec \in SessionRec /\ rec.who = w
  BY StateFacts DEF SessionRec
<1> HIDE DEF rec
<1>2. new \in Registry /\ \A i \in Session : new[i] = IF i = made + 1 THEN rec ELSE room[i]
  BY <1>1 DEF Registry
<1> HIDE DEF new
<1>3. /\ t \in StateRec /\ t.sessions = new /\ t.retired = state.retired /\ t.users = state.users
      /\ t.recovery = state.recovery /\ t.secret = state.secret /\ t.key = state.key
  BY <1>1, <1>2 DEF StateRec
<1> HIDE DEF t
<1>4. SoundState(state, made, minted) /\ SoundState(state, made', minted')
  BY <1>1, StateFacts, LaterSound DEF AccountsInv
<1>5. Bounded(new)
  <2>1. Bounded(room)
    BY <1>4, StateFacts, OwnedShrinks DEF SoundState
  <2>2. ASSUME NEW x \in Person \cup {"device"}
        PROVE  /\ Cardinality(Sessions!Owned(new, x)) \in Nat
               /\ Cardinality(Sessions!Owned(room, x)) \in Nat
               /\ x # w => Cardinality(Sessions!Owned(new, x)) <= Cardinality(Sessions!Owned(room, x))
               /\ x = w => Cardinality(Sessions!Owned(new, x)) <= Cardinality(Sessions!Owned(room, x)) + 1
    <3>1. Sessions!Owned(room, x) \subseteq Session
      BY DEF Sessions!Owned, Session
    <3>2. IsFiniteSet(Sessions!Owned(room, x))
      BY <3>1, SessionFacts, FS_Subset
    <3>3. CASE x # w
      <4>1. Sessions!Owned(new, x) \subseteq Sessions!Owned(room, x)
        BY <3>3, <1>1, <1>2 DEF Sessions!Owned, Session
      <4> QED  BY <3>2, <3>3, <4>1, FS_Subset, FS_CardinalityType
    <3>4. CASE x = w
      <4>1. Sessions!Owned(new, x) \subseteq Sessions!Owned(room, x) \cup {made + 1}
        BY <1>2 DEF Sessions!Owned, Session
      <4>2. /\ IsFiniteSet(Sessions!Owned(room, x) \cup {made + 1})
            /\ Cardinality(Sessions!Owned(room, x) \cup {made + 1}) <= Cardinality(Sessions!Owned(room, x)) + 1
            /\ Cardinality(Sessions!Owned(room, x)) \in Nat
        <5> DEFINE mine == Sessions!Owned(room, x)
        <5>1. IsFiniteSet(mine) /\ Cardinality(mine) \in Nat
          BY <3>2, FS_CardinalityType
        <5> HIDE DEF mine
        <5>2. /\ IsFiniteSet(mine \cup {made + 1})
              /\ Cardinality(mine \cup {made + 1}) \in {Cardinality(mine), Cardinality(mine) + 1}
          BY <5>1, FS_AddElement
        <5>3. Cardinality(mine \cup {made + 1}) <= Cardinality(mine) + 1
          BY <5>1, <5>2
        <5> QED  BY <5>1, <5>2, <5>3 DEF mine
      <4>3. /\ Cardinality(Sessions!Owned(room, x) \cup {made + 1}) \in Nat
            /\ Cardinality(Sessions!Owned(new, x)) \in Nat
            /\ Cardinality(Sessions!Owned(new, x)) <= Cardinality(Sessions!Owned(room, x) \cup {made + 1})
        BY <4>1, <4>2, FS_Subset, FS_CardinalityType
      <4> QED  BY <3>4, <4>2, <4>3
    <3> QED  BY <3>3, <3>4
  <2>3. Cardinality(Sessions!Owned(new, "device")) <= 1
    BY <2>1, <2>2 DEF Bounded
  <2>4. ASSUME NEW x \in Person PROVE Cardinality(Sessions!Owned(new, x)) <= SessionLimit
    BY <2>1, <2>2, AccountsAssumption DEF Bounded
  <2> QED  BY <2>3, <2>4 DEF Bounded
<1>6. \A i \in Session : /\ i > made' => new[i] = NoSession
                         /\ state.retired.sessions[i] = NoSession \/ new[i] = NoSession
  <2>1. TAKE i \in Session
  <2>2. i \in Nat
    BY SessionFacts
  <2>3. room[i] \in {state.sessions[i], NoSession}
    BY DEF Drawn
  <2> QED  BY <1>1, <1>2, <1>4, <2>2, <2>3 DEF SoundState
<1>7. SoundState(t, made', minted')
  BY <1>3, <1>4, <1>5, <1>6 DEF SoundState
<1>8. ASSUME adds' = 0 PROVE KeptState(t, ended)
  <2>1. KeptState(state, ended) /\ Within(state, rec)
    BY <1>8 DEF AccountsInv, rec
  <2>2. ASSUME NEW x PROVE /\ Within(t, x) <=> Within(state, x)
                           /\ Gone(t, x) <=> Gone(state, x)
    BY <1>3 DEF Within, Gone
  <2>3. ASSUME NEW i \in Session
        PROVE  Within(t, t.sessions[i]) /\ Within(t, t.retired.sessions[i])
    <3>1. t.sessions[i] \in {rec, state.sessions[i], NoSession}
      BY <1>2, <1>3 DEF Drawn
    <3> QED  BY <1>3, <2>1, <2>2, <3>1, NobodyGone DEF KeptState
  <2>4. ASSUME NEW i \in ended \cap Session
        PROVE  Dead(t, i)
    <3>1. i # made + 1
      BY <1>1 DEF AccountsInv, CountsOK
    <3>2. t.sessions[i] \in {state.sessions[i], NoSession}
      BY <1>2, <1>3, <3>1 DEF Drawn
    <3>3. Dead(state, i)
      BY <2>1 DEF KeptState
    <3> QED  BY <1>3, <2>2, <3>2, <3>3, NobodyGone DEF Dead
  <2> QED  BY <2>3, <2>4 DEF KeptState
<1>9. Resolvable(state) => Resolvable(t)
  BY <1>3 DEF Resolvable
<1>10. ended \cup {} = ended
  OBVIOUS
<1>11. Good(t, {})
  BY <1>7, <1>8, <1>9, <1>10 DEF Good
<1> QED  BY <1>11 DEF t, new, rec

LEMMA PrunedFacts ==
  ASSUME AccountsInv
  PROVE  Sessions!Pruned(state) \in Registry /\ Drawn(Sessions!Pruned(state), state.sessions)
BY StateFacts, WithoutFacts DEF Sessions!Pruned

LEMMA DrawnAgain ==
  ASSUME NEW R, NEW Q, NEW P, Drawn(Q, R), Drawn(P, Q)
  PROVE  Drawn(P, R)
BY DEF Drawn

LEMMA CreateSessionDone ==
  ASSUME AccountsInv, NEW r \in Request, Sessions!CreateSession(r)
  PROVE  Done
<1> DEFINE u == asked[r].user
           room == Sessions!Evicted(Sessions!Pruned(state), u)
           rec == [who |-> u, ver |-> state.users[u].ver]
           t == [state EXCEPT !.sessions = [room EXCEPT ![made + 1] = rec]]
<1>1. minted' = minted /\ adds' = adds /\ asked[r].pc = "verified"
  BY DEF Sessions!CreateSession, Sessions!At
<1>2. u \in Person
  BY <1>1 DEF AccountsInv, AskedOK, RequestOK
<1>3. CASE u \notin Sessions!Active(state)
  <2>1. Saved(state, {}) /\ made' = made
    BY <1>3 DEF Sessions!CreateSession, Saved
  <2>2. made \in Nat
    BY StateFacts
  <2> QED  BY <2>1, <2>2, <1>1, StateIsGood DEF Done
<1>4. CASE u \in Sessions!Active(state)
  <2>1. Saved(t, {}) /\ made' = made + 1
    BY <1>4, CommitSaves DEF Sessions!CreateSession
  <2>2. room \in Registry /\ Drawn(room, state.sessions) /\ Cardinality(Sessions!Owned(room, u)) < SessionLimit
    BY <1>2, PrunedFacts, EvictionMakesRoom, DrawnAgain
  <2>3. state.users[u].ver \in Nat
    BY <1>2, StateFacts DEF StateRec, AccountRec
  <2>4. u # "device"
    BY <1>2, AccountsAssumption
  <2>5. Within(state, [who |-> u, ver |-> state.users[u].ver])
    BY <2>3, <2>4 DEF Within
  <2> HIDE DEF room, u
  <2>6. Good(t, {})
    BY <1>1, <1>2, <2>1, <2>2, <2>3, <2>4, <2>5, AddedGood
  <2> QED  BY <2>1, <2>6 DEF Done
<1> QED  BY <1>3, <1>4

LEMMA CreateKeySessionDone ==
  ASSUME AccountsInv, NEW r \in Request, Sessions!CreateKeySession(r)
  PROVE  Done
<1> DEFINE all == Sessions!Pruned(state)
           room == Sessions!Without(all, Sessions!Owned(all, "device"))
           rec == [who |-> "device", ver |-> state.key]
           t == [state EXCEPT !.sessions = [room EXCEPT ![made + 1] = rec]]
<1>1. minted' = minted /\ adds' = adds /\ made' = made + 1
  BY DEF Sessions!CreateKeySession
<1>2. Saved(t, {})
  BY CommitSaves DEF Sessions!CreateKeySession
<1>3. all \in Registry /\ Drawn(all, state.sessions)
  BY PrunedFacts
<1> HIDE DEF all
<1>4. room \in Registry /\ Drawn(room, state.sessions)
  BY <1>3, WithoutFacts, DrawnAgain
<1>5. Sessions!Owned(room, "device") = {}
  BY <1>3, WithoutFacts, SessionFacts DEF Sessions!Owned, Session
<1>6. Cardinality(Sessions!Owned(room, "device")) < 1
  BY <1>5, FS_EmptySet
<1>7. state.key \in Nat /\ "device" \notin Person
  BY StateFacts, AccountsAssumption DEF StateRec
<1>8. Within(state, [who |-> "device", ver |-> state.key])
  BY <1>7 DEF Within
<1> HIDE DEF room
<1>9. Good(t, {})
  BY <1>1, <1>4, <1>6, <1>7, <1>8, AddedGood
<1> QED  BY <1>2, <1>9 DEF Done

LEMMA AccountsInit == Sessions!Init => AccountsInv
<1> SUFFICES ASSUME Sessions!Init PROVE AccountsInv
  OBVIOUS
<1>1. PICK p \in Password :
        /\ state = [users |-> [u \in Person |-> [pw |-> p, ver |-> 1, legacy |-> u \in Legacy]],
                    recovery |-> [u \in Person |-> [pw |-> None, ver |-> 0]],
                    secret |-> 1, sessions |-> Sessions!NoSessions,
                    retired |-> Sessions!NoRetired, key |-> 1]
        /\ file = state
  BY DEF Sessions!Init
<1>2. state \in StateRec
  <2>1. [u \in Person |-> [pw |-> p, ver |-> 1, legacy |-> u \in Legacy]] \in [Person -> AccountRec]
    BY DEF AccountRec
  <2>2. [u \in Person |-> [pw |-> None, ver |-> 0]] \in [Person -> RecoveryRec]
    BY DEF RecoveryRec
  <2> QED  BY <1>1, <2>1, <2>2, NobodyBounded, NoRetiredFacts DEF StateRec
<1>3. SoundState(state, 0, 1)
  <2>1. \E u \in Person : state.users[u].pw # None
    BY <1>1, AccountsAssumption
  <2> QED  BY <1>1, <1>2, <2>1, NobodyBounded, NoRetiredFacts DEF SoundState
<1>4. KeptState(state, {})
  BY <1>1, NobodyBounded, NoRetiredFacts, NobodyGone DEF KeptState
<1>5. /\ made = 0 /\ minted = 1 /\ adds = 0 /\ fileFaults = 0 /\ fileCrashes = 0
      /\ cookie = [i \in Session |-> 0] /\ ended = {} /\ before = {}
      /\ asked = [r \in Request |-> Sessions!Idle]
  BY DEF Sessions!Init, Session
<1>6. RequestOK(Sessions!Idle)
  BY DEF RequestOK, Sessions!Idle, AskedRec
<1> QED  BY <1>1, <1>3, <1>4, <1>5, <1>6 DEF AccountsInv, AskedOK, CountsOK, RequestOK

-----------------------------------------------------------------------------
\* What the steps do to the requests and the counts.
Counted ==
  /\ made' \in Nat /\ made <= made' /\ minted' \in Nat /\ minted <= minted'
  /\ adds' \in Nat /\ (adds' = 0 => adds = 0)
  /\ fileFaults' \in Nat /\ fileCrashes' \in Nat
  /\ cookie' \in [Session -> Nat] /\ before' \subseteq Session

LEMMA MoveAsked ==
  ASSUME AccountsInv, NEW r \in Request, NEW q, RequestOK(q), asked' = [asked EXCEPT ![r] = q]
  PROVE  AskedOK'
<1>1. asked \in [Request -> AskedRec] /\ \A x \in Request : RequestOK(asked[x])
  BY DEF AccountsInv, AskedOK
<1>2. asked' \in [Request -> AskedRec] /\ \A x \in Request : asked'[x] = IF x = r THEN q ELSE asked[x]
  BY <1>1 DEF RequestOK
<1>3. \A x \in Request : RequestOK(asked'[x])
  BY <1>1, <1>2
<1> QED  BY <1>2, <1>3 DEF AskedOK, RequestOK

LEMMA CommitAsked ==
  ASSUME AccountsInv, NEW r \in Request, NEW s, NEW kept, NEW q, NEW over, RequestOK(q),
         Sessions!Commit(r, s, kept, q, over)
  PROVE  AskedOK' /\ fileFaults' \in Nat
<1>1. RequestOK(Sessions!Idle)
  BY DEF RequestOK, Sessions!Idle, AskedRec
<1>2. asked' = [asked EXCEPT ![r] = q] \/ asked' = [asked EXCEPT ![r] = Sessions!Idle]
  BY DEF Sessions!Commit, Sessions!Move
<1>3. fileFaults' \in Nat
  BY DEF Sessions!Commit, AccountsInv, CountsOK
<1> QED  BY <1>1, <1>2, <1>3, MoveAsked

\* The requests that the operations leave.
LEMMA RequestsOK ==
  ASSUME AccountsInv, NEW r \in Request
  PROVE  /\ RequestOK(Sessions!Idle)
         /\ \A u \in Person, p \in Password, pc \in {"upgrade", "verified"} :
              RequestOK([Sessions!Idle EXCEPT !.pc = pc, !.user = u, !.pw = p])
         /\ asked[r].user \in Person => RequestOK([asked[r] EXCEPT !.pc = "verified"])
         /\ asked[r].session \in Session => RequestOK([asked[r] EXCEPT !.pc = "refreshed"])
         /\ \A i \in Nat : RequestOK([Sessions!Idle EXCEPT !.pc = "created", !.session = i])
         /\ \A i \in Session : RequestOK([Sessions!Idle EXCEPT !.pc = "checked", !.session = i])
<1>1. asked[r] \in AskedRec
  BY DEF AccountsInv, AskedOK
<1>2. Sessions!Idle \in AskedRec /\ Sessions!Idle.pc = "idle"
  BY DEF Sessions!Idle, AskedRec
<1>3. Session \subseteq Nat
  BY SessionFacts
<1>4. RequestOK(Sessions!Idle)
  BY <1>2 DEF RequestOK
<1>5. ASSUME NEW u \in Person, NEW p \in Password, NEW pc \in {"upgrade", "verified"}
      PROVE  RequestOK([Sessions!Idle EXCEPT !.pc = pc, !.user = u, !.pw = p])
  BY <1>2 DEF RequestOK, AskedRec
<1>6. asked[r].user \in Person => RequestOK([asked[r] EXCEPT !.pc = "verified"])
  BY <1>1 DEF RequestOK, AskedRec
<1>7. asked[r].session \in Session => RequestOK([asked[r] EXCEPT !.pc = "refreshed"])
  BY <1>1 DEF RequestOK, AskedRec
<1>8. ASSUME NEW i \in Nat PROVE RequestOK([Sessions!Idle EXCEPT !.pc = "created", !.session = i])
  BY <1>2 DEF RequestOK, AskedRec
<1>9. ASSUME NEW i \in Session PROVE RequestOK([Sessions!Idle EXCEPT !.pc = "checked", !.session = i])
  BY <1>2, <1>3 DEF RequestOK, AskedRec
<1> QED  BY <1>4, <1>5, <1>6, <1>7, <1>8, <1>9

\* Steps that change no account.
LEMMA QuietRest ==
  ASSUME AccountsInv, NEW r \in Request,
         \/ Sessions!RejectLogin(r) \/ Sessions!Sign(r)
         \/ \E u \in Person : Sessions!Verify(r, u)
         \/ \E i \in Session : Sessions!CheckSession(r, i)
  PROVE  Counted /\ AskedOK' /\ state' = state /\ file' = file /\ ended' = ended
<1>0. /\ made \in Nat /\ minted \in Nat /\ adds \in Nat /\ fileFaults \in Nat /\ fileCrashes \in Nat
      /\ cookie \in [Session -> Nat] /\ before \subseteq Session /\ AskedOK
  BY DEF AccountsInv, CountsOK
<1> USE DEF Counted, Sessions!counts
<1>1. CASE Sessions!RejectLogin(r)
  BY <1>0, <1>1 DEF Sessions!RejectLogin, Sessions!vars, AskedOK, RequestOK
<1>2. ASSUME NEW u \in Person, Sessions!Verify(r, u)
      PROVE  Counted /\ AskedOK' /\ state' = state /\ file' = file /\ ended' = ended
  <2>1. state.users[u].pw \in Password
    BY <1>2, StateFacts DEF Sessions!Verify, Sessions!Active, StateRec, AccountRec
  <2>2. PICK pc \in {"upgrade", "verified"} :
          asked' = [asked EXCEPT ![r] = [Sessions!Idle EXCEPT !.pc = pc, !.user = u, !.pw = state.users[u].pw]]
    BY <1>2 DEF Sessions!Verify, Sessions!Move
  <2>3. AskedOK'
    BY <2>1, <2>2, RequestsOK, MoveAsked
  <2>4. /\ made' = made /\ minted' = minted /\ adds' = adds /\ fileFaults' = fileFaults
        /\ fileCrashes' = fileCrashes /\ cookie' = cookie /\ before' = before
        /\ state' = state /\ file' = file /\ ended' = ended
    BY <1>2 DEF Sessions!Verify
  <2> QED  BY <1>0, <2>3, <2>4
<1>3. ASSUME NEW i \in Session, Sessions!CheckSession(r, i)
      PROVE  Counted /\ AskedOK' /\ state' = state /\ file' = file /\ ended' = ended
  <2>1. AskedOK'
    BY <1>3, RequestsOK, MoveAsked DEF Sessions!CheckSession, Sessions!Move
  <2>4. /\ made' = made /\ minted' = minted /\ adds' = adds /\ fileFaults' = fileFaults
        /\ fileCrashes' = fileCrashes /\ cookie' = cookie /\ before' = before
        /\ state' = state /\ file' = file /\ ended' = ended
    BY <1>3 DEF Sessions!CheckSession
  <2> QED  BY <1>0, <2>1, <2>4
<1>4. CASE Sessions!Sign(r)
  <2>1. AskedOK'
    BY <1>4, RequestsOK, MoveAsked DEF Sessions!Sign, Sessions!Move
  <2>2. cookie' \in [Session -> Nat]
    BY <1>0, <1>4, StateFacts DEF Sessions!Sign
  <2> QED  BY <1>0, <1>4, <2>1, <2>2 DEF Sessions!Sign
<1> QED  BY <1>1, <1>2, <1>3, <1>4

\* Operations on the accounts: the requests and the counts.
LEMMA LoginRest ==
  ASSUME AccountsInv, NEW r \in Request,
         \/ Sessions!Upgrade(r) \/ Sessions!CreateSession(r) \/ Sessions!CreateKeySession(r)
         \/ Sessions!Refresh(r) \/ Sessions!Logout(r)
         \/ Sessions!RevokeOne(r) \/ Sessions!RevokeOthers(r)
  PROVE  Counted /\ AskedOK'
<1>1. /\ made \in Nat /\ minted \in Nat /\ adds \in Nat /\ fileFaults \in Nat /\ fileCrashes \in Nat
      /\ cookie \in [Session -> Nat] /\ before \subseteq Session /\ made + 1 \in Nat
  BY DEF AccountsInv, CountsOK
<1>2. RequestOK(asked[r])
  BY DEF AccountsInv, AskedOK
<1> USE DEF Counted, Sessions!counts
<1>3. CASE Sessions!Upgrade(r)
  <2>1. AskedOK' /\ fileFaults' \in Nat
    <3>1. asked[r].pc = "upgrade"
      BY <1>3 DEF Sessions!Upgrade, Sessions!At
    <3>2. RequestOK([asked[r] EXCEPT !.pc = "verified"])
      BY <3>1, <1>2, RequestsOK DEF RequestOK
    <3>3. PICK s : Sessions!Commit(r, s, s, [asked[r] EXCEPT !.pc = "verified"], {})
      BY <1>3 DEF Sessions!Upgrade
    <3> QED  BY <3>2, <3>3, CommitAsked
  <2> QED  BY <1>1, <1>3, <2>1 DEF Sessions!Upgrade
<1>4. CASE Sessions!CreateSession(r)
  <2>1. AskedOK' /\ fileFaults' \in Nat
    BY <1>1, <1>4, RequestsOK, CommitAsked, MoveAsked DEF Sessions!CreateSession, Sessions!Move
  <2> QED  BY <1>1, <1>4, <2>1 DEF Sessions!CreateSession
<1>5. CASE Sessions!CreateKeySession(r)
  <2>1. AskedOK' /\ fileFaults' \in Nat
    BY <1>1, <1>5, RequestsOK, CommitAsked DEF Sessions!CreateKeySession
  <2> QED  BY <1>1, <1>5, <2>1 DEF Sessions!CreateKeySession
<1>6. CASE Sessions!Refresh(r)
  <2>1. AskedOK' /\ fileFaults' \in Nat
    BY <1>1, <1>2, <1>6, RequestsOK, CommitAsked, MoveAsked DEF Sessions!Refresh, Sessions!At, Sessions!Move, RequestOK
  <2> QED  BY <1>1, <1>6, <2>1 DEF Sessions!Refresh
<1>7. CASE Sessions!Logout(r)
  <2>1. AskedOK' /\ fileFaults' \in Nat
    BY <1>7, RequestsOK, CommitAsked DEF Sessions!Logout, Sessions!Keep
  <2> QED  BY <1>1, <1>7, <2>1 DEF Sessions!Logout
<1>8. ASSUME NEW S, Sessions!RevokeSessions(r, S) PROVE Counted /\ AskedOK'
  <2>1. AskedOK' /\ fileFaults' \in Nat
    BY <1>8, RequestsOK, CommitAsked DEF Sessions!RevokeSessions, Sessions!Keep
  <2> QED  BY <1>1, <1>8, <2>1 DEF Sessions!RevokeSessions
<1> QED  BY <1>3, <1>4, <1>5, <1>6, <1>7, <1>8 DEF Sessions!RevokeOne, Sessions!RevokeOthers

LEMMA AdminRest ==
  ASSUME AccountsInv, NEW r \in Request, Sessions!Admin(r)
  PROVE  Counted /\ AskedOK'
<1>1. /\ made \in Nat /\ minted \in Nat /\ adds \in Nat /\ fileFaults \in Nat /\ fileCrashes \in Nat
      /\ cookie \in [Session -> Nat] /\ before \subseteq Session
  BY DEF AccountsInv, CountsOK
<1>2. ASSUME NEW s, NEW kept, NEW over, Sessions!Commit(r, s, kept, Sessions!Idle, over)
      PROVE  AskedOK' /\ fileFaults' \in Nat
  BY <1>2, RequestsOK, CommitAsked
<1>3. ASSUME NEW s, NEW over, Sessions!Restore(r, s, over) \/ Sessions!Keep(r, s, over)
      PROVE  AskedOK' /\ fileFaults' \in Nat
  BY <1>2, <1>3 DEF Sessions!Keep, Sessions!Restore
<1> USE DEF Counted, Sessions!counts
<1>4. CASE Sessions!RotateSecret(r)
  <2>1. before' \subseteq Session
    BY <1>1, <1>4 DEF Sessions!RotateSecret, Sessions!Remember, Session
  <2> QED  BY <1>1, <1>3, <1>4, <2>1 DEF Sessions!RotateSecret
<1>5. CASE Sessions!RollbackSecret(r)
  BY <1>1, <1>3, <1>5 DEF Sessions!RollbackSecret
<1>6. CASE Sessions!FinalizeSecret(r)
  BY <1>1, <1>3, <1>6 DEF Sessions!FinalizeSecret
<1>7. ASSUME NEW u \in Person, Sessions!RollbackPassword(r, u) PROVE Counted /\ AskedOK'
  BY <1>1, <1>3, <1>7 DEF Sessions!RollbackPassword
<1>8. ASSUME NEW u \in Person, Sessions!FinalizePassword(r, u) PROVE Counted /\ AskedOK'
  BY <1>1, <1>3, <1>8 DEF Sessions!FinalizePassword
<1>9. ASSUME NEW u \in Person, Sessions!RemoveUser(r, u) PROVE Counted /\ AskedOK'
  BY <1>1, <1>3, <1>9 DEF Sessions!RemoveUser
<1>10. ASSUME NEW u \in Person, NEW p \in Password, Sessions!RotatePassword(r, u, p)
       PROVE Counted /\ AskedOK'
  BY <1>1, <1>3, <1>10 DEF Sessions!RotatePassword
<1>11. ASSUME NEW u \in Person, NEW p \in Password, Sessions!AddUser(r, u, p)
       PROVE Counted /\ AskedOK'
  BY <1>1, <1>3, <1>11 DEF Sessions!AddUser
<1> QED  BY <1>4, <1>5, <1>6, <1>7, <1>8, <1>9, <1>10, <1>11 DEF Sessions!Admin

LEMMA AdminDone ==
  ASSUME AccountsInv, NEW r \in Request, Sessions!Admin(r)
  PROVE  Done
BY RotateSecretDone, RollbackSecretDone, FinalizeSecretDone, RollbackPasswordDone,
   FinalizePasswordDone, RemoveUserDone, RotatePasswordDone, AddUserDone DEF Sessions!Admin

LEMMA LoginDone ==
  ASSUME AccountsInv, NEW r \in Request,
         \/ Sessions!Upgrade(r) \/ Sessions!CreateSession(r) \/ Sessions!CreateKeySession(r)
         \/ Sessions!Refresh(r) \/ Sessions!Logout(r)
         \/ Sessions!RevokeOne(r) \/ Sessions!RevokeOthers(r)
  PROVE  Done
<1>1. ASSUME Sessions!RevokeOne(r) \/ Sessions!RevokeOthers(r) PROVE Done
  <2>1. PICK S \in SUBSET Sessions!AllSessions(state) : Sessions!RevokeSessions(r, S)
    BY <1>1 DEF Sessions!RevokeOne, Sessions!RevokeOthers
  <2> QED  BY <2>1, RevokeDone
<1> QED  BY <1>1, UpgradeDone, CreateSessionDone, CreateKeySessionDone, RefreshDone, LogoutDone

\* The steps, one kind after the other.
LEMMA StepKinds ==
  ASSUME Sessions!Next
  PROVE  \/ \E r \in Request :
              \/ Sessions!RejectLogin(r) \/ Sessions!Sign(r)
              \/ \E u \in Person : Sessions!Verify(r, u)
              \/ \E i \in Session : Sessions!CheckSession(r, i)
         \/ \E r \in Request :
              \/ Sessions!Upgrade(r) \/ Sessions!CreateSession(r) \/ Sessions!CreateKeySession(r)
              \/ Sessions!Refresh(r) \/ Sessions!Logout(r)
              \/ Sessions!RevokeOne(r) \/ Sessions!RevokeOthers(r)
         \/ \E r \in Request : Sessions!Admin(r)
         \/ Sessions!ReplaceKey
         \/ Sessions!Crash
BY DEF Sessions!Next, Session

LEMMA DoneStays ==
  ASSUME AccountsInv, Done, Counted, AskedOK'
  PROVE  AccountsInv'
<1>1. PICK t, over : Saved(t, over) /\ Good(t, over)
  BY DEF Done
<1>2. /\ SoundState(state', made', minted') /\ SoundState(file', made', minted')
      /\ adds' = 0 => KeptState(state', ended') /\ KeptState(file', ended')
      /\ ended' \subseteq Session \cap 1 .. made'
  BY <1>1, SavedSound DEF Counted
<1>3. CountsOK'
  BY <1>2 DEF CountsOK, Counted
<1> QED  BY <1>2, <1>3 DEF AccountsInv

LEMMA CrashStays ==
  ASSUME AccountsInv, Sessions!Crash
  PROVE  AccountsInv'
<1>1. /\ state' = file /\ file' = file /\ made' = made /\ minted' = minted /\ adds' = adds
      /\ fileFaults' = fileFaults /\ cookie' = cookie /\ before' = before /\ ended' = ended
      /\ fileCrashes' = fileCrashes + 1 /\ asked' = [r \in Request |-> Sessions!Idle]
  BY DEF Sessions!Crash
<1>2. RequestOK(Sessions!Idle)
  BY DEF RequestOK, Sessions!Idle, AskedRec
<1>3. AskedOK'
  BY <1>1, <1>2 DEF AskedOK, RequestOK
<1> QED  BY <1>1, <1>3 DEF AccountsInv, CountsOK

LEMMA AccountsStep ==
  ASSUME AccountsInv, Sessions!Next
  PROVE  AccountsInv'
<1>1. ASSUME NEW r \in Request,
             \/ Sessions!RejectLogin(r) \/ Sessions!Sign(r)
             \/ \E u \in Person : Sessions!Verify(r, u)
             \/ \E i \in Session : Sessions!CheckSession(r, i)
      PROVE  AccountsInv'
  <2>1. Counted /\ AskedOK' /\ state' = state /\ file' = file /\ ended' = ended
    BY <1>1, QuietRest
  <2>2. SoundState(state, made', minted') /\ SoundState(file, made', minted')
    BY <2>1, LaterSound DEF AccountsInv, CountsOK, Counted
  <2>3. ended \subseteq Session \cap 1 .. made'
    BY <2>1 DEF AccountsInv, CountsOK, Counted
  <2>4. CountsOK'
    BY <2>1, <2>3 DEF CountsOK, Counted
  <2>5. adds' = 0 => KeptState(state', ended') /\ KeptState(file', ended')
    BY <2>1 DEF AccountsInv, Counted
  <2> QED  BY <2>1, <2>2, <2>4, <2>5 DEF AccountsInv
<1>2. ASSUME NEW r \in Request,
             \/ Sessions!Upgrade(r) \/ Sessions!CreateSession(r) \/ Sessions!CreateKeySession(r)
             \/ Sessions!Refresh(r) \/ Sessions!Logout(r)
             \/ Sessions!RevokeOne(r) \/ Sessions!RevokeOthers(r)
      PROVE  AccountsInv'
  BY <1>2, LoginDone, LoginRest, DoneStays
<1>3. ASSUME NEW r \in Request, Sessions!Admin(r) PROVE AccountsInv'
  BY <1>3, AdminDone, AdminRest, DoneStays
<1>4. CASE Sessions!ReplaceKey
  <2>1. Counted /\ AskedOK'
    BY <1>4 DEF Sessions!ReplaceKey, Sessions!counts, AccountsInv, CountsOK, Counted, AskedOK, RequestOK
  <2> QED  BY <1>4, <2>1, ReplaceKeyDone, DoneStays
<1>5. CASE Sessions!Crash
  BY <1>5, CrashStays
<1> QED  BY <1>1, <1>2, <1>3, <1>4, <1>5, StepKinds

-----------------------------------------------------------------------------
\* What the invariant says of the properties.
LEMMA AccountsHold ==
  ASSUME AccountsInv
  PROVE  /\ Sessions!SomebodyCanLogIn /\ Sessions!SessionsBounded
         /\ adds = 0 => Sessions!EndedStaysEnded
<1>1. Sessions!SomebodyCanLogIn
  BY DEF AccountsInv, SoundState, Sessions!SomebodyCanLogIn, Sessions!Active
<1>2. Sessions!SessionsBounded
  <2>1. \A S : Sessions!Cardinality(S) = Cardinality(S)
    BY Zenon DEF Sessions!Cardinality, Cardinality, Sessions!IsFiniteSet, IsFiniteSet
  <2>2. /\ Bounded(state.sessions) /\ Bounded(state.retired.sessions)
        /\ Bounded(file.sessions) /\ Bounded(file.retired.sessions)
    BY DEF AccountsInv, SoundState
  <2> QED  BY <2>1, <2>2 DEF Sessions!SessionsBounded, Bounded
<1>3. ASSUME adds = 0 PROVE Sessions!EndedStaysEnded
  <2>1. ASSUME NEW i \in ended, NEW s \in {state, file}, Sessions!Valid(s, i) PROVE FALSE
    <3>1. s \in StateRec /\ KeptState(s, ended)
      BY <1>3 DEF AccountsInv, SoundState
    <3>2. CASE i \in Session
      <4>1. Dead(s, i)
        BY <3>1, <3>2 DEF KeptState
      <4> QED  BY <2>1, <3>1, <3>2, <4>1, DeadIsRefused DEF Sessions!Valid, NoSession
    <3>3. CASE i \notin Session
      BY <2>1, <3>3 DEF AccountsInv, CountsOK
    <3> QED  BY <3>2, <3>3
  <2> QED  BY <2>1 DEF Sessions!EndedStaysEnded
<1> QED  BY <1>1, <1>2, <1>3

-----------------------------------------------------------------------------
(* One thread takes all requests.                                          *)

\* A cookie that is about to be signed is not of a retired session.
SignsCurrent(R, s) == \A r \in Request :
  asked[r].pc \in {"created", "refreshed"} /\ asked[r].session \in Session
    => s.retired.sessions[asked[r].session] = NoSession
ThreadInv ==
  /\ OneThread /\ Resolvable(state) /\ Resolvable(file)
  /\ PasswordIsCurrent /\ SignsCurrent(Request, state)

\* A step of r, or one that only others than r could notice.
LEMMA ThreadStep ==
  ASSUME AccountsInv, ThreadInv, OneThread', NEW r \in Request,
         \A q \in Request : q # r => asked'[q] = asked[q],
         \/ asked[r].pc # "idle"
         \/ state'.users = state.users /\ state'.retired = state.retired,
         asked'[r].pc = "upgrade" => state'.users[asked'[r].user].pw = asked'[r].pw,
         asked'[r].pc \in {"created", "refreshed"} /\ asked'[r].session \in Session
           => state'.retired.sessions[asked'[r].session] = NoSession,
         Resolvable(state'), Resolvable(file')
  PROVE  ThreadInv'
<1>1. PasswordIsCurrent'
  <2>1. ASSUME NEW q \in Request, asked'[q].pc = "upgrade"
        PROVE  state'.users[asked'[q].user].pw = asked'[q].pw
    <3>1. CASE q # r
      BY <2>1, <3>1 DEF ThreadInv, OneThread, PasswordIsCurrent
    <3> QED  BY <2>1, <3>1
  <2> QED  BY <2>1 DEF PasswordIsCurrent
<1>2. SignsCurrent(Request, state)'
  <2>1. ASSUME NEW q \in Request, asked'[q].pc \in {"created", "refreshed"}, asked'[q].session \in Session
        PROVE  state'.retired.sessions[asked'[q].session] = NoSession
    <3>1. CASE q # r
      BY <2>1, <3>1 DEF ThreadInv, OneThread, SignsCurrent
    <3> QED  BY <2>1, <3>1
  <2> QED  BY <2>1 DEF SignsCurrent, Session, NoSession
<1> QED  BY <1>1, <1>2 DEF ThreadInv, Resolvable

\* Requests after a save: as the operation wants it, or idle.
LEMMA CommitMoves ==
  ASSUME AccountsInv, NEW r \in Request, NEW s, NEW kept, NEW q, NEW over,
         Sessions!Commit(r, s, kept, q, over)
  PROVE  /\ \A x \in Request : x # r => asked'[x] = asked[x]
         /\ asked'[r] \in {q, Sessions!Idle} /\ Sessions!Idle.pc = "idle"
<1>1. asked \in [Request -> AskedRec]
  BY DEF AccountsInv, AskedOK
<1>2. asked' = [asked EXCEPT ![r] = q] \/ asked' = [asked EXCEPT ![r] = Sessions!Idle]
  BY DEF Sessions!Commit, Sessions!Move
<1> QED  BY <1>1, <1>2 DEF Sessions!Idle

LEMMA DoneResolvable ==
  ASSUME AccountsInv, ThreadInv, Done
  PROVE  Resolvable(state') /\ Resolvable(file')
<1>1. PICK t, over : Saved(t, over) /\ Good(t, over)
  BY DEF Done
<1>2. Resolvable(t)
  BY <1>1 DEF Good, ThreadInv
<1> QED  BY <1>1, <1>2 DEF Saved, ThreadInv

\* An operation of a request that has a session, which leaves it idle.
LEMMA AdminMoves ==
  ASSUME AccountsInv, NEW r \in Request,
         Sessions!Admin(r) \/ Sessions!Logout(r) \/ Sessions!RevokeOne(r) \/ Sessions!RevokeOthers(r)
  PROVE  /\ asked[r].pc = "checked" /\ asked'[r].pc = "idle"
         /\ \A x \in Request : x # r => asked'[x] = asked[x]
<1>1. ASSUME NEW s, NEW over, Sessions!Keep(r, s, over) \/ Sessions!Restore(r, s, over)
      PROVE  asked'[r].pc = "idle" /\ \A x \in Request : x # r => asked'[x] = asked[x]
  <2>1. PICK kept : Sessions!Commit(r, s, kept, Sessions!Idle, over)
    BY <1>1 DEF Sessions!Keep, Sessions!Restore
  <2> QED  BY <2>1, CommitMoves
<1>2. /\ asked[r].pc = "checked"
      /\ \E s, over : Sessions!Keep(r, s, over) \/ Sessions!Restore(r, s, over)
  <2>1. CASE Sessions!RotateSecret(r) \/ Sessions!RollbackSecret(r) \/ Sessions!FinalizeSecret(r)
    BY <2>1, Zenon DEF Sessions!RotateSecret, Sessions!RollbackSecret, Sessions!FinalizeSecret, Sessions!At
  <2>2. ASSUME NEW u \in Person,
               Sessions!RollbackPassword(r, u) \/ Sessions!FinalizePassword(r, u) \/ Sessions!RemoveUser(r, u)
        PROVE  /\ asked[r].pc = "checked"
               /\ \E s, over : Sessions!Keep(r, s, over) \/ Sessions!Restore(r, s, over)
    BY <2>2, Zenon DEF Sessions!RollbackPassword, Sessions!FinalizePassword, Sessions!RemoveUser, Sessions!At
  <2>3. ASSUME NEW u \in Person, NEW p \in Password,
               Sessions!RotatePassword(r, u, p) \/ Sessions!AddUser(r, u, p)
        PROVE  /\ asked[r].pc = "checked"
               /\ \E s, over : Sessions!Keep(r, s, over) \/ Sessions!Restore(r, s, over)
    BY <2>3, Zenon DEF Sessions!RotatePassword, Sessions!AddUser, Sessions!At
  <2>4. CASE Sessions!Logout(r) \/ Sessions!RevokeOne(r) \/ Sessions!RevokeOthers(r)
    BY <2>4, Zenon DEF Sessions!Logout, Sessions!RevokeOne, Sessions!RevokeOthers, Sessions!RevokeSessions, Sessions!At
  <2> QED  BY <2>1, <2>2, <2>3, <2>4, Zenon DEF Sessions!Admin
<1> QED  BY <1>1, <1>2

\* The number of a new session is not among the retired ones.
LEMMA NewIsNotRetired ==
  ASSUME AccountsInv, made + 1 \in Session
  PROVE  state.retired.sessions[made + 1] = NoSession
BY StateFacts

LEMMA QuietThread ==
  ASSUME AccountsInv, ThreadInv, OneThread', NEW r \in Request,
         \/ Sessions!RejectLogin(r) \/ Sessions!Sign(r)
         \/ \E u \in Person : Sessions!Verify(r, u)
         \/ \E i \in Session : Sessions!CheckSession(r, i)
  PROVE  ThreadInv'
<1>1. state' = state /\ file' = file
  BY QuietRest
<1>2. asked \in [Request -> AskedRec] /\ Sessions!Idle = [pc |-> "idle", user |-> None, pw |-> None, session |-> 0]
  BY DEF AccountsInv, AskedOK, Sessions!Idle
<1>3. CASE Sessions!RejectLogin(r)
  BY <1>1, <1>3 DEF Sessions!RejectLogin, Sessions!vars, ThreadInv, OneThread, PasswordIsCurrent, SignsCurrent, Resolvable
<1>4. CASE Sessions!Sign(r) \/ \E i \in Session : Sessions!CheckSession(r, i)
  <2>1. /\ \A q \in Request : q # r => asked'[q] = asked[q]
        /\ asked'[r].pc \in {"idle", "checked"}
    <3>1. CASE Sessions!Sign(r)
      BY <1>2, <3>1 DEF Sessions!Sign, Sessions!Move
    <3>2. ASSUME NEW i \in Session, Sessions!CheckSession(r, i)
          PROVE  /\ \A q \in Request : q # r => asked'[q] = asked[q]
                 /\ asked'[r].pc \in {"idle", "checked"}
      BY <1>2, <3>2 DEF Sessions!CheckSession, Sessions!Move
    <3> QED  BY <1>4, <3>1, <3>2
  <2> QED  BY <1>1, <2>1, ThreadStep DEF ThreadInv
<1>5. ASSUME NEW u \in Person, Sessions!Verify(r, u) PROVE ThreadInv'
  <2>1. /\ \A q \in Request : q # r => asked'[q] = asked[q]
        /\ asked'[r].pc \in {"upgrade", "verified"}
        /\ asked'[r].user = u /\ asked'[r].pw = state.users[u].pw
    BY <1>2, <1>5 DEF Sessions!Verify, Sessions!Move
  <2> QED  BY <1>1, <2>1, ThreadStep DEF ThreadInv
<1> QED  BY <1>3, <1>4, <1>5

\* Where the operations on sessions leave users and retired sessions.
LEMMA LoginThread ==
  ASSUME AccountsInv, ThreadInv, OneThread', NEW r \in Request,
         \/ Sessions!Upgrade(r) \/ Sessions!CreateSession(r) \/ Sessions!CreateKeySession(r)
         \/ Sessions!Refresh(r)
  PROVE  ThreadInv'
<1>1. Resolvable(state') /\ Resolvable(file')
  BY LoginDone, DoneResolvable
<1>2. asked \in [Request -> AskedRec] /\ Sessions!Idle = [pc |-> "idle", user |-> None, pw |-> None, session |-> 0]
      /\ state \in StateRec
  BY StateFacts DEF AccountsInv, AskedOK, Sessions!Idle
<1>3. CASE Sessions!Upgrade(r)
  <2>1. PICK s : Sessions!Commit(r, s, s, [asked[r] EXCEPT !.pc = "verified"], {})
    BY <1>3 DEF Sessions!Upgrade
  <2>2. /\ \A q \in Request : q # r => asked'[q] = asked[q]
        /\ asked'[r].pc \in {"verified", "idle"} /\ asked[r].pc = "upgrade"
    BY <1>2, <1>3, <2>1, CommitMoves DEF Sessions!Upgrade, Sessions!At, AskedRec
  <2> QED  BY <1>1, <2>2, ThreadStep
<1>4. CASE Sessions!Refresh(r)
  <2>1. CASE Sessions!Commit(r, state, state, [asked[r] EXCEPT !.pc = "refreshed"], {})
             /\ state.sessions[asked[r].session] # NoSession
    <3>1. /\ \A q \in Request : q # r => asked'[q] = asked[q]
          /\ asked'[r].pc \in {"refreshed", "idle"} /\ asked[r].pc = "checked"
          /\ asked'[r].pc = "refreshed" => asked'[r].session = asked[r].session
      BY <1>2, <1>4, <2>1, CommitMoves DEF Sessions!Refresh, Sessions!At, AskedRec
    <3>2. state' = state
      BY <2>1 DEF Sessions!Commit
    <3>3. asked[r].session \in Session => state.retired.sessions[asked[r].session] = NoSession
      BY <2>1, StateFacts
    <3> QED  BY <1>1, <3>1, <3>2, <3>3, ThreadStep
  <2>2. CASE asked' = [asked EXCEPT ![r] = Sessions!Idle] /\ state' = state
    <3>1. /\ \A q \in Request : q # r => asked'[q] = asked[q]
          /\ asked'[r].pc = "idle"
      BY <1>2, <2>2
    <3> QED  BY <1>1, <2>2, <3>1, ThreadStep
  <2> QED  BY <1>4, <2>1, <2>2 DEF Sessions!Refresh, Sessions!Move, NoSession
<1>5. ASSUME NEW s, s.users = state.users, s.retired = state.retired,
             Sessions!Commit(r, s, s, [Sessions!Idle EXCEPT !.pc = "created", !.session = made + 1], {})
      PROVE  ThreadInv'
  <2>1. /\ \A q \in Request : q # r => asked'[q] = asked[q]
        /\ asked'[r].pc \in {"created", "idle"}
        /\ asked'[r].pc = "created" => asked'[r].session = made + 1
    <3> DEFINE next == [Sessions!Idle EXCEPT !.pc = "created", !.session = made + 1]
    <3>1. next.pc = "created" /\ next.session = made + 1
      BY <1>2
    <3> HIDE DEF next
    <3>2. Sessions!Commit(r, s, s, next, {})
      BY <1>5 DEF next
    <3> QED  BY <3>1, <3>2, CommitMoves
  <2>2. state' = s
    BY <1>5 DEF Sessions!Commit
  <2> QED  BY <1>1, <1>5, <2>1, <2>2, NewIsNotRetired, ThreadStep
<1>6. ASSUME NEW R PROVE /\ [state EXCEPT !.sessions = R].users = state.users
                         /\ [state EXCEPT !.sessions = R].retired = state.retired
  BY <1>2 DEF StateRec
<1>7. CASE Sessions!CreateSession(r)
  <2>1. CASE asked' = [asked EXCEPT ![r] = Sessions!Idle] /\ state' = state
    <3>1. /\ \A q \in Request : q # r => asked'[q] = asked[q]
          /\ asked'[r].pc = "idle"
      BY <1>2, <2>1
    <3> QED  BY <1>1, <2>1, <3>1, ThreadStep
  <2>2. CASE \E R : Sessions!Commit(r, [state EXCEPT !.sessions = R], [state EXCEPT !.sessions = R],
                      [Sessions!Idle EXCEPT !.pc = "created", !.session = made + 1], {})
    BY <1>5, <1>6, <2>2
  <2> QED  BY <1>7, <2>1, <2>2 DEF Sessions!CreateSession, Sessions!Move
<1>8. CASE Sessions!CreateKeySession(r)
  <2>1. \E R : Sessions!Commit(r, [state EXCEPT !.sessions = R], [state EXCEPT !.sessions = R],
                  [Sessions!Idle EXCEPT !.pc = "created", !.session = made + 1], {})
    BY <1>8 DEF Sessions!CreateKeySession
  <2> QED  BY <1>5, <1>6, <2>1
<1> QED  BY <1>3, <1>4, <1>7, <1>8

LEMMA ThreadKept ==
  ASSUME AccountsInv, ThreadInv, OneThread', Sessions!Next
  PROVE  ThreadInv'
<1>1. ASSUME NEW r \in Request,
             Sessions!Admin(r) \/ Sessions!Logout(r) \/ Sessions!RevokeOne(r) \/ Sessions!RevokeOthers(r)
      PROVE  ThreadInv'
  <2>1. Resolvable(state') /\ Resolvable(file')
    BY <1>1, AdminDone, LoginDone, DoneResolvable
  <2>2. /\ asked[r].pc = "checked" /\ asked'[r].pc = "idle"
        /\ \A x \in Request : x # r => asked'[x] = asked[x]
    BY <1>1, AdminMoves
  <2> QED  BY <2>1, <2>2, ThreadStep
<1>2. CASE Sessions!ReplaceKey
  <2>1. state \in StateRec
    BY StateFacts
  <2>2. asked' = asked /\ state'.users = state.users /\ state'.retired = state.retired
    BY <1>2, <2>1 DEF Sessions!ReplaceKey, StateRec
  <2>3. Resolvable(state') /\ Resolvable(file')
    BY <1>2, ReplaceKeyDone, DoneResolvable
  <2> QED  BY <2>2, <2>3 DEF ThreadInv, PasswordIsCurrent, SignsCurrent, Resolvable
<1>3. CASE Sessions!Crash
  <2>1. \A r \in Request : asked'[r].pc = "idle"
    BY <1>3 DEF Sessions!Crash, Sessions!Idle
  <2>2. Resolvable(state') /\ Resolvable(file')
    BY <1>3 DEF Sessions!Crash, ThreadInv
  <2> QED  BY <2>1, <2>2 DEF ThreadInv, PasswordIsCurrent, SignsCurrent, Resolvable
<1> QED  BY <1>1, <1>2, <1>3, QuietThread, LoginThread, StepKinds

LEMMA ThreadInit ==
  ASSUME Sessions!Init
  PROVE  ThreadInv
<1>1. PICK p \in Password :
        /\ state = [users |-> [u \in Person |-> [pw |-> p, ver |-> 1, legacy |-> u \in Legacy]],
                    recovery |-> [u \in Person |-> [pw |-> None, ver |-> 0]],
                    secret |-> 1, sessions |-> Sessions!NoSessions,
                    retired |-> Sessions!NoRetired, key |-> 1]
        /\ file = state
  BY DEF Sessions!Init
<1>2. \A r \in Request : asked[r].pc = "idle"
  BY DEF Sessions!Init, Sessions!Idle
<1> QED  BY <1>1, <1>2, NoRetiredFacts DEF ThreadInv, OneThread, Resolvable, PasswordIsCurrent, SignsCurrent

-----------------------------------------------------------------------------
(* A rollback of the secret brings the sessions back.                      *)

\* The sessions B wait in s: their cookies, c, were signed with the retired
\* secret, or renewed with the one that is current.
Waiting(s, c, B) == s.retired.kept => \A i \in B :
  s.retired.sessions[i] # NoSession /\ c[i] \in {s.retired.secret, s.secret}

\* How the file f may lag behind the memory s, or be ahead of it: not at all, by
\* a rotation, by a rollback or by a finalization that could not be saved.
Lag(s, f) ==
  \/ f.retired = s.retired /\ f.secret = s.secret
  \/ f.retired.kept /\ ~s.retired.kept /\ f.retired.secret = s.secret
  \/ /\ s.retired.kept /\ ~f.retired.kept
     /\ \/ f.secret = s.retired.secret /\ f.sessions = s.retired.sessions
        \/ f.secret = s.secret
ReturnInv ==
  /\ Waiting(state, cookie, before \ ended) /\ Waiting(file, cookie, before \ ended)
  /\ Lag(state, file)

\* What a step leaves to a rollback of the secret.
Returned == ReturnInv' /\ Sessions!RollbackRestores

\* Operations that leave the secrets, the cookies and the retired sessions.
LEMMA SameSecrets ==
  ASSUME ReturnInv, NEW t, t.retired = state.retired, t.secret = state.secret,
         state' \in {state, t}, file' \in {file, t}, ended \subseteq ended',
         cookie' = cookie, before' = before
  PROVE  Returned
<1>1. before' \ ended' \subseteq before \ ended
  OBVIOUS
<1>2. Waiting(t, cookie, before \ ended)
  BY DEF ReturnInv, Waiting
<1>3. Waiting(state', cookie', before' \ ended') /\ Waiting(file', cookie', before' \ ended')
  <2>1. Waiting(state', cookie, before \ ended) /\ Waiting(file', cookie, before \ ended)
    BY <1>2 DEF ReturnInv
  <2> QED  BY <1>1, <2>1 DEF Waiting
<1>4. state'.retired = state.retired /\ state'.secret = state.secret
  OBVIOUS
<1>5. Lag(state', file')
  <2>1. CASE file' = file
    BY <1>4, <2>1 DEF ReturnInv, Lag
  <2>2. CASE file' = t
    BY <1>4, <2>2 DEF Lag
  <2> QED  BY <2>1, <2>2
<1>6. Sessions!RollbackRestores
  BY <1>4 DEF Sessions!RollbackRestores, Sessions!RollsBack
<1> QED  BY <1>3, <1>5, <1>6 DEF Returned, ReturnInv, Waiting, Lag, NoSession

LEMMA CommitReturns ==
  ASSUME ReturnInv, NEW r, NEW t, NEW kept \in {state, t}, NEW q, NEW over,
         Sessions!Commit(r, t, kept, q, over),
         t.retired = state.retired, t.secret = state.secret, cookie' = cookie, before' = before
  PROVE  Returned
<1>1. Saved(t, over)
  BY CommitSaves
<1> QED  BY <1>1, SameSecrets DEF Saved

\* The parts of the state that a change of others leaves.
LEMMA OtherParts ==
  ASSUME NEW s \in StateRec
  PROVE  /\ \A R : /\ [s EXCEPT !.sessions = R].retired = s.retired
                   /\ [s EXCEPT !.sessions = R].secret = s.secret
         /\ \A U : /\ [s EXCEPT !.users = U].retired = s.retired
                   /\ [s EXCEPT !.users = U].secret = s.secret
         /\ \A U, R : /\ [s EXCEPT !.users = U, !.sessions = R].retired = s.retired
                      /\ [s EXCEPT !.users = U, !.sessions = R].secret = s.secret
         /\ \A U : /\ [s EXCEPT !.recovery = U].retired = s.retired
                   /\ [s EXCEPT !.recovery = U].secret = s.secret
BY DEF StateRec

LEMMA QuietReturns ==
  ASSUME AccountsInv, ReturnInv, NEW r \in Request,
         \/ Sessions!RejectLogin(r) \/ Sessions!Sign(r)
         \/ \E u \in Person : Sessions!Verify(r, u)
         \/ \E i \in Session : Sessions!CheckSession(r, i)
  PROVE  Returned
<1>1. state' = state /\ file' = file /\ ended' = ended
  BY QuietRest
<1>2. CASE Sessions!RejectLogin(r) \/ (\E u \in Person : Sessions!Verify(r, u))
           \/ \E i \in Session : Sessions!CheckSession(r, i)
  <2>1. cookie' = cookie /\ before' = before
    BY <1>2 DEF Sessions!RejectLogin, Sessions!Verify, Sessions!CheckSession, Sessions!vars
  <2> QED  BY <1>1, <2>1, SameSecrets
<1>3. CASE Sessions!Sign(r)
  <2>1. /\ before' = before /\ before \subseteq Session /\ cookie \in [Session -> Nat]
        /\ \A i \in Session : cookie'[i] \in {cookie[i], state.secret}
    BY <1>3 DEF Sessions!Sign, AccountsInv, CountsOK
  <2>2. Waiting(state, cookie', before \ ended)
    BY <2>1 DEF ReturnInv, Waiting
  <2>3. Waiting(file, cookie', before \ ended)
    BY <2>1 DEF ReturnInv, Waiting, Lag
  <2> QED  BY <1>1, <2>1, <2>2, <2>3 DEF Returned, ReturnInv, Waiting, Lag, NoSession,
             Sessions!RollbackRestores, Sessions!RollsBack
<1> QED  BY <1>2, <1>3

LEMMA LoginReturns ==
  ASSUME AccountsInv, ReturnInv, NEW r \in Request,
         \/ Sessions!Upgrade(r) \/ Sessions!CreateSession(r) \/ Sessions!CreateKeySession(r)
         \/ Sessions!Refresh(r) \/ Sessions!Logout(r)
         \/ Sessions!RevokeOne(r) \/ Sessions!RevokeOthers(r)
  PROVE  Returned
<1>1. state \in StateRec
  BY StateFacts
<1>2. ASSUME state' = state, file' = file, ended' = ended, cookie' = cookie, before' = before
      PROVE  Returned
  BY <1>2, SameSecrets
<1>3. ASSUME NEW R, NEW q, NEW over, cookie' = cookie, before' = before,
             LET t == [state EXCEPT !.sessions = R] IN Sessions!Commit(r, t, t, q, over)
      PROVE  Returned
  <2> DEFINE t == [state EXCEPT !.sessions = R]
  <2>1. t.retired = state.retired /\ t.secret = state.secret
    BY <1>1, OtherParts
  <2>2. Sessions!Commit(r, t, t, q, over)
    BY <1>3
  <2> HIDE DEF t
  <2> QED  BY <1>3, <2>1, <2>2, CommitReturns
<1>4. CASE Sessions!Upgrade(r)
  <2> DEFINE t == [state EXCEPT !.users[asked[r].user].pw = asked[r].pw,
                                !.users[asked[r].user].legacy = FALSE]
  <2>1. t.retired = state.retired /\ t.secret = state.secret
    BY <1>1 DEF StateRec
  <2>2. /\ cookie' = cookie /\ before' = before
        /\ \E s \in {t, state} : Sessions!Commit(r, s, s, [asked[r] EXCEPT !.pc = "verified"], {})
    BY <1>4 DEF Sessions!Upgrade
  <2> HIDE DEF t
  <2> QED  BY <2>1, <2>2, CommitReturns
<1>5. CASE Sessions!CreateSession(r)
  BY <1>2, <1>3, <1>5 DEF Sessions!CreateSession
<1>6. CASE Sessions!CreateKeySession(r)
  BY <1>3, <1>6 DEF Sessions!CreateKeySession
<1>7. CASE Sessions!Refresh(r)
  <2>1. CASE Sessions!Commit(r, state, state, [asked[r] EXCEPT !.pc = "refreshed"], {})
    BY <1>7, <2>1, CommitReturns DEF Sessions!Refresh
  <2> QED  BY <1>2, <1>7, <2>1 DEF Sessions!Refresh
<1>8. CASE Sessions!Logout(r)
  BY <1>3, <1>8 DEF Sessions!Logout, Sessions!Keep
<1>9. CASE Sessions!RevokeOne(r) \/ Sessions!RevokeOthers(r)
  BY <1>3, <1>9 DEF Sessions!RevokeOne, Sessions!RevokeOthers, Sessions!RevokeSessions, Sessions!Keep
<1> QED  BY <1>4, <1>5, <1>6, <1>7, <1>8, <1>9

\* A new secret: the sessions that work wait for the old one, in memory or, when
\* it could not be saved, in the file at most.
LEMMA RotationReturns ==
  ASSUME AccountsInv, ReturnInv, NEW r \in Request, Sessions!RotateSecret(r)
  PROVE  Returned
<1> DEFINE t == [state EXCEPT !.retired = [secret |-> state.secret, sessions |-> state.sessions,
                                           kept |-> TRUE],
                              !.secret = minted + 1, !.sessions = Sessions!NoSessions]
           valid == {i \in Session : Sessions!Valid(state, i)}
<1>1. /\ t.retired.sessions = state.sessions /\ t.retired.secret = state.secret /\ t.retired.kept
      /\ state \in StateRec
  BY StateFacts DEF StateRec
<1>2. Sessions!Commit(r, t, state, Sessions!Idle, {}) /\ ~state.retired.kept /\ cookie' = cookie
  BY DEF Sessions!RotateSecret, Sessions!Restore
<1>3. before' = IF state' = state /\ file' = file THEN before ELSE valid
  BY DEF Sessions!RotateSecret, Sessions!Remember, Session
<1>4. Waiting(t, cookie, valid)
  BY <1>1 DEF Waiting, Sessions!Valid, NoSession
<1> HIDE DEF t, valid
<1>5. CASE state' = state /\ file' = file
  <2>1. ended \subseteq ended'
    BY <1>2 DEF Sessions!Commit
  <2> QED  BY <1>2, <1>3, <1>5, <2>1, SameSecrets
<1>6. CASE state' # state \/ file' # file
  <2>1. before' = valid
    BY <1>3, <1>6
  <2>2. file' = t /\ state' \in {state, t}
    BY <1>2, <1>6 DEF Sessions!Commit
  <2>3. Waiting(state, cookie, valid \ ended')
    BY <1>2 DEF Waiting
  <2>4. Waiting(t, cookie, valid \ ended')
    BY <1>4 DEF Waiting
  <2>5. Waiting(state', cookie', before' \ ended') /\ Waiting(file', cookie', before' \ ended')
    BY <1>2, <2>1, <2>2, <2>3, <2>4
  <2>6. Lag(state', file')
    BY <1>1, <1>2, <2>2 DEF Lag
  <2>7. Sessions!RollbackRestores
    BY <1>2 DEF Sessions!RollbackRestores, Sessions!RollsBack
  <2> QED  BY <2>5, <2>6, <2>7 DEF Returned, ReturnInv, Waiting, Lag, NoSession
<1> QED  BY <1>5, <1>6

\* Where a state takes the retired sessions back, they work again.
LEMMA Restored ==
  ASSUME ReturnInv, state'.secret = state.retired.secret, state'.sessions = state.retired.sessions,
         cookie' = cookie
  PROVE  Sessions!RollbackRestores
<1>1. SUFFICES ASSUME state.retired.kept, NEW i \in before \ ended,
                      cookie[i] # state.secret, Sessions!Backed(state', state.retired.sessions[i])
               PROVE  Sessions!Valid(state, i)'
  BY DEF Sessions!RollbackRestores, Sessions!RollsBack, Sessions!Returns
<1>2. state.retired.sessions[i] # NoSession /\ cookie[i] = state.retired.secret
  BY <1>1 DEF ReturnInv, Waiting
<1> QED  BY <1>1, <1>2 DEF Sessions!Valid, NoSession, Sessions!NoSession, Sessions!Backed, Sessions!Active

\* A rollback and a finalization leave no retired secret, or the file without one.
LEMMA ResolutionReturns ==
  ASSUME AccountsInv, ReturnInv, NEW r \in Request,
         Sessions!RollbackSecret(r) \/ Sessions!FinalizeSecret(r)
  PROVE  Returned
<1>1. state \in StateRec
  BY StateFacts
<1>2. ASSUME NEW t, NEW over, Sessions!Restore(r, t, over), state.retired.kept, ~t.retired.kept,
             cookie' = cookie, before' = before,
             \/ t.secret = state.retired.secret /\ t.sessions = state.retired.sessions
             \/ t.secret = state.secret
      PROVE  Returned
  <2>1. /\ state' = state \/ (state' = t /\ file' = t)
        /\ file' \in {file, t} /\ ended \subseteq ended'
    BY <1>2 DEF Sessions!Restore, Sessions!Commit
  <2>2. Waiting(t, cookie, before \ ended)
    BY <1>2 DEF Waiting
  <2>3. Waiting(state', cookie, before \ ended) /\ Waiting(file', cookie, before \ ended)
    BY <2>1, <2>2 DEF ReturnInv
  <2>4. Waiting(state', cookie', before' \ ended') /\ Waiting(file', cookie', before' \ ended')
    BY <1>2, <2>1, <2>3 DEF Waiting
  <2>5. Lag(state', file')
    <3>1. CASE file' = t
      BY <1>2, <2>1, <3>1 DEF Lag
    <3>2. CASE state' = state /\ file' = file
      BY <3>2 DEF ReturnInv, Lag
    <3> QED  BY <2>1, <3>1, <3>2
  <2>6. Sessions!RollbackRestores
    <3>1. CASE state' = state
      BY <3>1 DEF Sessions!RollbackRestores, Sessions!RollsBack
    <3>2. CASE state' = t /\ t.secret = state.secret
      BY <3>2 DEF Sessions!RollbackRestores, Sessions!RollsBack
    <3>3. CASE state' = t /\ t.secret = state.retired.secret /\ t.sessions = state.retired.sessions
      BY <1>2, <3>3, Restored
    <3> QED  BY <1>2, <2>1, <3>1, <3>2, <3>3
  <2> QED  BY <2>4, <2>5, <2>6 DEF Returned, ReturnInv, Waiting, Lag, NoSession
<1>3. CASE Sessions!RollbackSecret(r)
  <2> DEFINE t == [state EXCEPT !.secret = state.retired.secret,
                                !.sessions = state.retired.sessions,
                                !.retired = Sessions!NoRetired]
  <2>1. /\ t.sessions = state.retired.sessions /\ t.secret = state.retired.secret /\ ~t.retired.kept
    BY <1>1, NoRetiredFacts DEF StateRec
  <2>2. /\ state.retired.kept /\ cookie' = cookie /\ before' = before
        /\ Sessions!Restore(r, t, Sessions!AllSessions(state))
    BY <1>3 DEF Sessions!RollbackSecret
  <2> HIDE DEF t
  <2> QED  BY <1>2, <2>1, <2>2
<1>4. CASE Sessions!FinalizeSecret(r)
  <2> DEFINE t == [state EXCEPT !.retired = Sessions!NoRetired]
  <2>1. t.secret = state.secret /\ ~t.retired.kept
    BY <1>1, NoRetiredFacts DEF StateRec
  <2>2. /\ state.retired.kept /\ cookie' = cookie /\ before' = before
        /\ \E over : Sessions!Restore(r, t, over)
    BY <1>4 DEF Sessions!FinalizeSecret
  <2> HIDE DEF t
  <2> QED  BY <1>2, <2>1, <2>2
<1> QED  BY <1>3, <1>4

LEMMA AdminReturns ==
  ASSUME AccountsInv, ReturnInv, NEW r \in Request, Sessions!Admin(r)
  PROVE  Returned
<1>1. state \in StateRec
  BY StateFacts
<1>2. ASSUME NEW t, NEW over, Sessions!Restore(r, t, over) \/ Sessions!Keep(r, t, over),
             t.retired = state.retired, t.secret = state.secret, cookie' = cookie, before' = before
      PROVE  Returned
  BY <1>2, CommitReturns DEF Sessions!Restore, Sessions!Keep
<1>3. ASSUME NEW u \in Person, Sessions!RollbackPassword(r, u) PROVE Returned
  <2> DEFINE t == [state EXCEPT !.recovery[u] = [pw |-> None, ver |-> 0],
                     !.users[u] = [pw |-> state.recovery[u].pw,
                                   ver |-> Sessions!NextVersion(state.users[u].ver, state.recovery[u].ver),
                                   legacy |-> FALSE],
                     !.sessions = Sessions!Without(@, Sessions!Owned(@, u))]
  <2>1. t.retired = state.retired /\ t.secret = state.secret
    BY <1>1 DEF StateRec
  <2>2. Sessions!Restore(r, t, Sessions!SessionsOf(u)) /\ cookie' = cookie /\ before' = before
    BY <1>3 DEF Sessions!RollbackPassword
  <2> HIDE DEF t
  <2> QED  BY <1>2, <2>1, <2>2
<1>4. ASSUME NEW u \in Person, Sessions!FinalizePassword(r, u) PROVE Returned
  <2> DEFINE t == [state EXCEPT !.recovery[u] = [pw |-> None, ver |-> 0]]
  <2>1. t.retired = state.retired /\ t.secret = state.secret
    BY <1>1 DEF StateRec
  <2>2. Sessions!Restore(r, t, {}) /\ cookie' = cookie /\ before' = before
    BY <1>4 DEF Sessions!FinalizePassword
  <2> HIDE DEF t
  <2> QED  BY <1>2, <2>1, <2>2
<1>5. ASSUME NEW u \in Person, Sessions!RemoveUser(r, u) PROVE Returned
  <2> DEFINE t == [state EXCEPT !.users[u] = Sessions!NoAccount,
                                !.sessions = Sessions!Without(@, Sessions!Owned(@, u))]
  <2>1. t.retired = state.retired /\ t.secret = state.secret
    BY <1>1 DEF StateRec
  <2>2. Sessions!Keep(r, t, Sessions!SessionsOf(u)) /\ cookie' = cookie /\ before' = before
    BY <1>5 DEF Sessions!RemoveUser
  <2> HIDE DEF t
  <2> QED  BY <1>2, <2>1, <2>2
<1>6. ASSUME NEW u \in Person, NEW p \in Password, Sessions!RotatePassword(r, u, p) PROVE Returned
  <2> DEFINE t == [state EXCEPT !.recovery[u] = [pw |-> state.users[u].pw, ver |-> state.users[u].ver],
                     !.users[u] = [pw |-> p, ver |-> state.users[u].ver + 1, legacy |-> FALSE],
                     !.sessions = Sessions!Without(@, Sessions!Owned(@, u))]
  <2>1. t.retired = state.retired /\ t.secret = state.secret
    BY <1>1 DEF StateRec
  <2>2. Sessions!Restore(r, t, Sessions!SessionsOf(u)) /\ cookie' = cookie /\ before' = before
    BY <1>6 DEF Sessions!RotatePassword
  <2> HIDE DEF t
  <2> QED  BY <1>2, <2>1, <2>2
<1>7. ASSUME NEW u \in Person, NEW p \in Password, Sessions!AddUser(r, u, p) PROVE Returned
  <2> DEFINE t == [state EXCEPT !.users[u] = [pw |-> p, ver |-> 1, legacy |-> FALSE]]
  <2>1. t.retired = state.retired /\ t.secret = state.secret
    BY <1>1 DEF StateRec
  <2>2. Sessions!Keep(r, t, {}) /\ cookie' = cookie /\ before' = before
    BY <1>7 DEF Sessions!AddUser
  <2> HIDE DEF t
  <2> QED  BY <1>2, <2>1, <2>2
<1> QED  BY <1>3, <1>4, <1>5, <1>6, <1>7, RotationReturns, ResolutionReturns DEF Sessions!Admin

LEMMA KeyReturns ==
  ASSUME AccountsInv, ReturnInv, Sessions!ReplaceKey
  PROVE  Returned
<1> DEFINE t == [state EXCEPT !.key = @ + 1]
<1>1. t.retired = state.retired /\ t.secret = state.secret
  BY StateFacts DEF StateRec
<1>2. state' = t /\ file' = t /\ ended \subseteq ended' /\ cookie' = cookie /\ before' = before
  BY DEF Sessions!ReplaceKey
<1> HIDE DEF t
<1> QED  BY <1>1, <1>2, SameSecrets

\* A restart takes back what the file has: a rotation that was not saved in
\* memory, or a rollback.
LEMMA CrashReturns ==
  ASSUME ReturnInv, Sessions!Crash
  PROVE  Returned
<1>1. /\ state' = file /\ file' = file /\ ended' = ended /\ before' = before /\ cookie' = cookie
  BY DEF Sessions!Crash
<1>2. ReturnInv'
  BY <1>1 DEF ReturnInv, Waiting, Lag, NoSession
<1>3. Sessions!RollbackRestores
  <2>1. CASE state'.secret = state.secret \/ state'.retired.kept \/ ~state.retired.kept
    BY <2>1 DEF Sessions!RollbackRestores, Sessions!RollsBack
  <2>2. CASE state'.secret = state.retired.secret /\ state'.sessions = state.retired.sessions
    BY <1>1, <2>2, Restored
  <2> QED  BY <1>1, <2>1, <2>2 DEF ReturnInv, Lag
<1> QED  BY <1>2, <1>3 DEF Returned

LEMMA AllReturn ==
  ASSUME AccountsInv, ReturnInv, Sessions!Next
  PROVE  Returned
BY QuietReturns, LoginReturns, AdminReturns, KeyReturns, CrashReturns, StepKinds

-----------------------------------------------------------------------------
(* The parts of the suite that are about sessions.                         *)

SessionsInv ==
  /\ AccountsInv /\ ReturnInv
  /\ part \in {"accounts", "revocation"} => ThreadInv
  /\ part \in {"revocation", "session races"} => adds = 0

LEMMA SessionsInit == MCInit => SessionsInv
<1> SUFFICES ASSUME MCInit PROVE SessionsInv
  OBVIOUS
<1>1. Sessions!Init
  BY DEF MCInit
<1>2. adds = 0 /\ before = {} /\ file = state /\ ~state.retired.kept
  BY <1>1, NoRetiredFacts DEF Sessions!Init
<1>3. ReturnInv
  BY <1>2 DEF ReturnInv, Waiting, Lag
<1> QED  BY <1>1, <1>2, <1>3, AccountsInit, ThreadInit DEF SessionsInv

\* Steps of the other parts.
LEMMA SessionsIdle ==
  ASSUME SessionsInv, UNCHANGED <<part, sessionsVars>>
  PROVE  SessionsInv'
<1>1. /\ part' = part /\ state' = state /\ file' = file /\ cookie' = cookie /\ asked' = asked
      /\ made' = made /\ minted' = minted /\ adds' = adds /\ fileFaults' = fileFaults
      /\ fileCrashes' = fileCrashes /\ ended' = ended /\ before' = before
  BY DEF sessionsVars
<1>2. AccountsInv'
  BY <1>1 DEF SessionsInv, AccountsInv, AskedOK, RequestOK, CountsOK
<1>3. part' \in {"accounts", "revocation"} => ThreadInv'
  BY <1>1 DEF SessionsInv, ThreadInv, OneThread, PasswordIsCurrent, SignsCurrent
<1>4. ReturnInv'
  BY <1>1 DEF SessionsInv, ReturnInv, Waiting, Lag, NoSession
<1> QED  BY <1>1, <1>2, <1>3, <1>4 DEF SessionsInv

LEMMA SessionsStepKept ==
  ASSUME SessionsInv, SessionsStep
  PROVE  SessionsInv' /\ Sessions!RollbackRestores
<1>1. Sessions!Next /\ part' = part /\ part \in SessionParts
  BY DEF SessionsStep
<1>2. AccountsInv' /\ ReturnInv' /\ Sessions!RollbackRestores
  BY <1>1, AccountsStep, AllReturn DEF SessionsInv, Returned
<1>3. part \in {"accounts", "revocation"} => OneThread'
  BY DEF SessionsStep
<1>4. part \in {"accounts", "revocation"} => ThreadInv'
  BY <1>1, <1>3, ThreadKept DEF SessionsInv
<1>5. part \in {"revocation", "session races"} => adds' = 0
  BY DEF SessionsStep
<1> QED  BY <1>1, <1>2, <1>4, <1>5 DEF SessionsInv

\* Nothing is rolled back where nothing changes.
LEMMA NothingRolledBack ==
  ASSUME UNCHANGED sessionsVars
  PROVE  Sessions!RollbackRestores
BY DEF sessionsVars, Sessions!RollbackRestores, Sessions!RollsBack

LEMMA SessionsStepOrIdle ==
  ASSUME SessionsInv, [MCNext]_MCvars
  PROVE  SessionsInv' /\ Sessions!RollbackRestores
<1>1. CASE SessionsStep
  BY <1>1, SessionsStepKept
<1>2. CASE UNCHANGED <<part, sessionsVars>>
  <2>1. UNCHANGED sessionsVars
    BY <1>2
  <2> QED  BY <1>2, <2>1, SessionsIdle, NothingRolledBack
<1> QED  BY <1>1, <1>2 DEF MCNext, MCvars, KeysStep, LimitsStep

\* In every part about sessions, whatever the users, passwords and limits are:
\* somebody can log in, sessions stay within their limits, a rotation under way
\* can be resolved, what was ended stays ended, and a rollback of the secret
\* brings back what worked, also across failed saves and restarts
\* (kotibot_security.py: login, sessions, rotations).
THEOREM SessionsStaySound == MCSpec => SessionsHold
<1>1. MCInit => SessionsInv
  BY SessionsInit
<1>2. SessionsInv /\ [MCNext]_MCvars
        => SessionsInv' /\ (part \in SessionParts => Sessions!RollbackRestores)
  BY SessionsStepOrIdle
<1>3. SessionsInv =>
        /\ part \in SessionParts => Sessions!SomebodyCanLogIn /\ Sessions!SessionsBounded
        /\ part \in {"accounts", "revocation"} => Sessions!RecoveryResolvable
        /\ part \in {"revocation", "session races"} => Sessions!EndedStaysEnded
  <2> SUFFICES ASSUME SessionsInv
               PROVE  /\ Sessions!SomebodyCanLogIn /\ Sessions!SessionsBounded
                      /\ part \in {"accounts", "revocation"} => Sessions!RecoveryResolvable
                      /\ part \in {"revocation", "session races"} => Sessions!EndedStaysEnded
    OBVIOUS
  <2>1. /\ Sessions!SomebodyCanLogIn /\ Sessions!SessionsBounded
        /\ adds = 0 => Sessions!EndedStaysEnded
    BY AccountsHold DEF SessionsInv
  <2>2. part \in {"accounts", "revocation"} => Sessions!RecoveryResolvable
    BY DEF SessionsInv, ThreadInv, Resolvable, Sessions!RecoveryResolvable
  <2>3. part \in {"revocation", "session races"} => adds = 0
    BY DEF SessionsInv
  <2> QED  BY <2>1, <2>2, <2>3
<1> QED  BY <1>1, <1>2, <1>3, PTL DEF MCSpec, SessionsHold
=============================================================================
