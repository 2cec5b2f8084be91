---------------------------- MODULE RequestLimits -----------------------------
(***************************************************************************)
(* The two bounded memories of subsystems/security/kotibot_security.py     *)
(* that depend on time: the nonces of signed requests (_nonce_seen), which *)
(* make a request that the network delivers twice count once, and the      *)
(* sliding windows of login and enrolment attempts (_rate_limit).  Both    *)
(* are kept in memory only: a restart of the server empties them.          *)
(***************************************************************************)
EXTENDS Naturals, Sequences, FiniteSets, SequencesExt

CONSTANTS
  Message,     \* signed requests; each has its own nonce
  Skew,        \* MAX_CLOCK_SKEW_SECONDS
  Retention,   \* NONCE_RETENTION_SECONDS
  NonceLimit,  \* MAX_NONCE_CACHE_ENTRIES
  Device,      \* devices that enrol from one address
  Limit, Window, KeyLimit,
  MaxTime,     \* bound: seconds
  MaxLives     \* bound: restarts

VARIABLES
  now,
  stamp,     \* the time in each message, by the clock of the device
  nonces,    \* _nonces, in order of insertion: [msg, at]
  accepted,  \* history: how often this server acted on a message, 2 for more than once
  former,    \* history: the messages that a server before the last start acted on
  buckets,   \* _rate_limits, in order of insertion: [key, times]
  admitted,  \* history: the times of the last Limit + 1 admitted attempts of each key
  retry,     \* the last refusal of each key: the time from which it may be repeated
  lives

past == <<former, lives>>
vars == <<now, stamp, nonces, accepted, buckets, admitted, retry, past>>

Time == 0..MaxTime
Key == {"login", "address"} \cup Device

TypeOK ==
  /\ now \in Time /\ stamp \in [Message -> Time]
  /\ nonces \in Seq([msg : Message, at : Time]) /\ Len(nonces) <= NonceLimit
  /\ accepted \in [Message -> 0..2]
  /\ buckets \in Seq([key : Key, times : Seq(Time)]) /\ Len(buckets) <= KeyLimit
  /\ \A i, j \in DOMAIN buckets : i # j => buckets[i].key # buckets[j].key
  /\ \A i \in DOMAIN buckets : Len(buckets[i].times) <= Limit
  /\ admitted \in [Key -> Seq(Time)]
  /\ retry \in [Key -> 0..(MaxTime + Window)]
  /\ former \subseteq Message /\ lives \in 0..MaxLives

Init ==
  /\ now = 0 /\ stamp \in [Message -> Time]
  /\ nonces = <<>> /\ accepted = [x \in Message |-> 0]
  /\ buckets = <<>> /\ admitted = [k \in Key |-> <<>>]
  /\ retry = [k \in Key |-> 0]
  /\ former = {} /\ lives = 0

-----------------------------------------------------------------------------
InRange(x) == stamp[x] <= now + Skew /\ now <= stamp[x] + Skew

\* Mutant: an entry is dropped one second early.
RemembersLess(e) == now - e.at < Retention

Remembers(e) == now - e.at <= Retention

\* Entries that are too old go, then the oldest ones if there is no room.
Room(kept) == SubSeq(kept, (IF Len(kept) < NonceLimit THEN 1 ELSE Len(kept) - NonceLimit + 2), Len(kept))

\* require_device_signature, from the timestamp to the nonce.
Deliver(x) ==
  LET kept == SelectSeq(nonces, Remembers)
      seen == \E i \in DOMAIN kept : kept[i].msg = x IN
  /\ InRange(x)
  /\ nonces' = IF seen THEN kept ELSE Append(Room(kept), [msg |-> x, at |-> now])
  /\ accepted' = IF seen THEN accepted ELSE [accepted EXCEPT ![x] = IF @ = 0 THEN 1 ELSE 2]
  /\ UNCHANGED <<now, stamp, buckets, admitted, retry, past>>

-----------------------------------------------------------------------------
HasBucket(B, k) == \E i \in DOMAIN B : B[i].key = k
Times(B, k) == IF HasBucket(B, k) THEN (CHOOSE b \in ToSet(B) : b.key = k).times ELSE <<>>

Counts(t) == t + Window > now
Bucket(B, k) == SelectSeq(Times(B, k), Counts)
Full(B, k) == Len(Bucket(B, k)) >= Limit

\* A dictionary keeps the place of a key that is already there.
Put(B, k, times) ==
  IF HasBucket(B, k)
  THEN [i \in DOMAIN B |-> IF B[i].key = k THEN [key |-> k, times |-> times] ELSE B[i]]
  ELSE Append(IF Len(B) >= KeyLimit THEN Tail(B) ELSE B, [key |-> k, times |-> times])

\* _rate_limit: the dictionary after one attempt.
Tried(B, k) == Put(B, k, IF Full(B, k) THEN Bucket(B, k) ELSE Append(Bucket(B, k), now))

Recent(times) == SubSeq(times, IF Len(times) > Limit + 1 THEN 2 ELSE 1, Len(times))

\* The attempts made with the keys ks, in this order, up to a refusal.
Attempt(ks) ==
  LET B1 == Tried(buckets, ks[1])
      both == Len(ks) = 2 /\ ~Full(buckets, ks[1])
      tried == IF both THEN {ks[1], ks[2]} ELSE {ks[1]}
      refused == {k \in tried : Full(IF k = ks[1] THEN buckets ELSE B1, k)} IN
  /\ buckets' = IF both THEN Tried(B1, ks[2]) ELSE B1
  /\ admitted' = [k \in Key |-> IF k \in tried \ refused THEN Recent(Append(admitted[k], now))
                                ELSE admitted[k]]
  /\ retry' = [k \in Key |-> IF k \in refused THEN Head(Bucket(buckets, k)) + Window
                             ELSE IF k \in tried THEN 0 ELSE retry[k]]
  /\ UNCHANGED <<now, stamp, nonces, accepted, past>>

TryLogin == Attempt(<<"login">>)
TryEnrolment(d) == Attempt(<<"address", d>>)

\* clear_login_rate_limit after a successful login.
LogIn ==
  /\ HasBucket(buckets, "login")
  /\ buckets' = SelectSeq(buckets, LAMBDA b : b.key # "login")
  /\ admitted' = [admitted EXCEPT !["login"] = <<>>]
  /\ retry' = [retry EXCEPT !["login"] = 0]
  /\ UNCHANGED <<now, stamp, nonces, accepted, past>>

Tick ==
  /\ now < MaxTime /\ now' = now + 1
  /\ UNCHANGED <<stamp, nonces, accepted, buckets, admitted, retry, past>>

\* A new server begins with empty caches; who was refused still waits.
Restart ==
  /\ lives < MaxLives /\ lives' = lives + 1
  /\ nonces' = <<>> /\ buckets' = <<>>
  /\ former' = former \cup {x \in Message : accepted[x] > 0}
  /\ accepted' = [x \in Message |-> 0] /\ admitted' = [k \in Key |-> <<>>]
  /\ UNCHANGED <<now, stamp, retry>>

Next ==
  \/ \E x \in Message : Deliver(x)
  \/ TryLogin \/ LogIn \/ \E d \in Device : TryEnrolment(d)
  \/ Tick \/ Restart

Spec == Init /\ [][Next]_vars

-----------------------------------------------------------------------------
\* A running server acts once on a request that arrives twice, however early or
\* late within its time window the copy comes, as long as the cache is large
\* enough: an entry lives at least as long as the timestamp is good.
AcceptedOnce == \A x \in Message : accepted[x] <= 1

\* kotibot_security.py:328 "replayed requests are rejected": no server acts again
\* on a request that one before it acted on.
NeverReplayed == AcceptedOnce /\ \A x \in former : accepted[x] = 0

\* While the server runs, no window of time sees more than the limit of admitted
\* attempts; a restart begins with empty windows.
AttemptsLimited ==
  \A k \in Key : \A i \in DOMAIN admitted[k] :
    i > Limit => admitted[k][i] >= admitted[k][i - Limit] + Window

\* Whoever waits for the time given in Retry-After is admitted then, also by a
\* server that was started in between.
RetryAfterHonest ==
  \A k \in Key : retry[k] # 0 /\ now >= retry[k] => ~Full(buckets, k)
=============================================================================
