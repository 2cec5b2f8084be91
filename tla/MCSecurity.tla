----------------------------- MODULE MCSecurity ------------------------------
(***************************************************************************)
(* The security runtime for TLC: the keys of a device, the sessions and    *)
(* passwords of the dashboard, and the limits on requests. The components  *)
(* share no state: a behaviour is about one of them, as part says, and the *)
(* others stay in their initial states.                                    *)
(***************************************************************************)
EXTENDS DeviceKeys

CONSTANTS
  Parts,
  Person, Password, Legacy,                \* users of the dashboard
  SessionLimit, MaxSessions, MaxVersion, MaxAdds, MaxSaveFaults, MaxRestarts

VARIABLES
  part, \* which component the behaviour is about
  state, file, cookie, asked, made, minted, adds, fileFaults, fileCrashes,
  ended, promised, before,
  now, stamp, nonces, accepted, buckets, admitted, retry, former, lives

OneOperator == INSTANCE DeviceKeys WITH
  Request <- {"r1"}, MaxKeys <- 2, MaxTokens <- 1, MaxFaults <- 0,
  MaxCrashes <- 0
KeyFaults == INSTANCE DeviceKeys WITH
  Request <- {"r1"}, MaxKeys <- 2, MaxTokens <- 1, MaxFaults <- 1,
  MaxCrashes <- 1
Sessions == INSTANCE DashboardSessions WITH
  Device <- "device", User <- Person, MaxFaults <- MaxSaveFaults,
  MaxCrashes <- MaxRestarts, mem <- state, disk <- file, req <- asked,
  faults <- fileFaults, crashes <- fileCrashes
Attempts == INSTANCE RequestLimits WITH
  Message <- {}, Skew <- 1, Retention <- 2, NonceLimit <- 2, Device <- {"d1"},
  Limit <- 2, Window <- 3, KeyLimit <- 3, MaxTime <- 5, MaxLives <- 1
Nonces == INSTANCE RequestLimits WITH
  Message <- {"m1", "m2"}, Skew <- 1, Retention <- 2, NonceLimit <- 2,
  Device <- {}, Limit <- 1, Window <- 1, KeyLimit <- 3, MaxTime <- 4, MaxLives <- 1
FullTables == INSTANCE RequestLimits WITH
  Message <- {"m1"}, Skew <- 1, Retention <- 2, NonceLimit <- 1,
  Device <- {"d1"}, Limit <- 1, Window <- 1, KeyLimit <- 2, MaxTime <- 2, MaxLives <- 0

sessionsVars == <<state, file, cookie, asked, made, minted, adds, fileFaults,
                  fileCrashes, ended, promised, before>>
limitsVars == <<now, stamp, nonces, accepted, buckets, admitted, retry, former, lives>>
MCvars == <<part, vars, sessionsVars, limitsVars>>

\* A person is neither the device nor nobody, and a limit admits somebody.
ASSUME AccountsAssumption ==
  /\ Person # {} /\ None \notin Person \cup Password \cup {"device"}
  /\ "device" \notin Person
  /\ SessionLimit \in Nat \ {0} /\ MaxSessions \in Nat

SessionParts == {"accounts", "revocation", "session races"}

MCInit ==
  /\ part \in Parts
  /\ CASE part = "operator" -> OneOperator!Init
       [] part = "key faults" -> KeyFaults!Init
       [] OTHER -> Init
  /\ Sessions!Init /\ promised = [u \in Person |-> CHOOSE p \in Password : TRUE]
  /\ CASE part = "nonces" -> Nonces!Init
       [] part = "full tables" -> FullTables!Init
       [] OTHER -> Attempts!Init

\* The device sends one request at a time.
OneRequest ==
  \A q, r \in Request : req[q].pc # "idle" /\ req[r].pc # "idle" => q = r

\* One thread of the server takes all requests of the pages.
OneThread ==
  \A r \in Request : asked[r].pc # "idle" => r = CHOOSE q \in Request : TRUE

\* Those with an old hash leave their account alone.
LegacyStay == \A u \in Legacy :
  state'.users[u] = state.users[u] /\ \A r \in Request : asked'[r].user # u

\* What the others would use stays as it is.
KeysStep ==
  /\ \/ part = "keys" /\ Next /\ OneRequest' /\ calm'
     \/ part = "operator" /\ OneOperator!Next
     \/ part = "key races" /\ Next /\ calm'
     \/ part = "key faults" /\ KeyFaults!Next /\ (calm' \/ faults' = 1)
  /\ UNCHANGED <<part, sessionsVars, limitsVars>>
SessionsStep ==
  /\ part \in SessionParts /\ Sessions!Next
  /\ \/ part = "accounts" /\ OneThread' /\ made' <= 1 /\ minted' <= 2 /\ state'.key <= 1
     \/ part = "revocation" /\ OneThread' /\ adds' = 0 /\ fileFaults' = 0 /\ made' <= 2 /\ minted' <= 2 /\ state'.key <= 2
     \/ part = "session races" /\ adds' = 0 /\ made' <= 2 /\ minted' <= 2 /\ state'.key <= 1 /\ LegacyStay
  /\ UNCHANGED <<part, vars, limitsVars>>
LimitsStep ==
  /\ \/ part = "attempts" /\ Attempts!Next
     \/ part = "nonces" /\ Nonces!Next
     \/ part = "full tables" /\ FullTables!Next
  /\ UNCHANGED <<part, vars, sessionsVars>>

MCNext == KeysStep \/ SessionsStep \/ LimitsStep

MCSpec == MCInit /\ [][MCNext]_MCvars

------------------------------------------------------------------------------
\* A device that sends one request at a time, and that nobody has touched, can
\* always sign (require_device_signature, device_key_handoff_payload).
DeviceStaysIn == part = "keys" => DeviceKeepsAccess

\* Whatever is saved, fails to be saved, is rolled back or restarted: somebody
\* can log in, sessions stay within their limits, a rotation that is under way
\* can be finished or rolled back (one thread), what was ended stays ended (no
\* user added), and a rollback of the cookie secret brings back what worked.
SessionsHold ==
  /\ [](part \in SessionParts => Sessions!SomebodyCanLogIn /\ Sessions!SessionsBounded)
  /\ [](part \in {"accounts", "revocation"} => Sessions!RecoveryResolvable)
  /\ [](part \in {"revocation", "session races"} => Sessions!EndedStaysEnded)
  /\ [][(part \in SessionParts) => Sessions!RollbackRestores]_MCvars

\* A signed request acts once, no window sees more attempts than the limit,
\* and who waits as long as Retry-After says is admitted.
LimitsHold ==
  /\ part = "nonces" => Nonces!AcceptedOnce
  /\ part = "attempts" => Attempts!AttemptsLimited /\ Attempts!RetryAfterHonest
==============================================================================
