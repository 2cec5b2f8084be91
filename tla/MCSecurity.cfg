SPECIFICATION MCSpec
CONSTANTS
  Parts = {"keys", "operator", "key races", "key faults", "accounts", "revocation", "session races", "attempts", "nonces", "full tables"}
  None = None
  Request = {"r1", "r2"}
  MaxKeys = 3
  MaxTokens = 1
  MaxFaults = 0
  MaxCrashes = 1
  Person = {"a", "b"}
  Password = {"p", "q"}
  Legacy = {"b"}
  SessionLimit = 1
  MaxSessions = 3
  MaxVersion = 3
  MaxAdds = 1
  MaxSaveFaults = 1
  MaxRestarts = 1
INVARIANTS
  DeviceStaysIn
  LimitsHold
PROPERTIES
  CredentialsAreSafe
  SessionsHold
CHECK_DEADLOCK FALSE
