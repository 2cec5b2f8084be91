SPECIFICATION MCSpec
CONSTANTS
  Parts = {"sync", "controller", "storage", "copies", "rotation", "keys", "residue"}
  None = None
  Runs = {"p", "q"}
  Files = {"a", "b"}
  Tools = {"recordings", "packages", "state"}
  MaxWrites = 1
  MaxStarts = 1
  MaxCrashes = 1
  Node = {"n1", "n2"}
  Sync = {"s0", "s1"}
  Startup = "s0"
  Repair = {"r1"}
  Loop = "loop"
  MaxChanges = 2
  MaxSyncs = 2
  MaxRepairs = 1
  MaxBreaks = 1
  Caller = {"c1", "c2"}
  Commissioned = {"n1"}
  Unit = {"celsius", "fahrenheit"}
  FirstUnit = "celsius"
  MaxRequests = 3
  MaxReplacements = 2
  MaxFailures = 1
  MayFail = {"copy", "rename"}
  Written = {"source", "primary"}
  Names = {"user", "pass"}
  Changes = {"pass"}
  MaxRotations = 2
  MaxStops = 2
  MaxRotationFaults = 2
  Devices = {"d1", "d2"}
  MaxKeyChanges = 6
  State = {"s"}
  History = {"h"}
  CopiedFiles = {"c"}
  Other = {"o"}
  Blockers = {"b"}
  MaxTouches = 2
  MaxKills = 1
  MaxFaults = 1
INVARIANTS
  TypesOK
PROPERTIES
  MatterIsSafe
  CopiesAreSafe
  NothingIsLost
  CleanupsAreSafe
CHECK_DEADLOCK FALSE
