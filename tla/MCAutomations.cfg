SPECIFICATION MCSpec
CONSTANTS
  Parts = {"motion", "motion races", "recording", "day", "charging", "page", "two pages"}
  None = None
  Reporter = {"r1", "r2"}
  Timer = {"t1", "t2", "t3"}
  User = {"u1", "u2"}
  MaxReports = 3
  MaxCommands = 2
  MaxEdits = 1
  MaxFailures = 1
  MaxLosses = 1
  MaxTimeouts = 1
  MaxSurprises = 1
  Viewer = {"u1"}
  Source = {"s1", "s2"}
  Retriggers = {"s1"}
  Runner = {"r1", "r2"}
  MaxRuns = 3
  MaxRequests = 1
  MaxClients = 1
  MaxRemovals = 1
  MaxSourceEdits = 0
  Key = {"room", "light"}
  Rooms = {"room"}
  Device = {"l1", "l2"}
  Lamps = {"l1"}
  LastHour = 2
  MaxDays = 2
  MaxChoices = 1
  MaxSaves = 1
INVARIANTS
  TypesOK
PROPERTIES
  TimersAreTrue
  ActionsAreTrue
  RulesAreKept
CHECK_DEADLOCK FALSE
