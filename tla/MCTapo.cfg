SPECIFICATION MCSpec
CONSTANTS
  Parts = {"device", "two devices", "sessions", "scenes", "pages"}
  None = None
  Device = {"d1", "d2"}
  Command = {"c1"}
  Scene = {"s1", "s2"}
  Watcher = {"w1"}
  Limit = 2
  MaxIssued = 3
  MaxSurprises = 0
  MaxClients = 2
  SceneCommands = {"s1"}
  PlainCommands = {"c1"}
  RefreshLoop = "refresh"
  MaxSessions = 2
  MaxAway = 0
  MaxLost = 1
  MaxFlips = 1
INVARIANTS
  OneAtATime
PROPERTIES
  NothingGoesBack
  CommandsAreTrue
  LastSceneWins
CHECK_DEADLOCK FALSE
