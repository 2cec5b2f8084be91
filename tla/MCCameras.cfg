SPECIFICATION MCSpec
CONSTANTS
  p1 = p1
  p2 = p2
  w1 = w1
  w2 = w2
  c1 = c1
  c2 = c2
  r1 = r1
  r2 = r2
  Parts = {"requests", "door", "motion", "motion timers", "talk"}
  Page = {p1, p2}
  Upload = {}
  Worker = {w1, w2}
  Camera = {c1, c2}
  Run = {r1, r2}
  PhonePoll = PhonePoll
  None = None
  ViewerTTL = 0
  MaxNotices = 0
  MaxLeft = 1
  Timer = {"t1"}
  EndTimer = {"t1", "t2"}
  MaxNet = 2
  MaxFaults = 1
  MaxRequests = 1
  MaxCommands = 2
  MaxRestarts = 1
  MaxLosses = 0
INVARIANTS
  TypesOK
  LastPushWakes
PROPERTIES
  DoorIsTrue
  UsersDecide
SYMMETRY Symmetric
CHECK_DEADLOCK FALSE
