SPECIFICATION MCSpec
CONSTANTS
  Parts = {"recording", "sleep", "wake", "hand-off", "scene", "session", "stream", "monitoring", "reports", "sync", "repair", "relocation", "copies", "rotation", "residue"}
  None = None
  PhonePoll = PhonePoll
  Refresher = Refresher
PROPERTIES
  AllComesTrue
CHECK_DEADLOCK FALSE
