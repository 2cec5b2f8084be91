SPECIFICATION MCSpec
CONSTANTS
  Parts = {"light", "day", "low", "full", "door sound", "door command", "door timers", "motion ends", "phone records", "phone stops", "setting", "talk", "hang up", "upload", "scene"}
  None = None
PROPERTIES
  AllEnds
  AllArrives
CHECK_DEADLOCK FALSE
