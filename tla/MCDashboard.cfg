SPECIFICATION MCSpec
CONSTANTS
  Parts = {"uploads", "stream", "slots", "pages", "log", "history", "preview"}
  Uploads = {1, 2, 3}
  None = None
  Remover = Remover
  MaxCrashes = 1
INVARIANTS
  TypesOK
  AnsweredIsStored
  NothingLeftBehind
PROPERTIES
  WholeStays
  PagesAreServed
  LogsAreKept
CHECK_DEADLOCK FALSE
