SPECIFICATION MCSpec
CONSTANTS
  Device = {d1}
  RoutesFile = RoutesFile
  SubsystemFile = SubsystemFile
  ServerFile = ServerFile
  Path = {RoutesFile, SubsystemFile, ServerFile}
  SyncPath = {}
  Caller = {}
  None = None
  Absent = Absent
  Corrupt = Corrupt
  MaxVersion = 4
  MaxFaults = 0
  MaxDamage = 0

  
PROPERTIES
  LoadKeepsDurable
  CleanRestartRestores
