SPECIFICATION Spec
CONSTANTS
  Path = {async1}
  SyncPath = {}
  Caller = {c1, c2}
  None = None
  Absent = Absent
  Corrupt = Corrupt
  MaxVersion = 2
  MaxFaults = 1
  MaxDamage = 0
PROPERTIES
  NoDefaultAfterFailedRead
