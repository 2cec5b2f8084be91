SPECIFICATION FairSpec
CONSTANTS
  Path = {async1, sync1}
  SyncPath = {sync1}
  Caller = {c1}
  None = None
  Absent = Absent
  Corrupt = Corrupt
  MaxVersion = 2
  MaxFaults = 1
  MaxDamage = 1
INVARIANTS
  QueueHoldsNewest
  ReadsNewest
  Recoverable
  CleanStopIsDurable
PROPERTIES
  DamageIsPreserved
  ImplementsDurableFile
  EventuallyDurable
