SPECIFICATION FairSpec
CONSTANTS
  None = None
  Worker = {w1}
  Timer = {t1}
  MaxCommands = 1
  MaxLosses = 0
  MaxRestarts = 1
PROPERTIES
  MotionRecordingEnds
