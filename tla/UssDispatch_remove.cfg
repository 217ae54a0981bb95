\* The claim of remove_job's comment.
SPECIFICATION Spec
CONSTANTS
  Handles <- TwoHandles
  Accels = {gpu}
  IDLE = IDLE
  CPU = CPU
  NoAccel = NoAccel
  BlueMode = FALSE
  NewVruntime = 1
  Granularity = 1
  MaxClock = 1
INVARIANT RemovedJobIsNotCurrent
CHECK_DEADLOCK FALSE
