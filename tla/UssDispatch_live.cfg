\* Liveness under the fairness of the threads.
SPECIFICATION FairSpec
CONSTANTS
  Handles <- TwoHandles
  Accels = {gpu}
  IDLE = IDLE
  CPU = CPU
  NoAccel = NoAccel
  BlueMode = FALSE
  NewVruntime = 1
  Granularity = 1
  MaxClock = 2
PROPERTIES PreemptionIsAnswered IdleAcceleratorIsUsed FinishedJobIsRemoved
CHECK_DEADLOCK FALSE
