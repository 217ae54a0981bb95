\* The claim of the main loop's comment on SIGPIPE.
SPECIFICATION Spec
CONSTANTS
  Handles <- TwoHandles
  Accels = {gpu}
  IDLE = IDLE
  CPU = CPU
  NoAccel = NoAccel
  BlueMode = FALSE
  NewVruntime = 1
  Granularity = 1
  MaxClock = 2
INVARIANT TickReachesItsClients
CHECK_DEADLOCK FALSE
