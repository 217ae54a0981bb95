\* The build with USS_BLUEMODE 1, where a preempted job runs on the CPU, and two
\* accelerators, whose run queues share the dispatcher and the main thread.
SPECIFICATION Spec
CONSTANTS
  Handles <- TwoHandles
  Accels = {gpu, fpga}
  IDLE = IDLE
  CPU = CPU
  NoAccel = NoAccel
  BlueMode = TRUE
  NewVruntime = 1
  Granularity = 1
  MaxClock = 2
INVARIANTS UsersAreCurrent SendersAreKnown MessagesAlternate Inv
PROPERTIES GrantIsClean ImplementsGrants
CHECK_DEADLOCK FALSE
