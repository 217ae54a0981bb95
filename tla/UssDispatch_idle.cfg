\* The build as configured (USS_BLUEMODE 0): three jobs share one accelerator.
SPECIFICATION Spec
CONSTANTS
  Handles <- ThreeHandles
  Accels = {gpu}
  IDLE = IDLE
  CPU = CPU
  NoAccel = NoAccel
  BlueMode = FALSE
  NewVruntime = 1
  Granularity = 1
  MaxClock = 2
INVARIANTS TypeOK UsersAreCurrent TreesMatchEntities MessagesAlternate
PROPERTIES GrantIsClean ImplementsGrants
CHECK_DEADLOCK FALSE
