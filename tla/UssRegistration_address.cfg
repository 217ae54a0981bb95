\* The claim of get_address_of_handle's dexit().
SPECIFICATION Spec
CONSTANTS
  Clients = {a, b}
  Unsuited = {}
  NoClient = NoClient
  MaxThreads = 2
INVARIANT ScheduledJobsHaveAddress
CHECK_DEADLOCK FALSE
