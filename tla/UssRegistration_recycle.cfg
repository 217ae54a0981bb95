\* The claim of get_unique_handle's comment.
SPECIFICATION Spec
CONSTANTS
  Clients = {a, b}
  Unsuited = {}
  NoClient = NoClient
  MaxThreads = 2
INVARIANT HandlesAreUnique
CHECK_DEADLOCK FALSE
