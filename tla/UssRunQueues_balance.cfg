\* Three jobs, every interleaving with the dispatcher.
SPECIFICATION Spec
CONSTANTS
  Handles = {1, 2, 3}
  Devices <- TwoTypes
  Implemented <- Mixed
  NofTypes = 8
  MaxTransport = 3
  Scale = 6
  Garbage <- Unset
  Balancing = TRUE
INVARIANTS TypeOK CountersMatchTrees ListsMatchPlaces OnlyKnownExits
PROPERTIES RunningJobStaysPut JobStartsAtBestType InsertionsKeepBalance
CHECK_DEADLOCK FALSE
