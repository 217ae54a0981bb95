\* Three clients, one of which the daemon cannot serve, and every interleaving of
\* the threads of the daemon, which are scheduled fairly.
SPECIFICATION FairSpec
CONSTANTS
  Clients = {a, b, c}
  Unsuited = {c}
  NoClient = NoClient
  MaxThreads = 2
INVARIANTS TypeOK TablesAgree FreeHandlesAreForgotten NewRegsBalance TakenEntryIsPending AcceptedHasJob LeftoversShareHandles
PROPERTY EveryConnectionIsAnswered
CHECK_DEADLOCK FALSE
