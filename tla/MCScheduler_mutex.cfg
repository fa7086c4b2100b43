SPECIFICATION Spec
CONSTANTS
  chipOfChannel = 1
  MaxPages = 1
  MaxCopies = 0
  FreshMutex = "free"
  HostPreempted = TRUE
  IDs <- MCIDs
  Addresses <- MCAddresses
INVARIANTS
  MutexReady
CHECK_DEADLOCK FALSE
