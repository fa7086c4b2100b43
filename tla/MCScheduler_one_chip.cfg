SPECIFICATION FairSpec
CONSTANTS
  chipOfChannel = 1
  MaxPages = 3
  MaxCopies = 1
  FreshMutex = "stale"
  HostPreempted = FALSE
  IDs <- MCIDs
  Addresses <- MCAddresses
INVARIANTS
  TypeOK
  CountMatchesPending
  ReadBeforeWrite
  NoLostWakeup
PROPERTIES
  KeepsPromise
