SPECIFICATION Spec
CONSTANTS
  chipOfChannel = 2
  MaxPages = 2
  MaxCopies = 0
  FreshMutex = "free"
  HostPreempted = TRUE
  IDs <- MCIDs
  Addresses <- MCAddresses
INVARIANTS
  NeverRefused
  OneSignalPerCommand
  LostOnlyToSleepers
  StaleOnlyInWindow
  EachInOnePlace
CHECK_DEADLOCK FALSE
