SPECIFICATION Spec
CONSTANTS
  channelCount = 1
  chipOfChannel = 1
  dieOfChip = 1
  planeOfDie = 1
  blockOfPlane = 4
  pageOfBlock = 2
  RESERVE_RATE = 4
  GC_RATE = 2
  SubPages = {0}
  HostLPNs = {0, 1}
INVARIANTS
  MapNamesPage
CHECK_DEADLOCK FALSE
