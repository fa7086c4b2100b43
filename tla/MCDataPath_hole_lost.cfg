SPECIFICATION DataSpec
CONSTANTS
  channelCount = 1
  chipOfChannel = 1
  dieOfChip = 1
  planeOfDie = 1
  blockOfPlane = 2
  pageOfBlock = 2
  RESERVE_RATE = 100000
  GC_RATE = 1
  SubPages = {0, 1, 2}
  HostLPNs = {0}
  subpageOfPage = 3
  MaxSectors = 3
  HostPreempted = FALSE
INVARIANTS
  ValidIsWritten
CHECK_DEADLOCK FALSE
