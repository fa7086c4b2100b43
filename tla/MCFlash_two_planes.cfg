SPECIFICATION FairSpec
CONSTANTS
  channelCount = 1
  chipOfChannel = 1
  dieOfChip = 1
  planeOfDie = 2
  blockOfPlane = 3
  pageOfBlock = 3
  RESERVE_RATE = 100000
  GC_RATE = 1
  SubPages = {0, 1}
  HostLPNs = {0, 1, 2}
CONSTRAINT FirstPageInPart
INVARIANTS
  TypeOK
  QueuesMatchChip
  MapAndPagesAgree
  EraseIsSafe
  NeverSpins
  CountersAgree
  CopyIsCurrent
  WriteFrontier
PROPERTIES
  CollectionKeepsMap
  CollectionEnds
