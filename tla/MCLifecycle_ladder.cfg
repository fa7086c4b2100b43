SPECIFICATION LoadSpec
CONSTANTS
  Fanout <- TwoChips
  MaxFailures = 2
  MaxObjects = 3
  channelCount = 2
  chipOfChannel = 2
  dieOfChip = 2
  planeOfDie = 2
  blockOfPlane = 3
  pageOfBlock = 4
  RESERVE_RATE = 10
INVARIANTS EndsClean SafeWhileDisk FreedOnce TreeIsWhole MemcheckTells PPNRoundTrip PlanesKeepRoom
CHECK_DEADLOCK FALSE
