SPECIFICATION FairSpec
CONSTANTS
  Objects = {o1, o2, o3, o4}
  Threads = {t1, t2}
  NULL = NULL
  MayFail = TRUE
INVARIANTS
  OneHolder
  LinksAreInverse
PROPERTIES
  CallsReturn
CHECK_DEADLOCK FALSE
