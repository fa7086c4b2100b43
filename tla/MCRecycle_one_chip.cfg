SPECIFICATION RecycleSpec
CONSTANTS
  NULL = NULL
  Prompt = FALSE
  chip1 = chip1 chip2 = chip2
  c1 = c1 c2 = c2 c3 = c3 c4 = c4
  s1 = s1 s2 = s2 s3 = s3
  Chips = {chip1}
  Cmds = {c1, c2, c3, c4}
  Subs = {s1, s2, s3}
CONSTRAINT CopyOwnsItsSub
SYMMETRY Alike
INVARIANTS EndsOwnCommand FreedOnce OnlyErasesLeak
CHECK_DEADLOCK FALSE
