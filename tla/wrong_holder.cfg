CONSTANTS
  u1 = u1  u2 = u2
  NULL = NULL
  Test = Test
  Asid <- TwoUprocs
  Line <- OneLine
  Flash <- FlashLine
  Frame <- OneFrame
  Faults <- WriteFaults
SPECIFICATION Spec
INVARIANT
  PoolIsExclusive
CHECK_DEADLOCK FALSE
