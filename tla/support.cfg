CONSTANTS
  u1 = u1  u2 = u2
  NULL = NULL
  Test = Test
  Asid <- TwoUprocs
  Line <- OneLine
  Flash <- FlashLine
  Frame <- TwoFrames
  Faults <- ReadFaults
SPECIFICATION Spec
INVARIANTS
  TypeOK
  PoolIsExclusive
  ReleaseNeverWaits
  TestEndsLast
PROPERTIES
  FaultsAreServed
  TestEnds
