CONSTANTS
  u1 = u1  u2 = u2  w1 = w1  w2 = w2
  NULL = NULL
  CPU <- OneCpu
  Asid <- TwoUprocs
  USERPGTBLSIZE = 2
  POOLSIZE = 2
  Word <- TwoWords
  Faults = {"read"}
SPECIFICATION Spec
SYMMETRY PagerSymmetry
INVARIANTS
  TypeOK
  PoolIsExclusive
  FramesAgree
  TlbAgrees
PROPERTY
  ImplementsPrivateMemory
