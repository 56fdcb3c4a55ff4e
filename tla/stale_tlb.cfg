CONSTANTS
  u1 = u1  u2 = u2  w1 = w1  w2 = w2
  NULL = NULL
  CPU <- TwoCpus
  Asid <- TwoUprocs
  USERPGTBLSIZE = 1
  POOLSIZE = 1
  Word <- TwoWords
  Faults = {}
SPECIFICATION Spec
SYMMETRY PagerSymmetry
INVARIANT
  AccessesOwnPage
CHECK_DEADLOCK FALSE
