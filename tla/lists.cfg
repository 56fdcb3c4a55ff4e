CONSTANTS
  p1 = p1  p2 = p2  p3 = p3
  d1 = d1  d2 = d2  d3 = d3
  NULL = NULL
  PCB <- ThreePcbs
  SEMD <- ThreeSemds
  Key <- TwoKeys
  NCPU = 2
SPECIFICATION Spec
SYMMETRY TableSymmetry
CHECK_DEADLOCK FALSE
INVARIANTS
  ListsAreLinked
  AslIsExact
  TreeAgrees
  DescriptorsSuffice
PROPERTY
  ImplementsTable
