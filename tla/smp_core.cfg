CONSTANTS
  p1 = p1  p2 = p2  p3 = p3  s1 = s1
  CLOCK = CLOCK
  NULL = NULL
  CPU <- TwoCpus
  PCB <- ThreePcbs
  Sem <- OneSem
  Dev <- OneDev
  Services = {"CREATEPROCESS", "TERMPROCESS", "DOIO"}
  Liberties = {}
SPECIFICATION Spec
CONSTRAINT WhileIntact
SYMMETRY PcbSymmetry
INVARIANTS
  CountMatches
  TreeIsLive
  FreshResume
  WaiterIsServed
  HaltsWhenDone
  NoFault
  LockIsReleased
PROPERTIES
  WokenByCompletion
