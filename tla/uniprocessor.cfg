CONSTANTS
  p1 = p1  p2 = p2  p3 = p3  s1 = s1
  CLOCK = CLOCK
  NULL = NULL
  CPU <- OneCpu
  PCB <- ThreePcbs
  Sem <- OneSem
  Dev <- TwoDevs
  Services = {"CREATEPROCESS", "TERMPROCESS", "PASSEREN", "VERHOGEN", "DOIO"}
  Liberties = {}
SPECIFICATION HSpec
SYMMETRY PcbSymmetry
INVARIANTS
  CreditConserved
  NoLostWakeup
  FreshResume
  NoFault
PROPERTIES
  AtomicCalls
  WokenByCompletion
