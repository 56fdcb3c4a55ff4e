CONSTANTS
  p1 = p1  p2 = p2  p3 = p3  s1 = s1
  CLOCK = CLOCK
  NULL = NULL
  CPU <- TwoCpus
  PCB <- TwoPcbs
  Sem <- OneSem
  Dev <- TwoDevs
  Services = {"CREATEPROCESS", "DOIO"}
  Liberties = {}
SPECIFICATION Spec
SYMMETRY PcbSymmetry
CHECK_DEADLOCK FALSE
INVARIANTS
  DeviceFound
