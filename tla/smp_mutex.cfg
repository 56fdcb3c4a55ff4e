CONSTANTS
  p1 = p1  p2 = p2  p3 = p3  s1 = s1
  CLOCK = CLOCK
  NULL = NULL
  CPU <- TwoCpus
  PCB <- ThreePcbs
  Sem <- OneSem
  Dev <- NoDevs
  Services = {"CREATEPROCESS", "PASSEREN", "VERHOGEN"}
  Liberties = {}
SPECIFICATION HSpec
SYMMETRY PcbSymmetry
CHECK_DEADLOCK FALSE
INVARIANTS
  MutualExclusion
