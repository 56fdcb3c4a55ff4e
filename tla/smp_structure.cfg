CONSTANTS
  p1 = p1  p2 = p2  p3 = p3  s1 = s1
  CLOCK = CLOCK
  NULL = NULL
  CPU <- TwoCpus
  PCB <- TwoPcbs
  Sem <- OneSem
  Dev <- OneDev
  Services = {"CREATEPROCESS", "TERMPROCESS", "TERMPID", "PASSEREN", "VERHOGEN", "DOIO", "CLOCKWAIT", "TRAP"}
  Liberties = {"overcommit", "shareddevice"}
SPECIFICATION Spec
CONSTRAINT WhileIntact
SYMMETRY PcbSymmetry
CHECK_DEADLOCK FALSE
INVARIANTS
  TypeOK
  OneList
  NobodyLost
  OneExecutor
  IdleHasNoProcess
  LocalsAreValid
