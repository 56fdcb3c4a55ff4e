CONSTANTS
  p1 = p1  p2 = p2  p3 = p3  s1 = s1
  CLOCK = CLOCK
  NULL = NULL
  CPU <- TwoCpus
  PCB <- TwoPcbs
  Sem <- OneSem
  Dev <- OneDev
  Services = {"CREATEPROCESS", "TERMPROCESS", "CLOCKWAIT", "DOIO"}
  Liberties = {}
SPECIFICATION FairSpec
CONSTRAINT WhileIntact
PROPERTIES
  ReadyRuns
  DeviceAnswers
  ClockWakes
  HaltsInTheEnd
