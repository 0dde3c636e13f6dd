SPECIFICATION FairSpec
CONSTANTS
  Servers <- TwoServers
  Callers = {c1}
  Main = main
  Requests = {r1, r2}
  None = None
INVARIANTS QuietClose ReturnedMeansStopped
PROPERTIES ShutdownEnds StatusAnswers
CHECK_DEADLOCK FALSE
