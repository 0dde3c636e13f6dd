\* One key in two spellings, two goroutines, every operation, one fault.
CONSTANTS
  upper = upper
  lower = lower
  Names = {upper, lower}
  Upper <- MCUpper
  Procs = {c1, c2}
  Servers = 2
  Ops <- AllOps
  MaxCalls = 2
  MaxFaults = 1
  None = None
SPECIFICATION FairSpec
INVARIANTS KnownIsWhole
PROPERTIES GoodKeyStays CallsReturn
\* The bound on calls stops the system.
CHECK_DEADLOCK FALSE
