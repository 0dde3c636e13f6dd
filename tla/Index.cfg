\* Two goroutines, every operation, a clean restart and a crash.
CONSTANTS
  Pkgs = {p1, p2, p3}
  Hashed = {p1, p2}
  Procs = {c1, c2}
  MemLimit = 1
  BatchSize = 2
  Ops <- AllOps
  MaxCalls = 2
  MaxStops = 1
  MaxCrashes = 1
  None = None
SPECIFICATION FairSpec
INVARIANTS CountCoherent MappingKept
PROPERTY CallsReturn
\* The bounds on calls and restarts stop the system.
CHECK_DEADLOCK FALSE
