\* Two clients and the maintenance in every interleaving, a disk that may fail, a crash.
CONSTANTS
  short = short
  long = long
  Data <- MCData
  SizeOf <- MCSizeOf
  Clients = {c1, c2}
  Keeper = keeper
  Paths = {p1, p2}
  MaxSize = 2
  PruneBatch = 2
  Ops <- Racing
  Serial = FALSE
  Disks = {"failing"}
  MaxCalls = 3
  MaxRestarts = 0
  MaxCrashes = 1
  None = None
SPECIFICATION Spec
SYMMETRY Symmetry
INVARIANTS FileBeforeEntry SizeBeforeEntry
\* The bounds on calls and restarts stop the system.
CHECK_DEADLOCK FALSE
