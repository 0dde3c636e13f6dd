\* Every operation, one at a time, on a sound and on a failing disk, with a clean restart.
CONSTANTS
  short = short
  long = long
  Data <- MCData
  SizeOf <- MCSizeOf
  Clients = {c1}
  Keeper = keeper
  Paths = {p1, p2, p3}
  MaxSize = 4
  PruneBatch = 2
  Ops <- AllOps
  Serial = TRUE
  Disks = {"sound", "failing"}
  MaxCalls = 4
  MaxRestarts = 1
  MaxCrashes = 0
  None = None
SPECIFICATION Spec
SYMMETRY Symmetry
INVARIANTS SizeCoversEntries EntriesMatchFiles
PROPERTY ImplementsLRUMap
\* The bounds on calls and restarts stop the system.
CHECK_DEADLOCK FALSE
