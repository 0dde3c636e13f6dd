\* Two clients and an index that lives for a tick; packages are not in this run.
CONSTANTS
  index = index
  package = package
  Setting <- MCSetting
  Clients = {c1, c2}
  Paths = {index}
  Patience = 1
  MaxVersion = 2
  MaxTime = 5
  MaxRequests = 3
  None = None
SPECIFICATION Spec
SYMMETRY Symmetry
PROPERTIES ServedIsRecent
\* The bounds on the clock and on requests stop the system.
CHECK_DEADLOCK FALSE
