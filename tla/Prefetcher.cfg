\* Two indexes with four URLs, a queue of one, one worker.
CONSTANTS
  r1 = r1
  h1 = h1
  h2 = h2
  Reqs = {r1, r2, r3, r4}
  Handlers = {h1, h2}
  OwnerOf <- MCOwnerOf
  Workers = {w1}
  Capacity = 1
  None = None
SPECIFICATION FairSpec
PROPERTIES IndexReturns ShutdownReturns
\* The prefetcher ends when all is fetched or it is shut down.
CHECK_DEADLOCK FALSE
