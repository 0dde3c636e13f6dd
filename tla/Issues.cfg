\* A file that creates and rewrites an issue, one that comments; two passes of
\* close-duplicates, one of the cleanup.
CONSTANTS
  None = None
  f1 = f1
  f2 = f2
  g1 = g1
  g2 = g2
  g3 = g3
  t1 = t1
  t2 = t2
  Titles = {t1, t2}
  Guids = {g1, g2, g3}
  Norm <- MCNorm
  Starts <- MCStarts
  Bodies = {"null"}
  MaxIssues = 6
  Budget = 3
  Files = {f1, f2}
  Legacy = f2
  Content <- MCContent
  Scans = {1}
  Closings = {1, 2}
SPECIFICATION FairSpec
INVARIANTS NoTwins OnlyMalformedRefused LowestStays KeptIsKept
PROPERTIES ArchivedAfterTry Delivered
CHECK_DEADLOCK FALSE
