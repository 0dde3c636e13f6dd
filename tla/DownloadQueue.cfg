\* Three submitters on a buffer of one, two workers, two concurrent Stops.
CONSTANTS
  Tasks = {t1, t2, t3}
  Workers = {w1, w2}
  Stoppers = {s1, s2}
  Capacity = 1
  None = None
SPECIFICATION FairSpec
INVARIANTS AnswerIsTruth ShutdownOrder
PROPERTIES ImplementsPool SubmitReturns StopReturns AcceptedIsHandled
\* The queue really stops: every task answered, every Stop returned.
CHECK_DEADLOCK FALSE
