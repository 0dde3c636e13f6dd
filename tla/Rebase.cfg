\* Two changes of the person, one of others, one of the target branch; the
\* first three clash with the last.
CONSTANTS
  Ours = {1, 3}
  Others = {2}
  Upstream = {4}
  Clashing = {1, 2, 3}
  SaveBoth = {2}
  Budget = 5
CHECK_DEADLOCK FALSE
SPECIFICATION Spec
INVARIANTS OwnWorkKept
PROPERTIES MovesWhole DiscardsOnlyFetched
