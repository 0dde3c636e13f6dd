\* A file copied on its own, a directory with one copied file and one of the
\* repository, an old workflow.
CONSTANTS
  Shared = {"AGENTS.md"}
  Folder = {"rebase.py"}
  Own = {"own.py"}
  Retired = {"code-style.md"}
  OldFlows = {"labeler.yml"}
  Budget = 2
SPECIFICATION UpkeepFairSpec
INVARIANTS SuccessMeansAutomated ReportedMeansSynced
PROPERTIES EditsAreRead Settles
