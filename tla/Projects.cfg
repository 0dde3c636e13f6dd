\* A project; three labels, of which one is not configured and a page holds
\* two; a milestone; two runs at a time.
CONSTANTS
  NoTool = NoTool
  ProjectTitles = {1}
  Labels = {1, 2, 3}
  Configured = {1, 3}
  Default = {}
  Stones = {1}
  PageSize = 2
  ShortFor = {"v2", "force"}
  Runs = {r1, r2}
  Repeated = r1
  Budget = 3
SPECIFICATION SyncFairSpec
INVARIANTS OneProjectPerTitle ReportedMeansApplied
PROPERTIES Converges
