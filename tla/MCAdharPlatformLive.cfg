\* Liveness: two runs of the CLI on kind.
SPECIFICATION FairSpec
CONSTANTS
  Managers = {cli}
  Pods = {}
  OnKind = TRUE
  HAMode = FALSE
  MaxRuns = 2
  MaxFaults = 1
  MaxRemovals = 0
  Removable = {}
PROPERTY
  RunEnds
CHECK_DEADLOCK FALSE
