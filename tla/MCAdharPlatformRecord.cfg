\* Comment against code: seeding is a one-time operation.
SPECIFICATION Spec
CONSTANTS
  Managers = {cli}
  Pods = {}
  OnKind = FALSE
  HAMode = FALSE
  MaxRuns = 1
  MaxFaults = 1
  MaxRemovals = 0
  Removable = {}
PROPERTY
  RecordKept
CHECK_DEADLOCK FALSE
