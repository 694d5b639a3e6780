\* Comment against code: failed provider configurations are retried.
SPECIFICATION Spec
CONSTANTS
  Managers = {cli}
  Pods = {}
  OnKind = TRUE
  HAMode = FALSE
  MaxRuns = 1
  MaxFaults = 0
  MaxRemovals = 0
  Removable = {}
INVARIANT
  ControlPlaneWhole
CHECK_DEADLOCK FALSE
