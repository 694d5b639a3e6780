\* Two runs of the CLI and the in-cluster manager of a cloud platform.
SPECIFICATION Spec
CONSTANTS
  Managers = {cli, pod}
  Pods = {pod}
  OnKind = FALSE
  HAMode = TRUE
  MaxRuns = 2
  MaxFaults = 1
  MaxRemovals = 1
  Removable = {"appset"}
INVARIANTS
  TypeOK
  GitOpsSeeded
  FoundationFirst
PROPERTY
  ImplementsBootstrap
CHECK_DEADLOCK FALSE
