\* A CLI manager outside leader election beside the in-cluster replica.
SPECIFICATION Spec
CONSTANTS
  Managers = {cli, r1}
  Elected = {r1}
  AdoptedClusters = {own}
  NoCluster = NoCluster
  MaxEdits = 1
  MaxFaults = 0
INVARIANT NoOrphanRegistration
CHECK_DEADLOCK FALSE
