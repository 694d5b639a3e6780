\* Liveness: one replica that is restarted whenever it stops.
SPECIFICATION FairSpec
CONSTANTS
  Managers = {r1}
  Elected = {r1}
  AdoptedClusters = {own}
  NoCluster = NoCluster
  MaxEdits = 1
  MaxFaults = 1
PROPERTIES
  TeardownCompletes
  Converges
CHECK_DEADLOCK FALSE
