\* One plane, two replicas of the in-cluster manager sharing the lease
\* (a rolling update), one cluster to adopt.  Two edits without a fault,
\* or one edit with up to two faults.
SPECIFICATION Spec
CONSTANTS
  Managers = {r1, r2}
  Elected = {r1, r2}
  AdoptedClusters = {own}
  NoCluster = NoCluster
  MaxEdits = 2
  MaxFaults = 2
INVARIANTS
  TypeOK
  NoOrphanRegistration
  ObservedNotAhead
  InfraGuarded
PROPERTIES
  BecomesReadyWhole
  LivePlaneKeepsResources
  ImplementsLifecycle
CONSTRAINT WithinBudget
SYMMETRY Replicas
CHECK_DEADLOCK FALSE
