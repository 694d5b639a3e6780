SPECIFICATION Spec
CONSTANTS
  Names = {c1}
  Clouds <- EveryCloud
  Shares = FALSE
  Workers = 2
  MostWorkers = 3
  Asked = 1
  Default = 1
  Target = 2
  MaxCopies = 2
  MaxFaults = 3
INVARIANTS TypeOK OneMachinePerNode RunningIsWhole NothingLeft NoSkew UpgradedIsWhole ControlPlaneFound
PROPERTIES ControlPlaneKept RetrySucceeds
