SPECIFICATION Spec
CONSTANTS
  Names = {c1, c2}
  Clouds <- OnlyDigitalOcean
  Shares = FALSE
  Workers = 1
  MostWorkers = 1
  Asked = 1
  Default = 1
  Target = 2
  MaxCopies = 2
  MaxFaults = 0
INVARIANT ControlPlaneFound

