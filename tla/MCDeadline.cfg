SPECIFICATION Spec
CONSTANTS
  MaxTx = 1
  MaxFaults = 0
  MaxCrashes = 0
  MaxTimeouts = 1
  MigratorKinds = {"directory"}
INVARIANTS
  RolledBackServicesRun
