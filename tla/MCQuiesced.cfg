SPECIFICATION Spec
CONSTANTS
  MaxTx = 1
  MaxFaults = 0
  MaxCrashes = 1
  MaxTimeouts = 0
  MigratorKinds = {"directory"}
INVARIANTS
  QuiescedIsRestored
