SPECIFICATION Spec
CONSTANTS
  MaxTx = 1
  MaxFaults = 2
  MaxCrashes = 0
  MaxTimeouts = 0
  MigratorKinds = {"directory"}
INVARIANTS
  DecisionIsFinal
