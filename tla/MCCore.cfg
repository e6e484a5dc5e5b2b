SPECIFICATION Spec
CONSTANTS
  MaxTx = 2
  MaxFaults = 2
  MaxCrashes = 1
  MaxTimeouts = 1
  MigratorKinds = {"directory", "local", "hosted"}
INVARIANTS
  TypeOK
  RecoveryEvidence
  JournalsAgree
  CommittedMeansConverged
  NoRollbackAfterDecision
  ManifestLast
  UndoBeforeDecision
  GateHeld
  RestoredRunsPrevious
