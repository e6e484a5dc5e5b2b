SPECIFICATION FairSpec
CONSTANTS
  MaxTx = 2
  MaxFaults = 1
  MaxCrashes = 1
  MaxTimeouts = 1
  MigratorKinds = {"directory", "local"}
PROPERTIES
  KeepsContract
  FaultlessUpdateCommits
