SPECIFICATION FairSpec
CONSTANTS
  Deliveries = 1
  Payloads = 2
  MaxRetries = 2
  Modes = {"strict", "reporting"}
  Passes = {p1, p2}
INVARIANTS TypeOK StrictIsNeverLost FailedForCause RetriesBounded
PROPERTIES OnlyARaceRevives EveryEntryIsDecided
\* Every delivery made and every start used, nothing is left to do.
CHECK_DEADLOCK FALSE
