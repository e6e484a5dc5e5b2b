SPECIFICATION Spec
CONSTANTS
  w1 = w1
  w2 = w2
  Request = {r1, r2}
  r1 = r1
  r2 = r2
  Worker = {w1, w2}
  Amount <- MCAmount
  Caps = {1, 2}
  MaxOperations = 2
  UsageDays = 0
  OperationDays = 0
  MaxDay = 2
  MaxPolicies = 2
  MaxAttempts = 2
INVARIANTS TypeOK UsageIsReserved SentIsReserved SpentWithinCap OneTransaction OutcomeIsTrue
PROPERTY KeepsSpendingContract
SYMMETRY Symmetry
\* Every operation decided and every bound used, nothing is left to do.
CHECK_DEADLOCK FALSE
