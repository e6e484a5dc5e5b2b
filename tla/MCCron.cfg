SPECIFICATION FairSpec
CONSTANTS
  timer = timer
  out = out
  Runs = 1
  Timer = timer
  Callers = {timer}
  Outside = {out}
  JobChanges = {}
  MaxAttempts = 3
  MaxFailures = 2
  MaxIncidents = 1
INVARIANTS TypeOK SendsAreBounded SentAgainForCause
PROPERTIES CanceledIsFrozen OkIsFinal EveryRunEnds
\* Every run used and ended, nothing is left to do.
CHECK_DEADLOCK FALSE
