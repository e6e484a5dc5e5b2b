SPECIFICATION Spec
CONSTANTS
  timer = timer
  out = out
  Runs = 2
  Timer = timer
  Callers = {timer}
  Outside = {out}
  JobChanges = {"enabled", "disabled", "removed"}
  MaxAttempts = 2
  MaxFailures = 1
  MaxIncidents = 1
CONSTRAINTS NothingIsExcused OneTrouble
INVARIANTS OneRunExecutes
\* Every run used and ended, nothing is left to do.
CHECK_DEADLOCK FALSE
