SPECIFICATION FairSpec
CONSTANTS
  main = main
  cron = cron
  e1 = e1
  e2 = e2
  e3 = e3
  Lane = {main, cron}
  Entry = {e1, e2, e3}
  LaneOf <- MCLaneOf
  MaxLimit = 2
  MaxRestarts = 1
  NoEntry = NoEntry
INVARIANTS TypeOK NoIdleLane ActiveIsRunning QueuedOnce CheckpointIsQuiescent
PROPERTIES SettledOnce EveryEntrySettles ShutdownEnds KeepsLaneContract
\* The process stops for good when it exits.
CHECK_DEADLOCK FALSE
