\* One crash, no failing write: a run whose last event it cuts short is never seen again.
CONSTANTS
  r1 = r1
  r2 = r2
  w1 = w1
  w2 = w2
  NoRun = NoRun
  Runs = {r1}
  Manual = {r1}
  Workers = {w1}
  MaxQueued = 2
  MaxRunAttempts = 2
  ReconcileBatchSize = 1
  MaxCrashes = 1
  MaxFaults = 0
  ExecutorFailures <- MCExecutorFailures
SPECIFICATION FairSpec
PROPERTY InterruptedRunSettles
CHECK_DEADLOCK FALSE
