\* Nothing accepted is forgotten: liveness, a queue that holds every run.
CONSTANTS
  r1 = r1
  r2 = r2
  w1 = w1
  w2 = w2
  NoRun = NoRun
  Runs = {r1, r2}
  Manual = {r1}
  Workers = {w1, w2}
  MaxQueued = 2
  MaxRunAttempts = 2
  ReconcileBatchSize = 1
  MaxCrashes = 2
  MaxFaults = 1
  ExecutorFailures <- MCExecutorFailures
SPECIFICATION FairSpec
INVARIANT UnfinishedIsAssigned
PROPERTY AcceptedRunSettles
CHECK_DEADLOCK FALSE
