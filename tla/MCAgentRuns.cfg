\* Safety under crashes and failing writes, with a queue that fills up.
CONSTANTS
  r1 = r1
  r2 = r2
  w1 = w1
  w2 = w2
  NoRun = NoRun
  Runs = {r1, r2}
  Manual = {r1}
  Workers = {w1, w2}
  MaxQueued = 1
  MaxRunAttempts = 2
  ReconcileBatchSize = 1
  MaxCrashes = 2
  MaxFaults = 2
  ExecutorFailures <- MCExecutorFailures
SPECIFICATION Spec
SYMMETRY Symmetry
INVARIANT TypeOK
INVARIANT AttemptsBounded
INVARIANT CompletedHasResult
INVARIANT SingleDispatch
INVARIANT ResultCreationIsExclusive
INVARIANT IndexFollowsLog
PROPERTY FinalIsFinal
PROPERTY ImplementsLifecycle
CHECK_DEADLOCK FALSE
