\* Safety: two runs of one target with a common candidate pair, two threads, one
\* death and one failing write.
CONSTANTS
  r1 = r1
  r2 = r2
  w1 = w1
  w2 = w2
  a = a
  b = b
  c = c
  k1 = k1
  k2 = k2
  t1 = t1
  None = None
  Runs = {r1, r2}
  Submissions = {a, b, c}
  Target <- MCTarget
  Rank <- MCRank
  Times = {1}
  Keys = {k1, k2}
  PairOf <- MCPairOf
  Candidates <- MCCandidates
  Texts = {t1}
  Workers = {w1, w2}
  MaxQueued = 2
  MaxRunAttempts = 2
  ReconcileBatchSize = 1
  ExecutorFailures <- MCExecutorFailures
  MaxCalls = 2
  MaxCrashes = 1
  MaxFaults = 1
SPECIFICATION Spec
SYMMETRY Symmetry
INVARIANT TypeOK
INVARIANT ReportAccountsForCandidates
PROPERTY ImplementsRegister
PROPERTY ImplementsLifecycle
CHECK_DEADLOCK FALSE
