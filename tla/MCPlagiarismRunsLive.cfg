\* Liveness and the index: two runs about one candidate, requested at two moments and
\* created in any order, through one death.
CONSTANTS
  r1 = r1
  r2 = r2
  w1 = w1
  w2 = w2
  a = a
  b = b
  c = c
  k1 = k1
  k2 = k2
  t1 = t1
  None = None
  Runs = {r1, r2}
  Submissions = {a, b, c}
  Target <- MCTarget
  Rank <- MCRank
  Times = {1, 2}
  Keys = {k1, k2}
  PairOf <- MCPairOf
  Candidates <- OneCandidate
  Texts = {t1}
  Workers = {w1, w2}
  MaxQueued = 2
  MaxRunAttempts = 2
  ReconcileBatchSize = 1
  ExecutorFailures <- MCExecutorFailures
  MaxCalls = 2
  MaxCrashes = 1
  MaxFaults = 0
SPECIFICATION FairSpec
INVARIANT LatestIsNewest
PROPERTY AcceptedRunSettles
CHECK_DEADLOCK FALSE
