\* Three turns of at most two calls, two attempts each, any network and model.
CONSTANTS
  Nothing = Nothing
  MaxResponse = 4
  MaxEntries = 2
  MaxReadLines = 2
  MaxItem = 3
  IdenticalKey = 1
  RangeEnd = 1
  Dense <- MCDense
  MaxTurns = 3
  MaxToolCallsPerTurn = 2
  MaxAttempts = 2
  HintTurns = 1
  MaxIndex = 2
  Manifests <- MCManifests
  Contents <- MCContents
  Reports <- MCReports
SPECIFICATION FairSpec
INVARIANT TypeOK
INVARIANT ConversationWellFormed
INVARIANT ReportStandsOnEvidence
INVARIANT CallsBounded
INVARIANT ContinuationCovers
PROPERTY ReviewEnds
CHECK_DEADLOCK FALSE
