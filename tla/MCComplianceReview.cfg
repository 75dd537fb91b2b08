\* Reviews of at most eight files in up to six prompts, two calls each.
CONSTANTS
  PolicyFileBytes = 6
  PolicyTotalBytes = 8
  MinimumFiles = 1
  MinimumBytes = 3
  MinimumPercent = 30
  PartFloor = 8
  ContextCap = 6
  Envelope = 1
  Powers = {3, 20}
  ItemChars = 1
  DocumentCap = 8
  DefinitionCap = 3
  MaxAttempts = 2
  Submissions <- MCSubmissions
  Replies <- MCReplies
SPECIFICATION FairSpec
INVARIANT TypeOK
INVARIANT BundleAccountsForFiles
INVARIANT ConclusiveMeansAllSeen
INVARIANT MergeLosesNothing
INVARIANT ChunksFit
INVARIANT CutsOnlyWhenFull
PROPERTY ReviewEnds
CHECK_DEADLOCK FALSE
