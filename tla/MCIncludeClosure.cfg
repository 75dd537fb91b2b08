\* The instance of MCComplianceReview, for what the policy says of included sources.
CONSTANTS
  PolicyFileBytes = 6
  PolicyTotalBytes = 8
  MinimumFiles = 1
  MinimumBytes = 3
  MinimumPercent = 30
  PartFloor = 8
  ContextCap = 6
  Envelope = 1
  Powers = {3, 20}
  ItemChars = 1
  DocumentCap = 8
  DefinitionCap = 3
  MaxAttempts = 2
  Submissions <- MCSubmissions
  Replies <- MCReplies
SPECIFICATION Spec
INVARIANT IncludeClosureIsSeen
CHECK_DEADLOCK FALSE
