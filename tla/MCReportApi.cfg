\* Two request threads, three requests, two reports of one submission.
CONSTANTS
  Keys = {"plat"}
  MaxValidity = 2
  MaxSubmissions = 2
  NightlyModel = "glm"
  Threads = {t1, t2}
  NoThread = NoThread
  MaxRequests = 2
  RefreshSeconds = 1
  Submissions = {"s"}
  Envelopes <- MCEnvelopes
  MaxReports = 2
  MaxClock = 2
  MaxAccepted = 3
  MaxBuild = 1
SPECIFICATION FairSpec
INVARIANT TypeOK
INVARIANT SlotsConserved
INVARIANT LaunchShowsItsReport
INVARIANT BoundedStaleness
INVARIANT AcceptedRunsStayValid
PROPERTY IndexNeverGoesBack
PROPERTY RequestsEnd
CHECK_DEADLOCK FALSE
