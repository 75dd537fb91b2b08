\* The same instance: two runs of a submission, and a request for its report.
CONSTANTS
  Keys = {"plat"}
  MaxValidity = 2
  MaxSubmissions = 2
  NightlyModel = "glm"
  Threads = {t1, t2}
  NoThread = NoThread
  MaxRequests = 2
  RefreshSeconds = 1
  Submissions = {"s"}
  Envelopes <- MCEnvelopes
  MaxReports = 2
  MaxClock = 2
  MaxAccepted = 3
  MaxBuild = 1
SPECIFICATION Spec
INVARIANT OldReportStays
CHECK_DEADLOCK FALSE
