\* A single job, a single cancel, nothing fails.
SPECIFICATION Spec
CONSTANTS
  Jobs = {j1}
  Cancels = {k1}
  Workers = {w1}
  ClientQueue = "atalaya:jobs"
  WorkerQueue = "atalaya:jobs"
  MaxTries = 1
  MaxFindings = 1
  MaxCrashes = 0
  NoJob = NoJob
  NoRow = NoRow
CHECK_DEADLOCK FALSE
PROPERTIES CancelledStaysCancelled
