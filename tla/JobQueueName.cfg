\* The queue names of the code.
SPECIFICATION FairSpec
CONSTANTS
  Jobs = {j1}
  Cancels = {}
  Workers = {w1}
  ClientQueue = "arq:queue"
  WorkerQueue = "atalaya:jobs"
  MaxTries = 2
  MaxFindings = 1
  MaxCrashes = 1
  NoJob = NoJob
  NoRow = NoRow
CHECK_DEADLOCK FALSE
PROPERTIES EnqueuedJobsStart
