\* Client and workers agree on one queue.
SPECIFICATION FairSpec
CONSTANTS
  Jobs = {j1}
  Cancels = {k1, k2}
  Workers = {w1, w2}
  ClientQueue = "atalaya:jobs"
  WorkerQueue = "atalaya:jobs"
  MaxTries = 2
  MaxFindings = 1
  MaxCrashes = 2
  NoJob = NoJob
  NoRow = NoRow
CHECK_DEADLOCK FALSE
INVARIANTS TypeOK MessagesHaveRows CountBacked CountExactUnlessWorkerDied StrandedOnlyByCutOff
PROPERTIES OutcomeLostOnlyToStaleWriter MessagesSettle
