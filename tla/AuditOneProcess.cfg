\* One process whose pool serves two calls at a time: the lock is contended.
SPECIFICATION FairSpec
CONSTANTS
  Calls = {c1, c2, c3, c4}
  Procs = {p1}
  PoolSize = 2
  AuditHashChain = TRUE
  MaxCrashes = 1
  NoCall = NoCall
  NoProc = NoProc
  NoRow = NoRow
CHECK_DEADLOCK FALSE
INVARIANTS ForkWidthBounded
PROPERTIES CallsReturn
