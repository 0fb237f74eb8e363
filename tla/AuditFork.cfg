\* One process, two overlapping calls, no failure: is the chain still whole?
SPECIFICATION Spec
CONSTANTS
  Calls = {c1, c2}
  Procs = {p1}
  PoolSize = 2
  AuditHashChain = TRUE
  MaxCrashes = 0
  NoCall = NoCall
  NoProc = NoProc
  NoRow = NoRow
CHECK_DEADLOCK FALSE
INVARIANTS UntamperedVerifies
