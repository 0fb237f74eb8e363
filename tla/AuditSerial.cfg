\* Calls that never overlap, crashes and failures, and one changed row.
SPECIFICATION TSpec
CONSTANTS
  Calls = {c1, c2, c3, c4}
  Procs = {p1}
  PoolSize = 1
  AuditHashChain = TRUE
  MaxCrashes = 1
  MaxTampers = 2
  NoCall = NoCall
  NoProc = NoProc
  NoRow = NoRow
CHECK_DEADLOCK FALSE
INVARIANTS VerifyTellsTampering
PROPERTIES LedgerSpec
