\* Two processes, each serving two calls at a time, and one call more than
\* all the pools can serve together.
SPECIFICATION Spec
CONSTANTS
  Calls = {c1, c2, c3, c4, c5}
  Procs = {p1, p2}
  PoolSize = 2
  AuditHashChain = TRUE
  MaxCrashes = 1
  NoCall = NoCall
  NoProc = NoProc
  NoRow = NoRow
SYMMETRY Symmetry
CHECK_DEADLOCK FALSE
INVARIANTS TypeOK ChainLinked LogsMatchChain NoFalseTamperReason
