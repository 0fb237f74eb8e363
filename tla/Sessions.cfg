\* One user, two worker processes, two requests that may overlap, two faults or evictions.
SPECIFICATION Spec
CONSTANTS
  Pairs = {i1, i2}
  Procs = {p1, p2}
  Requests = {r1, r2}
  Second = 2
  AccessLife = 1
  RefreshLife = 2
  MaxTime = 4
  MaxBegun = 2
  MaxFaults = 2
  NoPair = NoPair
  NoProc = NoProc
SYMMETRY Symmetry
CHECK_DEADLOCK FALSE
INVARIANTS TypeOK RevokedIsRefused RevokerRemembers RevokeAllIsFinal SpentBuysNothing
