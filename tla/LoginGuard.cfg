\* One account with a second factor, one address, two overlapping requests.
SPECIFICATION Spec
CONSTANTS
  u1 = u1
  r1 = r1
  r2 = r2
  i1 = i1
  s1 = s1
  Users = {u1}
  IPs = {i1}
  Requests = {r1, r2}
  Secrets = {s1}
  MaxAttempts = 2
  Lockout = 2
  IPMaxAttempts = 2
  IPLockout = 1
  Multiplier <- MCMultiplier
  MaxStrikes = 2
  MaxFailures = 5
  TicketTTL = 1
  MaxTime = 5
  NoUser = NoUser
  NoSecret = NoSecret
SYMMETRY Symmetry
CHECK_DEADLOCK FALSE
INVARIANTS TypeOK GuessesBounded IPGuessesBounded TokensNeedBothLegs
