\* Two overlapping requests of an owner and an administrator.
SPECIFICATION Spec
CONSTANTS
  owner = owner
  admin = admin
  c1 = c1
  e1 = e1
  e2 = e2
  v1 = v1
  r1 = r1
  r2 = r2
  Users = {owner, admin}
  Profile <- MCProfile
  Cases = {c1}
  Entities = {e1, e2}
  Evidences = {v1}
  Requests = {r1, r2}
  Levels = {"UNCLASSIFIED", "CONFIDENTIAL"}
  MaxJobs = 1
  Workloads <- MCWorkloads
  Nil = Nil
  Gone = Gone
SYMMETRY Symmetry
CHECK_DEADLOCK FALSE
INVARIANTS TypeOK FilesMatchRows MergesEndInTheList WishesStand
