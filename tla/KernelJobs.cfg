SPECIFICATION Spec
CONSTANTS
  Leases = {l1}
  Jobs = {j1, j2}
  Kernels = {k1}
  Broken = {}
  Points = {1, 2}
  MaxEvals = 1
  NoLease = NoLease
  NoJob = NoJob
  Disturbances = {"expiry", "unstaged"}
INVARIANTS
  RootsExist
  ScratchFollowsTask
  OwnResult
PROPERTIES
  EndsAtBest
  RunnerEnds
CHECK_DEADLOCK FALSE
