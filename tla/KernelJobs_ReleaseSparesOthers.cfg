SPECIFICATION Spec
CONSTANTS
  Leases = {l1, l2}
  Jobs = {j1}
  Kernels = {k1, k2}
  Broken = {}
  Points = {1}
  MaxEvals = 1
  NoLease = NoLease
  NoJob = NoJob
  Disturbances = {"expiry"}
PROPERTY ReleaseSparesOthers
CHECK_DEADLOCK FALSE
