SPECIFICATION Spec
CONSTANTS
  Leases = {l1}
  Jobs = {j1}
  Kernels = {k1}
  Broken = {}
  Points = {1, 2}
  MaxEvals = 2
  NoLease = NoLease
  NoJob = NoJob
  Disturbances = {}
PROPERTY FailureKeepsBest
CHECK_DEADLOCK FALSE
