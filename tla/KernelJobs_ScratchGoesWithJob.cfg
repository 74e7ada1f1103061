SPECIFICATION Spec
CONSTANTS
  Leases = {l1}
  Jobs = {j1, j2}
  Kernels = {k1}
  Broken = {}
  Points = {1}
  MaxEvals = 1
  NoLease = NoLease
  NoJob = NoJob
  Disturbances = {}
INVARIANT ScratchGoesWithJob
CHECK_DEADLOCK FALSE
