SPECIFICATION Spec
CONSTANTS
  b1 = b1
  b2 = b2
  l1 = l1
  l2 = l2
  c1 = c1
  c2 = c2
  Backends = {b1, b2}
  LeaseIds = {l1, l2}
  NoLease = NoLease
  Callers = {c1, c2}
  Idle = Idle
  Modes <- MCModes
  DefaultTTL <- MCDefaultTTL
  Seconds <- MCSeconds
  MaxNow = 3
SYMMETRY LeaseSymmetry
INVARIANTS
  MapsAgree
PROPERTIES
  ImplementsExclusiveLease
  AdmissionSound
