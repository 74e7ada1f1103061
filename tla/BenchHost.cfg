SPECIFICATION Spec
CONSTANTS
  Tags = {t1, t2}
  Slots = {1, 2}
  Requests = {r1, r2}
  Kinds <- AllOfThem
  None = None
SYMMETRY Symmetry
CHECK_DEADLOCK FALSE
INVARIANTS
  BusyIsBacked
  HoldingTruth
  ArmFree
  SlotsDistinct
