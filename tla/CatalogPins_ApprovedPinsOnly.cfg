SPECIFICATION Spec
CONSTANTS
  Requests = {r1, r2, r3}
  PinIds = {p, q}
  Commits = {a, b}
  Jobs = {j}
  None = None
INVARIANT ApprovedPinsOnly
