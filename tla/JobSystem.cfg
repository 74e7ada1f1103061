SPECIFICATION Spec
CONSTANTS
  Jobs = {j1, j2, j3}
  NoJob = NoJob
  Users = {u1}
  Agents = {a1, a2}
  NoLease = NoLease
  NoAgent = NoAgent
  Faults = {"expiry", "slow", "crash", "interrupt", "lost", "unavailable", "staging"}
SYMMETRY Symmetry
CHECK_DEADLOCK FALSE
INVARIANTS
  QueueSound
  ActiveRuns
  RunsOnce
PROPERTIES
  NoResurrection
  FailClosed
  NoForeignRelease
