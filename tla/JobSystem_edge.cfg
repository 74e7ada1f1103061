SPECIFICATION FairSpec
CONSTANTS
  Jobs = {j1, j2, j3}
  NoJob = NoJob
  Users = {u1}
  Agents = {a1}
  NoLease = NoLease
  NoAgent = NoAgent
  Faults = {"crash", "slow"}
CHECK_DEADLOCK FALSE
INVARIANTS
  BodyHoldsLease
  NoLostWakeup
  NotForgotten
PROPERTIES
  SubmittedJobsFinish
