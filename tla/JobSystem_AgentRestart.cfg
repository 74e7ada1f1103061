SPECIFICATION FairSpec
CONSTANTS
  Jobs = {j1, j2}
  NoJob = NoJob
  Users = {}
  Agents = {a1, a2}
  NoLease = NoLease
  NoAgent = NoAgent
  Faults = {"crash"}
CHECK_DEADLOCK FALSE
PROPERTY SubmittedJobsFinish
