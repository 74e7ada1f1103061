SPECIFICATION FairSpec
CONSTANTS
  Cmds = {c1, c2}
  Holders = {h1}
  Agents = {a1, a2}
  None = None
  Faults = {"timeout", "evict", "crash", "lost"}
CHECK_DEADLOCK FALSE
INVARIANTS
  OkMeansExecuted
  DeliveredOnce
  ErrorHasCause
PROPERTIES
  GivenUpNeverRuns
  RequestsAnswered
