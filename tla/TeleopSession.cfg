SPECIFICATION TeleopSpec
CONSTANTS
  MaxPose = 3
  MaxSetups = 2
  NoPose = NoPose
CHECK_DEADLOCK FALSE
INVARIANTS
  NoGhostMotion
  ReadyHasBuffer
  FinalPose
  ExecutingMoves
PROPERTIES
  AbandonedEnds
