SPECIFICATION Spec
CONSTANTS
  Cmds = {c1}
  Holders = {h1, h2}
  Agents = {a1}
  None = None
  Faults = {}
CHECK_DEADLOCK FALSE
PROPERTY NoForeignDispatch
