SPECIFICATION Spec
CONSTANTS
  Repos = {a, b}
  Branches = {main}
  Parts = {p}
  Poses = {1}
  Commits = {1, 2}
  Handlers = {h1, h2}
  None = None
  Stored = Stored
PROPERTY PopOnCleanHead
