SPECIFICATION Spec
CONSTANTS
  Repos = {a, b}
  Branches = {main}
  Parts = {p}
  Poses = {1}
  Commits = {1, 2}
  Handlers = {h1}
  None = None
  Stored = Stored
CONSTRAINT StillAsked
SYMMETRY Symmetry
VIEW View
INVARIANTS
  RefsSound
  WorkKept
  PlacesTrue
PROPERTIES
  SlotTakenOnce
