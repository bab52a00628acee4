SPECIFICATION CacheSpec
CONSTANTS
  Obj = {1, 2, 3, 4, 5, 6}
  Request = {r1, r2}
  FirstText = "old"
  Draft = Draft
  None = None
  Depth = 5
  Scenarios <- MCScenarios
  Played = {"drafts", "edits", "saves"}
SYMMETRY Symmetry
CONSTRAINT Bounds
INVARIANTS NoCircle OneObjectPerNode
PROPERTIES ForgottenByFamily
