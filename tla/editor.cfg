SPECIFICATION EditorSpec
CONSTANTS
  Obj = {1, 2, 3, 4, 5, 6, 7, 8}
  Request = {r1, r2}
  FirstText = {}
  Draft = Draft
  None = None
  Depth = 5
  Home = Home
  Create = Create
  Scenarios <- MCScenarios
SYMMETRY Symmetry
CONSTRAINT Bounds
CHECK_DEADLOCK FALSE
INVARIANTS PageShowsItsRoot ReportFindsAll EditorTypeOK TextNamesSupport
PROPERTIES SpotlightShows
