SPECIFICATION FairSketchSpec
CONSTANTS
  Loop = {l1, l2}
  None = None
  Scenarios <- MCScenarios
CHECK_DEADLOCK FALSE
INVARIANTS EverythingProper ArrowsBothWays CirclesFound SavedAsDrawn PictureShowsSketch
PROPERTIES SaveCompletes
