SPECIFICATION FairPictureSpec
CONSTANTS
  Graph <- MCGraph
  Root = 1
  Editable = {1, 2}
  Attachable = {3, 4}
  Scenario <- MCScenario
CHECK_DEADLOCK FALSE
INVARIANTS Depicted PinnedIsLeaf PageArrowsDrawn
PROPERTIES ElementsPlaced
