SPECIFICATION MCSpec
CONSTANTS
  Body = {b1, b2, b3}
  Spring = {s1}
  Ends <- MCEnds
  Place <- MCPlace
  Node = {n1, n2}
  Container = Container
  Finger = {f1, f2}
  Mouse = {"left", "right"}
  None = None
  Nothing = Nothing
  Parts = {"layout", "input"}
  MaxFrames = 2
CONSTRAINT Bounds
SYMMETRY Symmetry
CHECK_DEADLOCK FALSE
INVARIANTS ForcesComplete InputReleased
PROPERTY PinnedStays
