CONSTANTS
  Source = n1
  Interpretation = n2
  Claim = claim
  Founder = ann
  Id = {n1, n2, n3, n4, n5}
  Author = {ann}
  None = None
  NoText = NoText
  LeafSeed = "source"
  Seeds = {n1, n2}
  NewTypes = {"assertion", "interpretation"}
  BlankTexts = FALSE
  MaxLinks = 2
SPECIFICATION SeededSpec
CONSTRAINT Bounds
SYMMETRY Symmetry
PROPERTIES
  ParentsFollowPublication
CHECK_DEADLOCK FALSE
