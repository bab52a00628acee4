CONSTANTS
  Source = n1
  Interpretation = n2
  Claim = n3
  Founder = ann
  Id = {n1, n2, n3, n4, n5}
  Author = {ann}
  None = None
  NoText = NoText
  LeafSeed = "source"
  Seeds = {n1, n2, n3}
  NewTypes = {"assertion"}
  BlankTexts = FALSE
  MaxLinks = 2
SPECIFICATION SeededSpec
CONSTRAINT Bounds
SYMMETRY Symmetry
INVARIANTS
  OneAddressPerVersion
  PublicTextMatches
PROPERTIES
  LinksSurviveMerge
  MinorVersionsGrow
  ReadersSeePages
CHECK_DEADLOCK FALSE
