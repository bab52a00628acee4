CONSTANTS
  Source = n1
  Interpretation = n2
  Claim = n3
  Founder = ann
  Id = {n1, n2, n3, n4}
  Author = {ann, bob}
  None = None
  NoText = NoText
  LeafSeed = "source"
  Seeds = {n1, n2, n3}
  NewTypes = {"assertion", "interpretation", "source", "subject"}
  BlankTexts = TRUE
  MaxLinks = 4
SPECIFICATION FairSeededSpec
CONSTRAINT Bounds
INVARIANTS
  EdgesOwned
PROPERTIES
  EdgeOwnersFixed
  PublishEnds
CHECK_DEADLOCK FALSE
