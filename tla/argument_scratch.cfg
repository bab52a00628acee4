CONSTANTS
  Source = n1
  Interpretation = n2
  Claim = n3
  Founder = ann
  Id = {n1, n2, n3}
  Author = {ann}
  None = None
  NoText = NoText
  LeafSeed = "source"
  Seeds = {n1, n2, n3}
  NewTypes = {"assertion", "interpretation", "source", "subject"}
  BlankTexts = TRUE
  MaxLinks = 4
SPECIFICATION Spec
CONSTRAINT Bounds
SYMMETRY AnySymmetry
INVARIANTS
  PublicSupport
  DescendantsSupported
  FullInv
CHECK_DEADLOCK FALSE
