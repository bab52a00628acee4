CONSTANTS
  claim = claim
  reading = reading
  paper = paper
  ann = ann
  bob = bob
  Ann = Ann
  Bob = Bob
  Cid = Cid
  Scenarios = {"race"}
  Editors = {bob}
  User = {Ann, Bob}
  Author = {ann, bob}
  Version = {claim, reading, paper}
  VoteId = {r1, r2}
  Thread = {t1, t2}
  None = None
  ControlledBy <- MCControlledBy
  Founder <- MCFounder
  Kind <- MCKind
  FirstTexts <- MCFirstTexts
  ChildSets <- MCChildSets
SPECIFICATION MCSpec
CONSTRAINT Bounds
SYMMETRY Symmetry
CHECK_DEADLOCK FALSE
INVARIANTS
  OneVotePerVersion
