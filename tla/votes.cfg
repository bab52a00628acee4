CONSTANTS
  claim = claim
  reading = reading
  paper = paper
  ann = ann
  bob = bob
  Ann = Ann
  Bob = Bob
  Cid = Cid
  Scenarios = {"cap", "growing"}
  Editors = {bob}
  User = {Ann, Bob, Cid}
  Author = {ann, bob}
  Version = {claim, reading, paper, w1, w2, w3}
  VoteId = {r1, r2}
  Thread = {t1}
  None = None
  ControlledBy <- MCControlledBy
  Founder <- MCFounder
  Kind <- MCKind
  FirstTexts <- MCFirstTexts
  ChildSets <- MCChildSets
SPECIFICATION MCSpec
CONSTRAINT Bounds
SYMMETRY Symmetry
CHECK_DEADLOCK FALSE
INVARIANTS
  CountersAreVotes
  FounderNetsZero
PROPERTIES
  VoteIsWorthItsEdges
