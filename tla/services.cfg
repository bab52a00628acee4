SPECIFICATION MCSpec
CONSTANTS
  Call = {c1, c2}
  None = None
  Account = {ann, bob}
  CommentAuthor = ann
  VoteKind = {"GREAT", "TRASH"}
  Button = {1, 2}
  Target <- MCTarget
  Writer = Writer
  Text = {"a", "b"}
  CardId = 0
  MaxLines = 3
  Draft = {d1, d2}
  Name = {"Ann", "Anna"}
  Steps <- MCSteps
  Parts <- MCParts
CONSTRAINT Bounds
SYMMETRY Symmetry
CHECK_DEADLOCK FALSE
INVARIANTS VotesAgree SignedInCanVote CommentsShown LinesReportedOnce ProfileShown
