SPECIFICATION Spec
CONSTANTS
  Token <- Tokens
  Open = "{"
  Close = "}"
  Quote = "quote"
  Backslash = "slash"
  Fence = "fence"
  Signs <- Phrases
  Loads <- JsonLoads
  NotAnObject = NotAnObject
  DecisionKeys <- Keys
  Falsy = {""}
  Normal <- InWordsOfEdges
  NoDecision = NoDecision
  NoText = NoText
  Answers <- AllAnswers
  Remarks <- SomeRemarks
  Edges <- Gate
  Always = Always
  MaxRemarks = 1
INVARIANTS
  VerdictInv
  FinalCommentDecides
  ClosingBlockDecides
  BareObjectDecides
  ApprovalIsSaid
