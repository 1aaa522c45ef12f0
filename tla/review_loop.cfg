SPECIFICATION FairSpec
CONSTANTS
  Node <- LoopNode
  Rank <- LoopRank
  Edge <- LoopEdge
  From <- LoopFrom
  To <- LoopTo
  When <- LoopWhen
  Join <- LoopJoin
  MaxVisits <- LoopVisits
  Mode <- LoopMode
  StartNode = {"intake"}
  RaisingEdge = {4}
  MaxTotal = 6
  MaxExtra = 1
INVARIANTS
  IInv
  VisitsBounded
  CompletedIsClean
  StaleAnswerNeedsExtra
PROPERTIES
  RunCloses
