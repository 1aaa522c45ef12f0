SPECIFICATION Spec
CONSTANTS
  Node <- ForkNode
  Rank <- ForkRank
  Edge <- ForkEdge
  From <- ForkFrom
  To <- ForkTo
  When <- ForkWhen
  Join <- ForkJoin
  MaxVisits <- ForkVisits
  Mode <- ForkMode
  StartNode = {"intake"}
  RaisingEdge = {}
  MaxTotal = 6
  MaxExtra = 1
INVARIANTS
  JoinAllInStep
  RunsAreCaused
  EdgeCountsAddUp
PROPERTIES
  ArrivalsKept
  FailureIsFinal
  ImplementsGraphRun
