SPECIFICATION FairSpec
CONSTANTS
  plan = plan
  build = build
  Node <- TwoNodes
  MaxVisits <- Visits
  MaxTotal = 3
  Text = {"hi", "ready"}
  NoText = "none"
  NodeResult <- FourAnswers
  MaxMissed = 1
INVARIANTS
  EgressInv
PROPERTIES
  GraphIsReplyThread
  EveryGraphIsClosed
