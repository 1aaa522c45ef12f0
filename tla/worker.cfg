SPECIFICATION FairSpec
CONSTANTS
  h1 = h1
  h2 = h2
  Human <- TwoMessages
  MaxMessages = 3
  PlannerWindow = 2
  MaxTopic = 2
  MaxCrashes = 1
  MaxFaults = 1
INVARIANTS
  WorkerInv
  LossNeedsCrash
  RunsAreAskedFor
  PromptIsContext
  EntriesAreOwed
PROPERTIES
  EveryMessageSettles
