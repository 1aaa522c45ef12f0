SPECIFICATION FairSpec
CONSTANTS
  q1 = q1
  q2 = q2
  Question <- OneQuestion
  Consumers = 1
  MaxExpiries = 1
  MaxLost = 1
  MaxCrashes = 1
PROPERTIES
  EveryWatchEnds
  ImplementsReplyThread
