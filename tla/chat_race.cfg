SPECIFICATION Spec
CONSTANTS
  q1 = q1
  q2 = q2
  Question <- TwoQuestions
  Consumers = 2
  MaxExpiries = 0
  MaxLost = 1
  MaxCrashes = 0
SYMMETRY Symmetric
INVARIANTS
  ChatInv
  OwnAnswer
  AnsweredOnce
