SPECIFICATION Spec
CONSTANTS
  q1 = q1
  q2 = q2
  Question <- TwoQuestions
  Consumers = 1
  MaxExpiries = 0
  MaxLost = 0
  MaxCrashes = 0
INVARIANTS
  AssistantRowPublished
