SPECIFICATION Spec
CONSTANTS
  node = node
  Task <- OneTask
  MaxAttempts = 2
  MaxCrashes = 1
INVARIANTS
  NoDuplicateJobs
