SPECIFICATION FairSpec
CONSTANTS
  node = node
  Task <- OneTask
  MaxAttempts = 3
  MaxCrashes = 2
INVARIANTS
  DispatchInv
  CompletedIsDurable
PROPERTIES
  StoredKeysAreFinal
  DispatchEnds
  CallbackNodeEnds
