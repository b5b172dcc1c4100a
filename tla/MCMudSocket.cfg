SPECIFICATION FairSpec
CONSTANTS
  MaxAttempts = 2
  OutboxCap = 2
  Frames = {"ready", "error", "mask", "unmask", "bad"}
  MaxHops = 5
  MaxLines = 4
CHECK_DEADLOCK FALSE
INVARIANTS
  SingleSocket
  RetryPending
PROPERTIES
  ImplementsLineQueue
  RetriesEnd
