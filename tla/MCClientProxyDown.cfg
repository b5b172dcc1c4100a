SPECIFICATION FarFairSpec
CONSTANTS
  MaxAttempts = 2
  OutboxCap = 2
  Frames = {"ready", "error", "mask", "unmask"}
  MaxHops = 5
  MaxLines = 0
  MudUp = FALSE
  MaxDown = 3
  MaxUpsets = 0
CHECK_DEADLOCK FALSE
INVARIANTS
  DialsBounded
