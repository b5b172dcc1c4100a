SPECIFICATION FarFairSpec
CONSTANTS
  MaxAttempts = 2
  OutboxCap = 2
  Frames = {"ready", "error", "mask", "unmask"}
  MaxHops = 4
  MaxLines = 2
  MudUp = TRUE
  MaxDown = 3
  MaxUpsets = 2
CHECK_DEADLOCK FALSE
INVARIANTS
  LinesMeetABridge
  MaskAgrees
PROPERTIES
  GetsConnected
