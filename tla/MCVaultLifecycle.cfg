SPECIFICATION FairSpec
CONSTANTS
  t1 = t1
  t2 = t2
  Tabs = {t1, t2}
  UseLocks = TRUE
  MaxCalls = 4
  MaxQueue = 2
  MaxFaults = 1
  NoVault = NoVault
  NoKey = NoKey
  NoTab = NoTab
CHECK_DEADLOCK FALSE
INVARIANTS
  AcknowledgedIsDurable
PROPERTIES
  ImplementsVaultStore
  RestoreIsAllowed
  QueuesDrain
