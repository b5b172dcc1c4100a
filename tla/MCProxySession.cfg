SPECIFICATION FairSpec
CONSTANTS
  c1 = c1
  c2 = c2
  ip1 = ip1
  p1 = p1
  Conns = {c1, c2}
  Ips = {ip1}
  Peers = {p1}
  PeerOf <- MCPeerOf
  AddrOf <- MCAddrOf
  Ids <- MCCalls
  NoSlot = NoSlot
  MaxPerIp = 1
  MaxPerToken = 1
  MaxUpgrades = 2
  MaxHellos = 2
  InBudget = 2
  OutBudget = 1
  MaxMsgs = 2
  MaxClientHellos = 2
  AuthRequired = TRUE
CHECK_DEADLOCK FALSE
INVARIANTS
  TypeOK
  SlotCounts
  AttachedWithinLimit
  OneHelloLeavesNoSlot
PROPERTIES
  ImplementsSlotPool
  EverySessionSettles
