CONSTANTS
  None = None
  Exit = Exit
  Junk = Junk
  c4 = c4
  c6 = c6
  hop = hop
  Clients = {c4, c6}
  Ipv4 = {c4, hop}
  Hop = hop
  watched = c4
  Addresses <- MCAddresses
  Environments <- MCEnvironments
  EnvFiles <- MCEnvFiles
  Period = 2
  Budget = 2
  Amounts = {1}
  MaxNow = 3
SPECIFICATION MCSpec
INVARIANTS
  
  CountedAsItself
  TwiceAtMost
CHECK_DEADLOCK FALSE
