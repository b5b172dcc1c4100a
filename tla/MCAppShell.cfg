SPECIFICATION MCSpec
CONSTANTS
  None = None
  Profiles = {"p", "q"}
  FirstProfile = "p"
  AutoLogin = {"p"}
  Urls = {"", "u", "v"}
  Storages <- MCStorages
  MaxTabs = 2
  MaxIds = 2
  MaxOpens = 2
  MaxActs = 4
  MaxLines = 1
CHECK_DEADLOCK FALSE
INVARIANTS
  LinesStayOnTab
  OncePerConnection
  MaskIsOfSocket
  EndpointIsAcknowledged
PROPERTIES
  LoginGoesOut
