SPECIFICATION Spec
CONSTANTS
  ESIX_MAX_IPADDR = 4
  ESIX_MAX_RT = 4
  ESIX_MAX_NB = 1
  NoRow = NoRow
  Prefixes <- OnePrefix
  Llas <- MCLlas
  Me = "me"
  NullLla = "h2"
  RT_SCANNED = 4
  NEW_NEIGHBOR_TIMEOUT = 1
  NEIGHBOR_TIMEOUT = 1
  STALE_DURATION = 1
  TimeMod = 2000
  Remotes <- OneRouter
  Routers <- OneRouter
  PrefixInfos <- RdInfos
  RouterLifetimes = {0, 1}
  HopLimits = {255}
  MayFail = {}
  MaxTime = 1000
VIEW RelativeTables
CHECK_DEADLOCK FALSE
PROPERTIES
  PrefixWithdrawn
