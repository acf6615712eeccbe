SPECIFICATION Spec
CONSTANTS
  ESIX_MAX_IPADDR = 4
  ESIX_MAX_RT = 3
  ESIX_MAX_NB = 1
  NoRow = NoRow
  Prefixes <- LinkLocalOnly
  Llas <- MCLlas
  Me = "me"
  NullLla = "h1"
  RT_SCANNED = 4
  NEW_NEIGHBOR_TIMEOUT = 1
  NEIGHBOR_TIMEOUT = 1
  STALE_DURATION = 1
  TimeMod = 2000
  Remotes <- TwoHosts
  Routers <- TwoHosts
  PrefixInfos <- RdInfos
  RouterLifetimes = {0, 1}
  HopLimits = {255}
  MayFail = {"neighbor", "packet"}
  MaxTime = 1000
VIEW RelativeTables
INVARIANTS
  PermanentRows
  KeysDistinct
PROPERTIES
  RoutersIsolated
CHECK_DEADLOCK FALSE
