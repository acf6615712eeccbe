SPECIFICATION Spec
CONSTANTS
  ESIX_MAX_IPADDR = 4
  ESIX_MAX_RT = 4
  ESIX_MAX_NB = 2
  NoRow = NoRow
  Prefixes <- OnePrefix
  Llas <- MCLlas
  Me = "me"
  NullLla = "h2"
  RT_SCANNED = 4
  NEW_NEIGHBOR_TIMEOUT = 5
  NEIGHBOR_TIMEOUT = 7
  STALE_DURATION = 3
  TimeMod = 2000
  Remotes <- TwoHosts
  Routers <- OneRouter
  PrefixInfos <- NdInfos
  RouterLifetimes = {0}
  HopLimits = {0, 255}
  MayFail = {"address", "onlink", "neighbor"}
  MaxTime = 1000
VIEW RelativeTables
INVARIANTS
  TypeOK
  PermanentRows
  PrefixAgesTogether
  LapsedGone
PROPERTIES
  SolicitedBeforeRemoval
  SolicitationAnswered
CHECK_DEADLOCK FALSE
