SPECIFICATION FairSpec
CONSTANTS
  Containers <- WebAndSide
  Kinds <- ScopeKinds
  Ignored <- None
  WatchAll = FALSE
  WatchNames <- Side
  WatchLabelled <- Web
  ScopedEnforce = TRUE
  EnforceNames <- None
  EnforceLabelled <- Web
  BlockedImages <- Web
  EnforceKill = TRUE
  DNSGrace = TRUE
  NormalRate = 1
  PersistQueue = 1
  KillDedupe = 1
  MaxTime = 0
  MaxEvents = 2
INVARIANTS KillOnlyInScope
PROPERTIES ShutdownDrains EveryEventSettles
CHECK_DEADLOCK FALSE
