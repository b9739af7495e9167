SPECIFICATION Spec
CONSTANTS
  Containers <- Web
  Kinds <- RateKinds
  Ignored <- None
  WatchAll = TRUE
  WatchNames <- None
  WatchLabelled <- None
  ScopedEnforce = FALSE
  EnforceNames <- None
  EnforceLabelled <- None
  BlockedImages <- None
  EnforceKill = TRUE
  DNSGrace = TRUE
  NormalRate = 1
  PersistQueue = 1
  KillDedupe = 1
  MaxTime = 1
  MaxEvents = 4
INVARIANT NormalRateHolds
CHECK_DEADLOCK FALSE
