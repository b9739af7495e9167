SPECIFICATION Spec
CONSTANTS
  Containers <- Web
  Kinds <- IsolationKinds
  Ignored <- None
  WatchAll = FALSE
  WatchNames <- None
  WatchLabelled <- Web
  ScopedEnforce = TRUE
  EnforceNames <- None
  EnforceLabelled <- Web
  BlockedImages <- None
  EnforceKill = TRUE
  DNSGrace = TRUE
  NormalRate = 1
  PersistQueue = 1
  KillDedupe = 1
  MaxTime = 1
  MaxEvents = 3
INVARIANTS TypeOK
PROPERTIES NoSendAfterClose OneKillPerDedupe GraceHonoursAnswers ImplementsLedger
CHECK_DEADLOCK FALSE
