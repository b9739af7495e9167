SPECIFICATION Spec
CONSTANTS
  Sandboxes <- Nothing
  Runtimes <- Nothing
  Selections <- Scan1
  Callers <- CallersAB
  Details <- Dial
  Rules <- Policies1
  RuleOf <- ByRule
  HostOf <- ByHost
  Hosts <- Evil
  AllowedHosts <- Nothing
  KillRules <- Policies1
  Excusable <- Policies1
  PackageOf <- OwnPackage
  ImageOf <- OneImage
  LevelsSeen <- TwoLevels
  MaxViolations = 1
  MaxEvidence = 1
  PersistQueue = 1
  MaxCases = 2
  MaxProposals = 2
  MaxAudit = 1
  MaxWrites = 0
  MaxCrashes = 0
INVARIANT SameSelectionSameAnswer
CHECK_DEADLOCK FALSE
