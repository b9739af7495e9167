SPECIFICATION Spec
CONSTANTS
  Sandboxes <- Nothing
  Runtimes <- Web
  Selections <- Scan1
  Callers <- CallersAB
  Details <- Dial
  Rules <- Policies1
  RuleOf <- ByRule
  HostOf <- ByHost
  Hosts <- Evil
  AllowedHosts <- Nothing
  KillRules <- Policies1
  Excusable <- Policies1
  PackageOf <- OwnPackage
  ImageOf <- OneImage
  LevelsSeen <- TwoLevels
  MaxViolations = 1
  MaxEvidence = 1
  PersistQueue = 1
  MaxCases = 2
  MaxProposals = 2
  MaxAudit = 1
  MaxWrites = 1
  MaxCrashes = 1
INVARIANTS OneCaseAtATime IsolationIsOwn EngineCurrent
PROPERTY ImplementsCaseFlow
CHECK_DEADLOCK FALSE
