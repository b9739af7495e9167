SPECIFICATION Spec
CONSTANTS
  Sandboxes <- Sandbox
  Runtimes <- Web
  Selections <- Nothing
  Callers <- Nothing
  Details <- Dial
  Rules <- Policies1
  RuleOf <- ByRule
  HostOf <- ByHost
  Hosts <- Evil
  AllowedHosts <- Nothing
  KillRules <- Policies1
  Excusable <- Policies1
  PackageOf <- OwnPackage
  ImageOf <- OneImage
  LevelsSeen <- Strong
  MaxViolations = 1
  MaxEvidence = 1
  PersistQueue = 1
  MaxCases = 2
  MaxProposals = 1
  MaxAudit = 1
  MaxWrites = 0
  MaxCrashes = 1
INVARIANT CaseOfSession
CHECK_DEADLOCK FALSE
