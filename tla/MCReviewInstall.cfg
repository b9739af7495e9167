SPECIFICATION FairSpec
CONSTANTS
  Sandboxes <- Sandbox
  Runtimes <- Nothing
  Selections <- Nothing
  Callers <- Nothing
  Details <- ReadDial
  Rules <- Policies2
  RuleOf <- ByRule
  HostOf <- ByHost
  Hosts <- Evil
  AllowedHosts <- Nothing
  KillRules <- Policies1
  Excusable <- Policies1
  PackageOf <- OwnPackage
  ImageOf <- OneImage
  LevelsSeen <- Strong
  MaxViolations = 1
  MaxEvidence = 2
  PersistQueue = 1
  MaxCases = 1
  MaxProposals = 1
  MaxAudit = 1
  MaxWrites = 0
  MaxCrashes = 0
INVARIANTS CleanIsStored
PROPERTY EvidenceIsStored
CHECK_DEADLOCK FALSE
