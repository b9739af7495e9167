CONSTANTS
  Parts = {"stream", "scans", "wizard", "installs"}
  Nothing = Nothing
  Alerts = {1}
  MaxRows = 2
  MaxVerdicts = 2
  MaxLost = 1
  MaxRefused = 1
  MaxFailures = 1
  MaxReloads = 1
  MaxPauses = 1
  MaxSpent = 2
  GateUsers = {u1}
  UsedStages = {"need_otp_enroll", "active"}
  MaxSessions = 2
  MaxAsked = 1
  MaxTrouble = 1
  CaseIds = {1, 2}
  BoxCases = {1}
  MaxPushed = 1
  MaxDecides = 1
  MaxTries = 1
  HitGroups <- HitGroupsDef
  GuideCases = 2
  MaxGuideActs = 1
  AuditFilters = {"none", "even"}
  NoFilter = "none"
  Matching <- MatchingDef
  PageSizes = {1}
  MaxLog = 2
  MaxAuditAsks = 2
  MaxAuditFailures = 1
  PolicyIds = {"a", "n", "m"}
  NewId = "n"
  BadIds = {"Bad"}
  StoredRules <- StoredDef
  Template <- TemplateDef
  Intents = {"p443"}
  DefaultLists <- DefaultListsDef
  Pieces <- PiecesDef
  TypeOf <- TypeOfDef
  Links <- LinksDef
  UsedKinds = {"dns"}
  UsedFields = {"allowPorts"}
  MaxSteps = 1
  MaxChecks = 2
  Proposals = {p1, p2}
  Drafts = {p1, p2}
  MaxActs = 1
  PerPage = 1
  MaxScan = 2
  MaxScanActs = 1
  MaxRun = 2
  EvidenceTries = 2
  MaxDemoCalls = 1
  MaxDemoTrouble = 1
  AccountIds = {me, bob, eve}
  Me = me
  Others = {bob}
  MaxAccountActs = 2
  EntryFilters = {"none", "even"}
  EntryMatching <- EntryMatchingDef
  MaxEntries = 4
  PageLimit = 1
  CsvMax = 3
  MaxRecordActs = 1
  Names = {web, db}
  Packages = {pip}
  BadInput = bad
  MaxSessionsRun = 1
  MaxViolations = 1
  MaxWizardActs = 3
  UsedEnds = {"warned"}
  UsedScans = {"running", "clean"}
  MaxInstall = 1
  MaxInstallActs = 1
  ChatKeep = 2
  ChatHistory = 2
  MaxQuestions = 3
  MaxTokens = 1
  MaxClears = 1
  Letters = {"d", "e", "n", "r"}
  MaxText = 4
  SortLists = {"kpi", "side"}
  Defaults <- DefaultsDef
  StoredLayouts <- StoredLayoutsDef
  MaxShown = 2
  ToastTime = 2
  ToastKeys = {"k"}
  NoKey = "none"
  MaxToasts = 3
SPECIFICATION ConsoleLiveSpec
PROPERTIES GapGetsFilled SheetCatchesUp InstallIsShownToEnd InstallSheetSettles
CHECK_DEADLOCK FALSE
