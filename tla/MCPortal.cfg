SPECIFICATION PortalSpec
CONSTANTS
  Threads = {t1, t2}
  None = None
  MaxFaults = 3
  Scenes = {"alerts", "lora", "notebooks", "accounts", "staff", "monitoring", "rate", "export", "session", "students", "setup", "snapshots", "panels"}
  RuleIds = {1, 2, 3}
  ActionOf <- Actions
  ChainIds = {1, 2}
  RuleLimit = 1
  WProjects = {p1}
  People = {a, b}
  DeviceIds = {x1, x2}
  Names = {n1, n2}
  DeviceLimit = 2
  MaxVacated = 1
  Euis = {e1, e2}
  Apps = {1, 2}
  ServerLimit = 1
  Emails = {a, b}
  Subs = {1, 2, 3}
  MaxUses = 1
  Staff = {s}
  CacheKeys = {"a", "b"}
  ProjectOf <- PageOf
  WithActivity <- ActivityPages
  CacheMax = 1
  Ttl = 1
  MaxAcks = 1
  Limit = 2
  Window = 2
  MaxClock = 5
  Keys <- ExportKeys
  RangeStart = 1
  RangeEnd = 4
  LastInstant = 4
  PageSize = 2
  MaxRows = 5
  MaxReports = 1
  MaxAttempts = 2
  TenantIds = {x1, x2}
  MaxEdition = 2
  SnapDevices = {1, 2, 3}
  SnapKeys = {1, 2}
  Preferred = {2}
  Counted = {1}
  SnapPage = 2
  ActivityMax = 1
  MaxChanges = 1
  PanelProjects = {x1, x2}
  PanelLife = 1
  Patience = 1
  MaxQuota = 2
SYMMETRY Symmetry
CHECK_DEADLOCK FALSE
INVARIANTS
  RulesBounded ChainWellFormed AlonePushIsCurrent
  MappedIsComplete UplinkReachesItsDevice DeletionClearsNotebooks
  CodeCount SessionLoads AloneRunAgrees DemotedLoggedOut
  StaleOnlyIfCrossed WindowKept RefusedWhenFull ExportExact
  RepeatedOnlyIfLost SmoothCallsSucceed RerunRepairs
  NoDuplicates DeployConverges
  NothingMissingUnnamed PageCoherent QuotaExplained
