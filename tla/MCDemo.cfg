SPECIFICATION DemoSpec
CONSTANTS
  None = None
  Unparsable = Unparsable
  Anonymous = Anonymous
  n0 = n0
  n1 = n1
  n2 = n2
  n3 = n3
  n4 = n4
  n5 = n5
  n6 = n6
  n7 = n7
  finance = finance
  exports = exports
  assets = assets
  refunds = refunds
  engine_ = engine_
  admin = admin
  financeRead = financeRead
  assetsRead = assetsRead
  consoleRead = consoleRead
  extraRead = extraRead
  adminRule = adminRule
  days30 = days30
  days90 = days90
  body = body
  secureRun = secureRun
  vulnerableRun = vulnerableRun
  exportToFinance = exportToFinance
  assetsToFinance = assetsToFinance
  assetsPublic = assetsPublic
  adminFromOperations = adminFromOperations
  page = page
  service = service
  statusRead = statusRead
  serviceRule = serviceRule
  pagePublic = pagePublic
  serviceFromCorp = serviceFromCorp
  Addr <- MCAddr
  Block <- MCBlock
  Loopback = {n7}
  Unspecified = n0
  Segments <- MCSegments
  Principal = {finance}
  BucketName = {exports, assets, page}
  ObjectKey = {refunds}
  WorkloadName = {engine_}
  PortName = {admin, service}
  GrantId = {financeRead, assetsRead, statusRead, consoleRead, extraRead}
  RuleId = {adminRule, serviceRule}
  Setting = {days30, days90}
  Body = {body}
  RuleName = {exportToFinance, assetsToFinance, assetsPublic, adminFromOperations, pagePublic, serviceFromCorp}
  PlanOf <- FullPlanOf
  ManifestOf <- FullManifestOf
  ArtifactOf <- FullArtifactOf
  AllowlistOf <- FullAllowlistOf
  ConsoleGrant = consoleRead
  ExtraGrant = extraRead
  ExportBucket = exports
  Env <- MCEnv
  Run = {secureRun, vulnerableRun}
  Job <- AllJobs
  MaxFailures = 1
  Observers <- DemoObservers
  Probes <- DemoProbes
  ProbeAddress = n5
  SecureRun = secureRun
  VulnerableRun = vulnerableRun
  StatusPage <- PageProbe
  StatusAssets <- AssetsProbe
  RefundExport <- ExportProbe
  AdminPort <- AdminProbe
  ServicePort <- ServiceProbe
  OpsAddress = n2
  Fixture <- FullFixture
  Command <- DemoCommands
  MaxCommands = 2
INVARIANTS
  DemoTypeOK
  DemonstrationsComplete
  NothingWithoutOptIn
  PublishedTable
