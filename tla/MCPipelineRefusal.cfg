SPECIFICATION Spec
CONSTANTS
  None = None
  Unparsable = Unparsable
  Anonymous = Anonymous
  n0 = n0
  n1 = n1
  n2 = n2
  n3 = n3
  n4 = n4
  n5 = n5
  n6 = n6
  n7 = n7
  finance = finance
  exports = exports
  assets = assets
  refunds = refunds
  engine_ = engine_
  admin = admin
  financeRead = financeRead
  assetsRead = assetsRead
  consoleRead = consoleRead
  extraRead = extraRead
  adminRule = adminRule
  days30 = days30
  days90 = days90
  body = body
  secureRun = secureRun
  vulnerableRun = vulnerableRun
  exportToFinance = exportToFinance
  assetsToFinance = assetsToFinance
  assetsPublic = assetsPublic
  adminFromOperations = adminFromOperations
  Addr <- MCAddr
  Block <- MCBlock
  Loopback = {n7}
  Unspecified = n0
  Segments <- MCSegments
  Principal = {finance}
  BucketName = {exports, assets}
  ObjectKey = {refunds}
  WorkloadName = {engine_}
  PortName = {admin}
  GrantId = {financeRead, assetsRead, consoleRead, extraRead}
  RuleId = {adminRule}
  Setting = {days30, days90}
  Body = {body}
  RuleName = {exportToFinance, assetsToFinance, assetsPublic, adminFromOperations}
  PlanOf <- MCPlanOf
  ManifestOf <- MCManifestOf
  ArtifactOf <- MCArtifactOf
  AllowlistOf <- MCAllowlistOf
  ConsoleGrant = consoleRead
  ExtraGrant = extraRead
  ExportBucket = exports
  Env <- MCEnv
  Run = {vulnerableRun}
  Job <- AllJobs
  MaxFailures = 1
INVARIANTS
  RefusedMeansUntouched
