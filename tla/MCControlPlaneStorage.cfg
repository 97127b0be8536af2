SPECIFICATION Spec
CONSTANTS
  None = None
  Unparsable = Unparsable
  Anonymous = Anonymous
  corp = corp
  net = net
  stray = stray
  loop = loop
  zero = zero
  finance = finance
  deployer = deployer
  stranger = stranger
  exports = exports
  other = other
  refunds = refunds
  engine = engine
  admin = admin
  service = service
  gDeploy = gDeploy
  gRead = gRead
  rAdmin = rAdmin
  plain = plain
  sealed = sealed
  body1 = body1
  body2 = body2
  Request = {r1, r2, r3}
  Addr <- MCAddr
  Block <- MCBlock
  Loopback = {loop}
  Unspecified = zero
  Segments <- MCSegments
  Principal <- MCPrincipal
  Name <- MCName
  BucketName = {exports, other}
  ObjectKey = {refunds}
  WorkloadName = {engine}
  PortName = {admin, service}
  GrantId = {gDeploy, gRead}
  RuleId = {rAdmin}
  Setting = {plain, sealed}
  Body = {body1, body2}
  AdminPort <- MCAdminPort
  Submissions <- StorageSubmissions
  InitialStore <- StorageStore
CHECK_DEADLOCK FALSE
SYMMETRY Symmetry
INVARIANTS
  TypeOK
  DeployerStaysInScope
  LedgerAttribution
  
  RefusalsAudited
PROPERTY
  LedgerPromise
