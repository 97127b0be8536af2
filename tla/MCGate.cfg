SPECIFICATION FairSpec
CONSTANTS
  None = None
  Unparsable = Unparsable
  Anonymous = Anonymous
  n0 = n0
  n1 = n1
  n2 = n2
  n3 = n3
  n4 = n4
  n5 = n5
  n6 = n6
  n7 = n7
  finance = finance
  exports = exports
  refunds = refunds
  engine_ = engine_
  admin = admin
  g1 = g1
  g2 = g2
  r1 = r1
  sealed = sealed
  body = body
  byFinance = byFinance
  byEverybody = byEverybody
  byBoth = byBoth
  byOperations = byOperations
  Addr <- MCAddr
  Block <- MCBlock
  Loopback = {n7}
  Unspecified = n0
  Segments <- MCSegments
  Principal = {finance}
  BucketName = {exports}
  ObjectKey = {refunds}
  WorkloadName = {engine_}
  PortName = {admin}
  GrantId = {g1, g2}
  RuleId = {r1}
  Setting = {sealed}
  Body = {body}
  RuleName = {byFinance, byEverybody, byBoth, byOperations}
  Inputs <- AllInputs
CHECK_DEADLOCK FALSE
INVARIANTS
  TypeOK
  
  SameSourcesSameDecision
PROPERTIES
  VerdictPromise
  EveryRunDecided
