SPECIFICATION AlgorithmsSpec
CONSTANTS
  W = 3
  MaxRanges = 3
  PlannedResources <- MCPlannedResources
  Expressions <- MCExpressions
  Declarations <- MCDeclarations
  Manifests <- MCManifests
  MaxResources = 3
  MaxManifests = 4
  MaxTokens = 7
  Deployment <- MCDeployment
  Undeclared = "backbone"
  MaxEdits = 2
CHECK_DEADLOCK FALSE
INVARIANTS
  OperationsAreExact
  OneSpelling
  ReportedOrWhole
  OriginsAreTrue
  EveryResourceBlockIsRead
  
