SPECIFICATION Spec
CONSTANTS
  objectAddress = objectAddress
  bucketAddress = bucketAddress
  Address = {objectAddress, bucketAddress}
  Model <- MCModel
  Configurations <- MCConfigurations
  None = None
  MaxApplies = 3
  Elsewhere <- MCElsewhere
  MaxForeign = 1
INVARIANTS
  TypeOK
  ApplyConverges
  NothingForgotten
PROPERTY
  EveryApplyEnds
