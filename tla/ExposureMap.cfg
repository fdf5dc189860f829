SPECIFICATION Spec
CONSTANTS
  MaxExposure = 8
  Requests = {7, 8}
  Gains = {1}
  MaxSets = 16
  MaxSteps = 2
  Unset = Unset
INVARIANTS
  TypeOK
  FindsEveryStep
  Profile0Kept
PROPERTY
  RenegotiationIsStable
