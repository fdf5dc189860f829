SPECIFICATION Spec
CONSTANTS
  Exposures = {1, 2}
  Gains = {0, 1}
  Requests <- MCRequests
  Formats = {small, large}
  FactoryStep <- MCFactoryStep
  MaxSets = 5
  CameraSets = 4
  Cameras <- MCCameras
  Triggers <- MCTriggers
  EachImage <- MCEachImage
INVARIANTS
  TypeOK
  OnlyRunsProgrammed
  DeliversCaps
PROPERTY
  ImplementsCycle
