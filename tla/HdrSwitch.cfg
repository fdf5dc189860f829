SPECIFICATION SwitcherSpec
CONSTANTS
  RetryCount = 1
  MaxRequests = 4
  MayStop = TRUE
  MayRefuse = TRUE
INVARIANTS
  SwitcherTypeOK
  OnlyRequestedSignals
PROPERTIES
  SeparateRequestSignalled
