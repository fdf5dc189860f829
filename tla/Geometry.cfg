SPECIFICATION Spec
CONSTANTS
  Sensor <- MCSensor
  Inc <- MCInc
  Alignment = 2
  PowerOn <- MCPowerOn
  Peers = {downstream}
  Requests <- MCRequests
  Demands <- MCDemands
  Any = Any
  Modes <- MCModes
  MaxNegotiations = 2
  MaxEvents = 2
INVARIANTS
  TypeOK
  OffsetAsAsked
PROPERTIES
  OpenSizesKept
CHECK_DEADLOCK FALSE
