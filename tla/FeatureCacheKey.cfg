SPECIFICATION Spec
CONSTANTS
  NoNode = "none"
  NoEntry = NoEntry
  Root = "Root"
  MaxSelectorEntries = 2
  MaxFailures = 1
  MaxSessions = 2
  Nodes <- MCNodes
  Node <- MCNode
  Value <- MCValue
  Values <- MCValues
  IsWritable <- MCIsWritable
  Settings <- MCSettings
  PowerOn <- MCPowerOn
  Orders <- MCOrders
  ForeignNames <- MCForeignNames
INVARIANTS
  EntryHasOwnLimits
CHECK_DEADLOCK FALSE
