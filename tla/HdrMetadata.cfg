SPECIFICATION Spec
CONSTANTS
  Sizes = {0, 1, 2, 3, 4}
  MaxFrames = 9
INVARIANT
  TypeOK
PROPERTIES
  MasterNondecreasing
  CountsWindows
  SwitchSeparates
CHECK_DEADLOCK FALSE
