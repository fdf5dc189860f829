SPECIFICATION Spec
CONSTANTS
  Buffers = {b1}
  NoImage = NoImage
  MaxImages = 2
  CaptureErrors = {"skip"}
  MaxFramesToSkip = 1
PROPERTIES
  StopCompletes
CHECK_DEADLOCK FALSE
