SPECIFICATION Spec
CONSTANTS
  Buffers = {b1}
  NoImage = NoImage
  MaxImages = 2
  CaptureErrors = {"keep", "abort"}
  MaxFramesToSkip = 1
PROPERTIES
  StopCompletes
CHECK_DEADLOCK FALSE
