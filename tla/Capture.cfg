SPECIFICATION Spec
CONSTANTS
  Buffers = {b1, b2}
  NoImage = NoImage
  MaxImages = 3
  CaptureErrors = {"keep", "abort", "skip"}
  MaxFramesToSkip = 1
INVARIANTS
  TypeOK
  HeldImagesIntact
  EosHasCause
PROPERTIES
  TakenInOrder
  StaleOnlyFirst
SYMMETRY BufferSymmetry
CHECK_DEADLOCK FALSE
