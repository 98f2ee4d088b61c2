CONSTANTS
  PixelSize = 1
  RowDelta = 4
  Width = 4
  Height = 3
  MaxSrc = 4
  Bytes <- MC_WideBytes
  NoPel = NoPel
SPECIFICATION Spec
CHECK_DEADLOCK FALSE
PROPERTY FailureWritesNothing
