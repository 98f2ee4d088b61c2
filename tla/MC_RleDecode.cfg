CONSTANTS
  PixelSize = 1
  RowDelta = 2
  Width = 2
  Height = 2
  MaxSrc = 4
  Bytes <- MC_Bytes
  NoPel = NoPel
SPECIFICATION Spec
CHECK_DEADLOCK FALSE
INVARIANT TypeOK
INVARIANT AboveWritten
PROPERTY Terminates
PROPERTY ForwardRefined
