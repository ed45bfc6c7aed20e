SPECIFICATION Spec
CONSTANTS
  ROWS = 2
  COLS = 3
  NOUT = 3
  BYTE = 2
INVARIANTS
  TypeOK
  ShiftedSoFar
PROPERTIES
  ShowsBuffer
