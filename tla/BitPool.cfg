SPECIFICATION Spec
CONSTANTS
  ROWS = 2
  COLS = 3
  W = 4
  COUNT_RANGE = 16
  LockArgs <- MCLockArgs
  ExclArgs <- MCExclArgs
INVARIANTS
  TypeOK
PROPERTIES
  KeepsSections
