SPECIFICATION Spec
CONSTANTS
  ROWS = 2
  COLS = 2
  Headless = TRUE
  LockArgs <- MCLockArgs
  ExclArgs <- MCExclArgs
  FULL = 2
INVARIANTS
  TypeOK
  OutputFollowsRecord
PROPERTIES
  NoNewShort
  Arbitrates
