SPECIFICATION ComposedSpec
CONSTANTS
  ROWS = 2
  COLS = 1
  Headless = FALSE
  LockArgs <- MCLockArgs
  ExclArgs <- MCExclArgs
  Chip <- MCChip
  Expander <- MCOfMatrix
  Pin = {0}
  Lossy = FALSE
  Unknown = Unknown
INVARIANTS
  TypeOK
  CacheIsTrue
  LatchesFollowShadows
  PinsFollowRecord
PROPERTIES
  OnlyTheTarget
  SwitchedOn
  NoNewShort
