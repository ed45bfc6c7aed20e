SPECIFICATION ComposedSpec
CONSTANTS
  ROWS = 2
  COLS = 1
  Headless = FALSE
  LockArgs <- MCLockArgs
  ExclArgs <- MCExclArgs
  Chip <- MCOneMux
  Expander <- MCOfMatrix
  Pin = {0}
  Lossy = TRUE
  Unknown = Unknown
CONSTRAINT FewLost
INVARIANTS
  CacheIsTrue
  LatchesFollowShadows
  PinsFollowRecord
PROPERTIES
  OnlyTheTarget
  NoNewShort
