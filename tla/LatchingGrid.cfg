SPECIFICATION FairSpec
CONSTANTS
  ROWS = 2
  COLS = 2
  Headless = TRUE
  LockArgs <- MCLockArgs
  ExclArgs <- MCExclArgs
  MAX_PULSES = 1
  PDUR = 1
  CLOCK_RANGE = 3
  CALL_MS = 0
  LOOP_GAP = 1
  COIL_MIN = 1
  Resets = FALSE
INVARIANTS
  ContactFollowsRecord
PROPERTIES
  NoNewShort
  PulsesExpire
