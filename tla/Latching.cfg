SPECIFICATION Spec
CONSTANTS
  ROWS = 3
  COLS = 1
  Headless = FALSE
  LockArgs <- MCLockArgs
  ExclArgs = {}
  MAX_PULSES = 2
  PDUR = 2
  CLOCK_RANGE = 6
  CALL_MS = 1
  LOOP_GAP = 1
  COIL_MIN = 1
  Resets = TRUE
INVARIANTS
  TypeOK
  NoStuckCoil
  CoilFollowsRecord
  ContactFollowsRecord
  BoundedOn
PROPERTIES
  NoNewShort
  NoShortPulse
  Arbitrates
