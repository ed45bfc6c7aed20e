SPECIFICATION Spec
CONSTANTS
  ROWS = 2
  COLS = 2
  Headless = FALSE
  LockArgs <- MCLockArgs
  ExclArgs <- MCExclArgs
  MAX_PULSES = 1
  PDUR = 1
  CLOCK_RANGE = 6
  CALL_MS = 0
  LOOP_GAP = 1
  COIL_MIN = 1
  Resets = FALSE
PROPERTIES
  LockedRowsNeverShare
