SPECIFICATION Spec
CONSTANTS
  ROWS = 2
  COLS = 1
  Headless = FALSE
  LockArgs <- MCLockArgs
  ExclArgs <- MCExclArgs
  MAX_PULSES = 1
  PDUR = 2
  CLOCK_RANGE = 6
  CALL_MS = 1
  LOOP_GAP = 1
  COIL_MIN = 1
  Resets = FALSE
PROPERTIES
  FullPulse
