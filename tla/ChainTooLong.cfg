SPECIFICATION Spec
CONSTANTS
  N_CHIPS = 3
  INT8_HALF = 2
  PER_CHIP = 1
  FULL = 2
INVARIANTS
  ChainShowsLevels
