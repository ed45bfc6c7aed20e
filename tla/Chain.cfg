SPECIFICATION Spec
CONSTANTS
  N_CHIPS = 2
  INT8_HALF = 2
  PER_CHIP = 2
  FULL = 2
INVARIANTS
  TypeOK
  ChainShowsLevels
