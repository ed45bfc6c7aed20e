SPECIFICATION Spec
CONSTANTS
  Chip <- MCSame
  Pin = {0}
  Lossy = FALSE
  Unknown = Unknown
PROPERTIES
  OnlyTheTarget
