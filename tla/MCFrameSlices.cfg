CONSTANTS
  CifPixels = 100
  Streams <- MCStreams
  Sources <- MCSources
  Transports <- MCTransports
SPECIFICATION Spec
INVARIANTS
  SlicesRecovered
  DamageNamed
  OnlyWholeFrames
CHECK_DEADLOCK FALSE
