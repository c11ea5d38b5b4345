CONSTANTS
  CifPixels = 100
  Streams <- MCStreams
  Sources <- MCSources
  Transports <- MCTransports
SPECIFICATION Spec
INVARIANT ReservedStatusNamed
CHECK_DEADLOCK FALSE
