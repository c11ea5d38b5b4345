CONSTANTS
  CifPixels = 34
  Streams <- MCStreams
  Layouts <- MCLayouts
SPECIFICATION Spec
INVARIANTS
  WindowsPartition
  EncoderGridAccepted
PROPERTY ImplementsCoverage
CHECK_DEADLOCK FALSE
