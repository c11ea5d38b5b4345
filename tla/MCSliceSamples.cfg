CONSTANTS
  Streams <- MCStreams
  Images <- MCImages
  LaterImages <- MCLaterImages
  Foreign <- MCForeign
  MaxFrames = 2
SPECIFICATION Spec
INVARIANTS RoundTrip SameAdaptation RunsConserved
CHECK_DEADLOCK FALSE
