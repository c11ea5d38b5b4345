SPECIFICATION Spec
CONSTANTS
  Half = 2
  MaxEntry = 100
  MaxContexts = 14
  CodedRuns = {}
  Streams <- MCStreams
  DefaultTransition <- MCDefaultTransition
  StateCount = 2
  Byte = 4
  Word = 64
  MaxInt = 5
  Damaged <- MCDamaged
  Garbage = {0, 1, 2, 17}
INVARIANT
  RecordRoundTrip
