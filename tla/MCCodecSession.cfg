CONSTANTS
  Streams = {s, t}
  LegacyStreams = {legacy}
  Bodies = {b}
  LegacyBody = b
  Unencodable = Unencodable
  Garbage = Garbage
  None = None
  Intervals = {1, 2, 3}
  MaxFrames = 4
SPECIFICATION Spec
INVARIANTS TypeOK ExactInSequence AcceptedInSequence Cadence CanContinue OwnParameters
