CONSTANTS
  SliceCounts = {1, 2, 3}
  MaxSlices = 3
  ThreadCounts = {1, 2, 3}
  Bodies <- MCBodies
  Unencodable = Unencodable
  NoCall = NoCall
  MaxGop = 2
SPECIFICATION FairSpec
INVARIANTS TypeOK NoOrphanWorker FrameInStep
PROPERTIES ImplementsAtomic CallReturns
