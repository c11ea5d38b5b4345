CONSTANTS
  Rasters <- MCRasters
  Cells <- MCCells
  Cover <- MCCover
  Bodies <- MCBodies
  Corrupt = Corrupt
  Malformed = Malformed
  Frames <- MCFrames
  MaxSlices = 3
  ThreadCounts = {1, 2, 3}
  NoCall = NoCall
  Stale = Stale
  Torn = Torn
  MaxGop = 2
SPECIFICATION FairSpec
INVARIANTS TypeOK NoSharedCell NoOrphanWorker ThreadsBounded RasterContinuity SameDepth OutputFaithful
PROPERTIES ImplementsAtomic CallReturns
