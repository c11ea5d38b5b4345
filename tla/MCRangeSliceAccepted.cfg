CONSTANTS
  StateTransition <- MCTable
  Contexts <- MCContexts
  MaxExponent = 14
  Cells <- MCCells
  Samples <- MCSamples
  MaxSamples = 2
  MaxFrames = 2
  Bodies <- MCBodies
  Checks <- MCChecks
  None = None
SPECIFICATION Spec
INVARIANT OutputAccepted
CHECK_DEADLOCK FALSE
