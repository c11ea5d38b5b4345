SPECIFICATION SpecTables
CONSTANTS
  Half = 3
  MaxEntry = 200
  MaxContexts = 63
  CodedRuns = {0, 1, 2, 3, 4}
INVARIANTS
  ContextsInRange
CHECK_DEADLOCK FALSE
