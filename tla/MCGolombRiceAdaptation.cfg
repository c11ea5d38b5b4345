CONSTANTS
  Bits = 9
  Half = 256
  Contents <- MCContents
  MaxSymbols = 330
SPECIFICATION SpecAdaptation
INVARIANTS ContextsInBounds NeverRefused SymbolsRead
CHECK_DEADLOCK FALSE
