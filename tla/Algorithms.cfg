SPECIFICATION AlgSpec
CONSTANTS
  Entries = {1, 2, 3, 4, 5, 6, 7}
  Deadlines = {0, 1, 2}
  NoEntry = 0
  BulkPurgeRatio = 5
VIEW View
CHECK_DEADLOCK FALSE
INVARIANTS
  IndexIsPosition
  
  AlgorithmsAreExact
PROPERTY
  ImplementsQueue
