SPECIFICATION Spec
CONSTANTS
  g1 = g1
  g2 = g2
  g3 = g3
  k1 = k1
  k2 = k2
  k3 = k3
  none = none
  nokey = nokey
  NoGoroutine = none
  NoKey = nokey
  Goroutines <- TwoGoroutines
  Cancellable <- TwoGoroutines
  Keys <- OneKey
  Size = 1
  TTLs = {1}
  MaxStale = 0
  MaxStaleOnFailure = 0
  MaxCalls = 1
  MaxInvals = 0
  MaxTime = 1
SYMMETRY Symmetry
PROPERTIES
  LookupStartsWithLiveContext
