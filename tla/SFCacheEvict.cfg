SPECIFICATION Spec
CONSTANTS
  g1 = g1
  g2 = g2
  g3 = g3
  k1 = k1
  k2 = k2
  k3 = k3
  none = none
  nokey = nokey
  NoGoroutine = none
  NoKey = nokey
  Goroutines <- TwoGoroutines
  Cancellable <- Nobody
  Keys <- ThreeKeys
  Size = 1
  TTLs = {1}
  MaxStale = 1
  MaxStaleOnFailure = 1
  MaxCalls = 4
  MaxInvals = 0
  MaxTime = 3
SYMMETRY Symmetry
INVARIANTS
  CapacityBound
  StaleWindowIsAnchoredOnce
PROPERTIES
  EvictionIsRight
