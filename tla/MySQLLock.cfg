SPECIFICATION FairSpec
CONSTANTS
  Clients = {c1, c2}
  Conns = {s1, s2}
  NoConn = none
  MaxAcquires = 1
  MaxDrops = 1
INVARIANTS
  HolderOwnsLock
  ConnectionIsNotShared
  LeaksOnlyAfterFailedRelease
  LossReportIsTrue
PROPERTY
  ReleaseReturns
