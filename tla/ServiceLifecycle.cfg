SPECIFICATION FairSpec
CONSTANTS
  Servers = {h1}
  MaxRequests = 1
  Pools = {d1}
  Users = {u1}
INVARIANTS
  WaitGroupBalanced
  GracefulMeansStopped
  CheckedHandleIsOpen
PROPERTIES
  BootstrapReturns
  DependantsEnd
