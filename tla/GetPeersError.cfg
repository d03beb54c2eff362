\* One traversal that cannot be started is enough.
SPECIFICATION FairSpec
CONSTANTS
  N = 2
  MaxPeers = 1
  MaxBatch = 1
INVARIANT ClosedOnReturn
