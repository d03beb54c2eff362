\* Three pairs that find up to two peers each, alone or together.
SPECIFICATION FairSpec
CONSTANTS
  N = 3
  MaxPeers = 2
  MaxBatch = 2
INVARIANTS
  NoSendOnClosedChannel
  NilMeansAllDelivered
  NoTraversalOutlives
PROPERTY
  EverythingEnds
