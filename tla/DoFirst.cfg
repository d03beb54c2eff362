\* Three mirrors, and the handler that reads the response it is given.
SPECIFICATION FairSpec
CONSTANT N = 3
INVARIANTS
  NoSendAfterClose
  ReturnedStaysUsable
  NoBodyLost
PROPERTIES
  ImplementsFirstResponse
  CallerReturns
  EverythingReleased
