\* Every endpoint, with two mirrors and bodies of up to two pieces.
SPECIFICATION FairSpec
CONSTANTS
  N = 2
  Endpoints = {"metadata", "objectInfo", "view", "search"}
  MaxChunks = 2
INVARIANTS
  ErrorsStandAlone
  ErrorsAreNotCached
  EndsReleased
  SilenceIsExplained
PROPERTY
  LeavingEnds
\* A request that was answered is not followed by another.
CHECK_DEADLOCK FALSE
