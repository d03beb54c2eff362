\* Metadata from one mirror, in one piece.
SPECIFICATION Spec
CONSTANTS
  N = 1
  Endpoints = {"metadata"}
  MaxChunks = 1
INVARIANT
  MetadataErrorsStandAlone
CHECK_DEADLOCK FALSE
