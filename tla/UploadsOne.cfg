\* One upload, all its files and its torrent, two deletions, a view, one
\* failed call and one crash.
SPECIFICATION Spec
CONSTANTS
  Prefixes = {p1}
  NoPrefix = NoPrefix
  Deleters = {d1, d2}
  Viewers = {v1}
  Listers = {}
  StoreUploadsLocally = TRUE
  StoreMetainfoFileAndTokenLocally = TRUE
  AddUploadsToTorrentClient = TRUE
  MaxFaults = 1
  MaxCrashes = 1
SYMMETRY Interchangeable
INVARIANTS
  DataHasRecord
  DeletableWhenAnswered
  DeletedLeavesNothing
  UploaderConcealed
  PanicNeedsEarlyRequest
PROPERTY
  ImplementsRegistry
\* Every upload may be over and no request running.
CHECK_DEADLOCK FALSE
