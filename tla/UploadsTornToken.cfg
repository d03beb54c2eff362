\* One upload and one failed call.
SPECIFICATION Spec
CONSTANTS
  Prefixes = {p1}
  NoPrefix = NoPrefix
  Deleters = {}
  Viewers = {}
  Listers = {}
  StoreUploadsLocally = TRUE
  StoreMetainfoFileAndTokenLocally = TRUE
  AddUploadsToTorrentClient = FALSE
  MaxFaults = 1
  MaxCrashes = 0
INVARIANT AnsweredIsDeletable
CHECK_DEADLOCK FALSE
