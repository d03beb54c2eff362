\* Two uploads half done when the process dies, a deletion that may go from
\* one to the other, and a listing that runs beside them.
SPECIFICATION Spec
CONSTANTS
  Prefixes = {p1, p2}
  NoPrefix = NoPrefix
  Deleters = {d1}
  Viewers = {}
  Listers = {l1}
  StoreUploadsLocally = TRUE
  StoreMetainfoFileAndTokenLocally = TRUE
  AddUploadsToTorrentClient = TRUE
  MaxFaults = 0
  MaxCrashes = 1
SYMMETRY Interchangeable
INVARIANTS
  ClientMatchesRecords
  ListingShowsSteady
\* Every upload may be over and no request running.
CHECK_DEADLOCK FALSE
