\* Three candidate cache directories, an upload directory that may not be
\* readable, and three reports.
SPECIFICATION FairSpec
CONSTANT MaxReports = 3
INVARIANTS
  StorageOutlivesClient
  FailureLeavesNothing
  HandlerIsWhole
  OneLateReport
PROPERTY
  ExporterStops
\* A handler that is closed, or was not made, does nothing more.
CHECK_DEADLOCK FALSE
