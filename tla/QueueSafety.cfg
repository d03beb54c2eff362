\* Two goroutines and two events in responses of up to two, a queue that may
\* be deleted and made anew, and one failure.
SPECIFICATION Spec
CONSTANTS
  Messages = {m1, m2}
  Pollers = {p1, p2}
  Nobody = Nobody
  AllowMalformed = TRUE
  MaxQueues = 2
  MaxBatch = 2
  MaxRecords = 1
  MaxFaults = 1
SYMMETRY Interchangeable
INVARIANTS
  NilMeansHandled
  ReadyIsSubscribed
  DeletedIsCleanedUp
  NoQueueForgotten
PROPERTY
  ImplementsDelivery
\* A poller waits for an Init that may never be called.
CHECK_DEADLOCK FALSE
