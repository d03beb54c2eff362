\* What SQS does unless asked for more: one message in a response.
SPECIFICATION FairSpec
CONSTANTS
  Messages = {m1, m2}
  Pollers = {p1, p2}
  Nobody = Nobody
  AllowMalformed = TRUE
  MaxQueues = 1
  MaxBatch = 1
  MaxRecords = 1
  MaxFaults = 1
PROPERTY
  EventsHandled
CHECK_DEADLOCK FALSE
