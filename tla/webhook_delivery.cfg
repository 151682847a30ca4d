\* Two deliveries, two requests, two workers, one retry, one stall per job.
SPECIFICATION FairSpec
CONSTANTS
  Deliveries = {d1, d2}
  Requests = {r1, r2}
  Workers = {w1, w2}
  NoRequest = NoRequest
  MaxRetries = 1
  MaxStalls = 1
INVARIANT TypeOK
INVARIANT DispatchedOnce
INVARIANT AcceptedIsRecorded
INVARIANT UnsettledHasCause
PROPERTY SettledIsFinal
PROPERTY JobsSettle
CHECK_DEADLOCK FALSE
