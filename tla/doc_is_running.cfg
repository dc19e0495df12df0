\* redis_deliverer/deliver/deliver.py:54 on a process that says it is running.
SPECIFICATION Spec

CONSTANTS
  b1 = b1
  b2 = b2
  d1 = d1
  d2 = d2
  Body = {b1, b2}
  Process = {d1, d2}
  Scheme <- HttpAndWs
  NullHeader = {}
  NoEnvelope = NoEnvelope
  Status = TRUE
  Page = 1
  MaxFaults = 0
  MaxCrashes = 0

INVARIANTS
  RunningMeansDelivering

\* The service is idle when every message is settled.
CHECK_DEADLOCK FALSE
