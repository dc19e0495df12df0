\* Two processes in the status server, a message with a null header, two kills.
SPECIFICATION Spec

CONSTANTS
  b1 = b1
  b2 = b2
  d1 = d1
  d2 = d2
  Body = {b1, b2}
  Process = {d1, d2}
  Scheme <- AllHttp
  NullHeader = {b2}
  NoEnvelope = NoEnvelope
  Status = TRUE
  Page = 2
  MaxFaults = 0
  MaxCrashes = 2

SYMMETRY Symmetry

INVARIANTS
  TypeOK
  SingleCopy
  NothingLost

PROPERTIES
  RetriesWaitTheirTime
  ImplementsContract

\* The service is idle when every message is settled.
CHECK_DEADLOCK FALSE
