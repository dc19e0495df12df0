\* Two processes, a lost answer and a kill; a message that no process can send.
SPECIFICATION Spec

CONSTANTS
  b1 = b1
  b2 = b2
  d1 = d1
  d2 = d2
  Body = {b1, b2}
  Process = {d1, d2}
  Scheme <- HttpAndOther
  NullHeader = {}
  NoEnvelope = NoEnvelope
  Status = FALSE
  Page = 2
  MaxFaults = 1
  MaxCrashes = 1

SYMMETRY Symmetry

INVARIANTS
  GivenUpAfterAllAttempts

\* The service is idle when every message is settled.
CHECK_DEADLOCK FALSE
