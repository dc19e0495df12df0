\* Two callers, one replacing a plugin, while plugins come and go.
SPECIFICATION Spec

CONSTANTS
  c1 = c1
  c2 = c2
  u1 = u1
  u2 = u2
  u3 = u3
  Caller = {c1, c2}
  Uid = {u1, u2, u3}
  Ignore <- IgnoreFirst
  NoUid = NoUid
  NoIterator = NoIterator
  MaxCalls = 5
  MaxChanges = 4

INVARIANTS
  TypeOK
  Balanced

PROPERTIES
  ChoosesACandidate

\* The registry may stay empty, and the choices are bounded.
CHECK_DEADLOCK FALSE
