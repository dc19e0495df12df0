\* redis_queue/README.md:7 on the list of assigned keys.
SPECIFICATION Spec

CONSTANTS
  m1 = m1
  m2 = m2
  m3 = m3
  k1 = k1
  k2 = k2
  u1 = u1
  u2 = u2
  u3 = u3
  Msg = {m1, m2}
  Key = {k1, k2}
  Uid = {u1, u2}
  KeyOf <- TwoMessages
  NoUid = NoUid
  NoKey = NoKey
  NoMsg = NoMsg
  Mortal = {}
  Relay = TRUE
  MaxInFlight = 2
  MaxFaults = 0

INVARIANTS
  OneOwner

\* The system is idle when no message is left and no plugin has a key to poll.
CHECK_DEADLOCK FALSE
