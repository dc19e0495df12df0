\* Two handlers at a time of which one assigns, two keys.
SPECIFICATION SerialSpec

CONSTANTS
  m1 = m1
  m2 = m2
  m3 = m3
  k1 = k1
  k2 = k2
  u1 = u1
  u2 = u2
  u3 = u3
  Msg = {m1, m2, m3}
  Key = {k1, k2}
  Uid = {u1, u2}
  KeyOf <- ThreeMessages
  NoUid = NoUid
  NoKey = NoKey
  NoMsg = NoMsg
  Mortal = {}
  Relay = TRUE
  MaxInFlight = 2
  MaxFaults = 0

SYMMETRY Symmetry

INVARIANTS
  OneOwner

PROPERTIES
  RegistryNeverEmpties

\* The system is idle when no message is left and no plugin has a key to poll.
CHECK_DEADLOCK FALSE
