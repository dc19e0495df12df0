\* The contract of the inbound path; one of the plugins may stop.
SPECIFICATION FairSpec

CONSTANTS
  m1 = m1
  m2 = m2
  m3 = m3
  k1 = k1
  k2 = k2
  u1 = u1
  u2 = u2
  u3 = u3
  Msg = {m1, m2}
  Key = {k1}
  Uid = {u1, u2, u3}
  KeyOf <- OneKey
  NoUid = NoUid
  NoKey = NoKey
  NoMsg = NoMsg
  Mortal = {u1}
  Relay = TRUE
  MaxInFlight = 1
  MaxFaults = 0

PROPERTIES
  ImplementsContract
  DeliversAccepted
  HandlersFinish
  FailoverDelivers

\* The system is idle when no message is left and no plugin has a key to poll.
CHECK_DEADLOCK FALSE
