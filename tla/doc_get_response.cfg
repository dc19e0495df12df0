\* redis_relay/relay/relay.py:96 on the value returned.
SPECIFICATION Spec

CONSTANTS
  t1 = t1
  t2 = t2
  t3 = t3
  h1 = h1
  h2 = h2
  w = w
  u1 = u1
  u2 = u2
  Txn = {t1, t2}
  Handler = {h1, w}
  WS = {w}
  Relay = {{h1, w}}
  HandledBy <- OneHandler
  NoTxn = NoTxn
  Uid = {u1}
  MaxFaults = 0
  MaxKills = 0

PROPERTIES
  GetsTheResponse

\* The system is idle when every request has ended, or the plugin has.
CHECK_DEADLOCK FALSE
