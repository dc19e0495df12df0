\* Two relays, one with a websocket, a request at each handler; two plugins.
SPECIFICATION FairSpec

CONSTANTS
  t1 = t1
  t2 = t2
  t3 = t3
  h1 = h1
  h2 = h2
  w = w
  u1 = u1
  u2 = u2
  Txn = {t1, t2, t3}
  Handler = {h1, h2, w}
  WS = {w}
  Relay = {{h1, w}, {h2}}
  HandledBy <- ThreeHandlers
  NoTxn = NoTxn
  Uid = {u1, u2}
  MaxFaults = 1
  MaxKills = 1

INVARIANTS
  TypeOK
  AnsweredMeansResponded
  ResponsesKept


  

\* The system is idle when every request has ended, or the plugin has.
CHECK_DEADLOCK FALSE
