--------------------------- MODULE DirectResponse ---------------------------
(***************************************************************************)
(* Messages that ask for a direct response: the relay's message handlers,  *)
(* its process_direct_responses and get_direct_responses                   *)
(* (redis_relay/relay/relay.py), and the end of the loop of                *)
(* RedisInboundTransport.start that answers them (redis_queue/v1_0/        *)
(* inbound.py).  All handlers of all relays read one Redis list of         *)
(* responses, but each has a map of its own.  The way to a plugin (modules *)
(* Sharding and InboundTransport) is one list here, read by any plugin     *)
(* that runs.                                                              *)
(***************************************************************************)
EXTENDS Integers, Sequences

CONSTANTS
  Txn,        \* requests, each with a fresh txn_id
  Handler,    \* HttpRelay and WSRelay objects
  WS,         \* those that are a WSRelay
  Relay,      \* the relay processes, each a set of handlers
  HandledBy,  \* the handler that takes each request
  Uid,        \* plugin instances: a restarted plugin takes a new one
  NoTxn,
  MaxFaults,  \* bound: Redis errors
  MaxKills    \* bound: relays killed

ASSUME DirectResponseAssumption ==
  /\ WS \subseteq Handler
  /\ Relay \subseteq SUBSET Handler
  /\ HandledBy \in [Txn -> Handler]
  /\ NoTxn \notin Txn
  /\ MaxFaults \in Nat
  /\ MaxKills \in Nat

VARIABLES
  client,     \* per request, where its message handler is
  map,        \* direct_response_txn_request_map of each handler
  inbound,    \* the inbound list
  plugin,     \* where each plugin is in its loop
  session,    \* per plugin, the request whose message it handles
  responses,  \* the list direct_resp_topic
  responded,  \* requests for which a session gave a response
  lost,       \* responses dropped with a Redis error or with a process
  faults, kills

relayVars == <<client, map>>
pluginVars == <<plugin, session, responded>>
vars == <<relayVars, inbound, pluginVars, responses, lost, faults, kills>>

Init ==
  /\ client = [t \in Txn |-> "new"]
  /\ map = [h \in Handler |-> [t \in Txn |-> "absent"]]
  /\ inbound = <<>>
  /\ plugin = [u \in Uid |-> "off"]
  /\ session = [u \in Uid |-> NoTxn]
  /\ responses = <<>>
  /\ responded = {}
  /\ lost = {}
  /\ faults = 0
  /\ kills = 0

Fault == faults < MaxFaults /\ faults' = faults + 1

Goto(t, p) == client' = [client EXCEPT ![t] = p]
Entry(t) == map[HandledBy[t]][t]
Store_Dropped(h, t, v) == UNCHANGED map
Store_IfAbsent(h, t, v) ==
  map' = [map EXCEPT ![h][t] = IF @ = "absent" THEN v ELSE @]
Store(h, t, v) == map' = [map EXCEPT ![h][t] = v]

-----------------------------------------------------------------------------
(* message_handler of the relay *)

\* HttpRelay: the request itself is stored in the map of responses.
Post(t) ==
  /\ client[t] = "new"
  /\ HandledBy[t] \notin WS
  /\ Store(HandledBy[t], t, "request")
  /\ Goto(t, "push")
  /\ UNCHANGED <<inbound, pluginVars, responses, lost, faults, kills>>

\* WSRelay: asyncio.wait is given a task where it takes a collection, and
\* raises TypeError before the first message is read.
Connect(t) ==
  /\ client[t] = "new"
  /\ HandledBy[t] \in WS
  /\ Goto(t, "failed")
  /\ UNCHANGED <<map, inbound, pluginVars, responses, lost, faults, kills>>

\* Plugins that have registered: a field stays when its plugin stops, and the
\* last one is not removed.
Registered == {u \in Uid : plugin[u] # "off"}

Available == Registered # {}

\* process_payload_recip_key and RPUSH.
Push(t) ==
  /\ client[t] = "push"
  /\ Available
  /\ inbound' = Append(inbound, t)
  /\ Goto(t, "look")
  /\ UNCHANGED <<map, pluginVars, responses, lost, faults, kills>>

\* RPUSH raises, applied or not, and is repeated: the map is left alone.
PushError(t) ==
  /\ client[t] = "push"
  /\ Available
  /\ Fault
  /\ inbound' = Append(inbound, t) \/ UNCHANGED inbound
  /\ UNCHANGED <<relayVars, pluginVars, responses, lost, kills>>

\* process_payload_recip_key raises: the request ends with an error 500.
RouteError(t) ==
  /\ client[t] = "push"
  /\ Fault
  /\ Goto(t, "failed")
  /\ UNCHANGED <<map, inbound, pluginVars, responses, lost, kills>>

\* What get_direct_responses returns: the value in the map.
Found(t) == Entry(t) # "absent"

\* A response answers the client; the request itself has no "response", and the
\* handler ends in a KeyError.
Answer_Any(t) == "answered"
Answer(t) == IF Entry(t) = "response" THEN "answered" ELSE "failed"

\* The wait is over: something was found, or 15 seconds have passed and the
\* client gets an empty reply.
Look(t) ==
  /\ client[t] = "look"
  /\ Goto(t, IF Found(t) THEN Answer(t) ELSE "empty")
  /\ UNCHANGED <<map, inbound, pluginVars, responses, lost, faults, kills>>

\* A relay is killed and started again: the requests it handled end, and the
\* maps of its handlers, which are in memory, start empty.
Kill(r) ==
  /\ kills < MaxKills
  /\ kills' = kills + 1
  /\ client' = [t \in Txn |-> IF HandledBy[t] \in r /\ client[t] \in {"push", "look"}
                             THEN "failed" ELSE client[t]]
  /\ map' = [h \in Handler |-> IF h \in r THEN [t \in Txn |-> "absent"] ELSE map[h]]
  /\ lost' = lost \union {t \in Txn : \E h \in r : map[h][t] = "response"}
  /\ UNCHANGED <<inbound, pluginVars, responses, faults>>

-----------------------------------------------------------------------------
(* process_direct_responses *)

\* BLPOP: any handler may get any response, and keeps it.
Listen(h) ==
  /\ responses # <<>>
  /\ responses' = Tail(responses)
  /\ Store(h, Head(responses), "response")
  /\ UNCHANGED <<client, inbound, pluginVars, lost, faults, kills>>

\* BLPOP was applied and its answer was lost, with the relay or without it.
ListenError ==
  /\ responses # <<>>
  /\ Fault
  /\ responses' = Tail(responses)
  /\ lost' = lost \union {Head(responses)}
  /\ UNCHANGED <<relayVars, inbound, pluginVars, kills>>

-----------------------------------------------------------------------------
(* RedisInboundTransport.start *)

Move(u, p) == plugin' = [plugin EXCEPT ![u] = p]
Take(u, t) == session' = [session EXCEPT ![u] = t]

\* The plugin registers its uid.
Start(u) ==
  /\ plugin[u] = "off"
  /\ Move(u, "pop")
  /\ UNCHANGED <<relayVars, inbound, session, responses, responded, lost, faults,
                 kills>>

Pop(u) ==
  /\ plugin[u] = "pop"
  /\ inbound # <<>>
  /\ Take(u, Head(inbound))
  /\ inbound' = Tail(inbound)
  /\ Move(u, "session")
  /\ UNCHANGED <<relayVars, responses, responded, lost, faults, kills>>

\* wait_response returns a response.  Nothing bounds the wait.
Respond(u) ==
  /\ plugin[u] = "session"
  /\ responded' = responded \union {session[u]}
  /\ Move(u, "rpush")
  /\ UNCHANGED <<relayVars, inbound, session, responses, lost, faults, kills>>

\* It returns None, which cannot be encoded: start ends with a TypeError.
RespondNothing(u) ==
  /\ plugin[u] = "session"
  /\ Move(u, "ended")
  /\ Take(u, NoTxn)
  /\ UNCHANGED <<relayVars, inbound, responses, responded, lost, faults, kills>>

\* The message does not parse: it is logged and the loop goes on.
ParseError(u) ==
  /\ plugin[u] = "session"
  /\ Move(u, "pop")
  /\ Take(u, NoTxn)
  /\ UNCHANGED <<relayVars, inbound, responses, responded, lost, faults, kills>>

RPush(u) ==
  /\ plugin[u] = "rpush"
  /\ responses' = Append(responses, session[u])
  /\ Move(u, "pop")
  /\ Take(u, NoTxn)
  /\ UNCHANGED <<relayVars, inbound, responded, lost, faults, kills>>

\* RPUSH raises, applied or not: a RedisError is logged and the loop goes on, a
\* RedisClusterException ends it.
RPushError(u) ==
  /\ plugin[u] = "rpush"
  /\ Fault
  /\ \/ responses' = Append(responses, session[u]) /\ UNCHANGED lost
     \/ lost' = lost \union {session[u]} /\ UNCHANGED responses
  /\ \/ Move(u, "pop")
     \/ Move(u, "ended")
  /\ Take(u, NoTxn)
  /\ UNCHANGED <<relayVars, inbound, responded, kills>>

\* The plugin is killed: the request it handles goes with it, and the response.
Stop(u) ==
  /\ plugin[u] \in {"pop", "session", "rpush"}
  /\ lost' = IF plugin[u] = "rpush" THEN lost \union {session[u]} ELSE lost
  /\ Move(u, "ended")
  /\ Take(u, NoTxn)
  /\ UNCHANGED <<relayVars, inbound, responses, responded, faults, kills>>

-----------------------------------------------------------------------------

Handling(t) == Post(t) \/ Connect(t) \/ Push(t) \/ Look(t)

Plugin(u) ==
  \/ Start(u) \/ Pop(u) \/ Respond(u) \/ RespondNothing(u) \/ ParseError(u)
  \/ RPush(u) \/ RPushError(u) \/ Stop(u)

Next ==
  \/ \E t \in Txn : Handling(t) \/ PushError(t) \/ RouteError(t)
  \/ \E r \in Relay : Kill(r)
  \/ \E h \in Handler : Listen(h)
  \/ ListenError
  \/ \E u \in Uid : Plugin(u)

Spec == Init /\ [][Next]_vars

(* A request's coroutine runs, and its timeout runs out.  No request need come *)
(* and no plugin need start, stay or respond.                                  *)
Fairness == \A t \in Txn : WF_vars(Push(t) \/ Look(t))

FairSpec == Spec /\ Fairness

-----------------------------------------------------------------------------
(* Properties *)

\* The shape of the state.  In particular a request that waits finds an entry
\* in its map, so that the timeout of 15 seconds never runs out, also next to
\* relays that are killed.
TypeOK ==
  /\ client \in [Txn -> {"new", "push", "look", "answered", "empty", "failed"}]
  /\ map \in [Handler -> [Txn -> {"absent", "request", "response"}]]
  /\ inbound \in Seq(Txn)
  /\ plugin \in [Uid -> {"off", "pop", "session", "rpush", "ended"}]
  /\ session \in [Uid -> Txn \union {NoTxn}]
  /\ \A u \in Uid : plugin[u] \in {"session", "rpush"} => session[u] \in Txn
  /\ responses \in Seq(Txn)
  /\ responded \subseteq Txn
  /\ lost \subseteq Txn
  /\ faults \in Nat
  /\ kills \in Nat
  /\ \A t \in Txn : client[t] \in {"push", "look"} => Entry(t) # "absent"

\* A client is answered only with what the agent's session gave for its own
\* message, however responses, repeated messages and handlers interleave.
AnsweredMeansResponded ==
  \A t \in Txn : client[t] = "answered" => t \in responded

Listed(t) == \E i \in DOMAIN responses : responses[i] = t

\* A response does not vanish, although requests and responses are written to
\* the same entries: it is with a plugin, in the list or in the map of some
\* handler, not always the one that needs it, unless a Redis error or the kill
\* of a plugin or a relay took it along.
ResponsesKept ==
  \A t \in responded :
    \/ \E u \in Uid : plugin[u] = "rpush" /\ session[u] = t
    \/ Listed(t)
    \/ \E h \in Handler : map[h][t] = "response"
    \/ t \in lost


(* What relay.py says of itself, and does not do.                            *)

\* relay.py:96, "Get direct_response for a specific transaction/request.": what
\* get_direct_responses returns is a response.
GetsTheResponse ==
  [][\A t \in Txn : client[t] = "look" /\ client'[t] # "look" /\ kills' = kills =>
       Entry(t) = "response"]_vars
=============================================================================
