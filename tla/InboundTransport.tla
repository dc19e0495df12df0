-------------------------- MODULE InboundTransport --------------------------
(***************************************************************************)
(* redis_queue/v1_0/inbound.py, RedisInboundTransport.start, composed with *)
(* the handlers of module Sharding through the Redis hashes and lists they *)
(* share.  Each plugin instance registers its uid once and then polls the  *)
(* inbound lists of the recipient keys listed for it.                      *)
(***************************************************************************)
EXTENDS Sharding

CONSTANTS
  Mortal,  \* the plugins that may stop
  NoMsg    \* empty hands

ASSUME TransportAssumption == Mortal \subseteq Uid /\ NoMsg \notin Msg

VARIABLES
  phase,     \* per plugin, the next Redis command it sends
  todo,      \* per plugin, the keys its for loop has still to poll
  hand,      \* per plugin, the message popped and not yet handled
  seen,      \* per plugin, the pending count it read
  received,  \* per message, how often session.receive was given it
  lost       \* messages of which a popped copy was dropped

pluginVars == <<phase, todo, hand, seen, received, lost>>
vars == <<shardingVars, pluginVars>>

Busy == {"touch", "readCount", "writeCount", "receive"}
Phases == {"off", "fetch", "pop", "dead"} \union Busy

Init ==
  /\ ShardingInit
  /\ phase = [u \in Uid |-> "off"]
  /\ todo = [u \in Uid |-> {}]
  /\ hand = [u \in Uid |-> NoMsg]
  /\ seen = [u \in Uid |-> 0]
  /\ received = [m \in Msg |-> 0]
  /\ lost = {}

-----------------------------------------------------------------------------
(* RedisInboundTransport.start *)

Move(u, p) == phase' = [phase EXCEPT ![u] = p]

\* The phase after a key of the loop is done with: keys are those left.
NextKey(u, keys) == Move(u, IF keys = {} THEN "fetch" ELSE "pop")

\* HSET uid_recip_keys_map of a fresh uid, with an empty list.
Register(u) ==
  /\ phase[u] = "off"
  /\ HSetKeys(u, {})
  /\ Move(u, "fetch")
  /\ UNCHANGED <<recipKeyUid, pending, lastAccess, queue, pc, loc, faults,
                 todo, hand, seen, received, lost>>

\* HGET uid_recip_keys_map.  A plugin whose field was removed reads nothing,
\* sleeps and asks again: it never registers a second time.
Fetch(u) ==
  /\ phase[u] = "fetch"
  /\ recipKeys[u] # {}
  /\ todo' = [todo EXCEPT ![u] = recipKeys[u]]
  /\ Move(u, "pop")
  /\ UNCHANGED <<shardingVars, hand, seen, received, lost>>

\* BLPOP of the list of a key, with a timeout.
Popped_Peek(q) == q
Popped(q) == Tail(q)
Pop(u) ==
  /\ phase[u] = "pop"
  /\ \E k \in todo[u] :
       /\ todo' = [todo EXCEPT ![u] = @ \ {k}]
       /\ \/ /\ queue[k] # <<>>
             /\ hand' = [hand EXCEPT ![u] = Head(queue[k])]
             /\ queue' = [queue EXCEPT ![k] = Popped(@)]
             /\ Move(u, "touch")
          \/ /\ queue[k] = <<>>
             /\ NextKey(u, todo[u] \ {k})
             /\ UNCHANGED <<hand, queue>>
  /\ UNCHANGED <<maps, pending, lastAccess, pc, loc, faults, seen, received, lost>>

\* BLPOP was applied but its answer was lost: start sleeps and pops again.
PopError(u) ==
  /\ phase[u] = "pop"
  /\ Fault
  /\ \E k \in todo[u] :
       /\ queue[k] # <<>>
       /\ lost' = lost \union {Head(queue[k])}
       /\ queue' = [queue EXCEPT ![k] = Tail(@)]
  /\ UNCHANGED <<maps, pending, lastAccess, pc, loc, phase, todo, hand, seen,
                 received>>

\* HSET uid_last_access_map, only ever after a message was popped.
Touch(u) ==
  /\ phase[u] = "touch"
  /\ lastAccess' = [lastAccess EXCEPT ![u] = "fresh"]
  /\ Move(u, "readCount")
  /\ UNCHANGED <<maps, pending, queue, pc, loc, faults,
                 todo, hand, seen, received, lost>>

\* HGET uid_recip_key_pending_msg_count.
Counted_Always(n) == TRUE
Counted(n) == n >= 1
ReadCount(u) ==
  LET n == pending[u][KeyOf[hand[u]]] IN
  /\ phase[u] = "readCount"
  /\ seen' = [seen EXCEPT ![u] = n]
  /\ Move(u, IF Counted(n) THEN "writeCount" ELSE "receive")
  /\ UNCHANGED <<shardingVars, todo, hand, received, lost>>

\* HSET of the count read before, less one.
WriteCount(u) ==
  /\ phase[u] = "writeCount"
  /\ pending' = [pending EXCEPT ![u][KeyOf[hand[u]]] = seen[u] - 1]
  /\ seen' = [seen EXCEPT ![u] = 0]
  /\ Move(u, "receive")
  /\ UNCHANGED <<maps, lastAccess, queue, pc, loc, faults,
                 todo, hand, received, lost>>

\* create_session and session.receive; a message that does not parse is logged
\* and the loop goes on.
Receive(u) ==
  /\ phase[u] = "receive"
  /\ received' = [received EXCEPT ![hand[u]] = @ + 1]
  /\ hand' = [hand EXCEPT ![u] = NoMsg]
  /\ seen' = [seen EXCEPT ![u] = 0]
  /\ NextKey(u, todo[u])
  /\ UNCHANGED <<shardingVars, todo, lost>>

\* The process stops, or an exception ends start: the popped message goes with
\* it, and everything the plugin wrote to Redis stays.
Die(u) ==
  /\ u \in Mortal
  /\ phase[u] \notin {"off", "dead"}
  /\ lost' = lost \union ({hand[u]} \ {NoMsg})
  /\ Move(u, "dead")
  /\ todo' = [todo EXCEPT ![u] = {}]
  /\ hand' = [hand EXCEPT ![u] = NoMsg]
  /\ seen' = [seen EXCEPT ![u] = 0]
  /\ UNCHANGED <<shardingVars, received>>

\* Fifteen seconds pass without a message for the plugin, on the clock of the
\* handler that asks next; or its clock is behind that of the one before it.
Age(u) ==
  /\ \E age \in {"fresh", "stale"} \ {lastAccess[u]} :
       lastAccess[u] # "none" /\ lastAccess' = [lastAccess EXCEPT ![u] = age]
  /\ UNCHANGED <<maps, pending, queue, pc, loc, faults, pluginVars>>

PluginStep(u) ==
  \/ Register(u) \/ Fetch(u) \/ Pop(u) \/ Touch(u) \/ ReadCount(u)
  \/ WriteCount(u) \/ Receive(u)

-----------------------------------------------------------------------------

Handler(m) == Arrive(m) \/ HandlerStep(m) \/ HandlerFault(m)
Plugin(u) == PluginStep(u) \/ PopError(u) \/ Die(u) \/ Age(u)

Next ==
  \/ \E m \in Msg : Handler(m) /\ UNCHANGED pluginVars
  \/ \E u \in Uid : Plugin(u)

Spec == Init /\ [][Next]_vars

(* A coroutine whose command Redis answered is resumed by the event loop, and *)
(* a plugin that is not dead keeps polling.  Messages need not come, nothing  *)
(* need fail and no clock need run out.                                       *)
Fairness ==
  /\ \A m \in Msg : WF_vars(HandlerStep(m) /\ UNCHANGED pluginVars)
  /\ \A u \in Uid : WF_vars(PluginStep(u))

FairSpec == Spec /\ Fairness

(* The handlers that assign keys: from the HEXISTS that finds no plugin to the *)
(* HSET of its list, and from the list read for a stale plugin to the HDEL.    *)
AssigningPcs == {"assign", "map", "list", "append", "probe", "updated", "remove"}
                \union ReassignPcs
Assigning == {m \in Msg : pc[m] \in AssigningPcs}

\* Nothing in the code sees to it.
AssignsAlone == \A m, n \in Assigning : m = n

\* The behaviours in which assignments happen not to overlap.  Handlers do:
\* those that look a key up, count and push run next to one that assigns.
SerialSpec == Init /\ [][Next /\ AssignsAlone']_vars

-----------------------------------------------------------------------------
(* Properties *)

Locals == [uid : Uid \union {NoUid}, new : Uid \union {NoUid},
           old : Uid \union {NoUid}, cur : Key \union {NoKey},
           todo : SUBSET Key, assigned : SUBSET Key, oldKeys : SUBSET Key,
           newKeys : SUBSET Key, count : Int]

\* The locals l that a handler at p is about to use are set.
LocalsOK(p, l) ==
  /\ p \in UidPcs => l.uid \in Uid
  /\ p \in OldPcs => l.old \in Uid
  /\ p \in NewPcs => l.new \in Uid /\ l.cur \in Key

\* The shape of the shared hashes, of the handlers and of the plugins: no
\* handler gets past the choice of a plugin without one (get_new_valid_uid).
TypeOK ==
  /\ recipKeyUid \in [Key -> Uid \union {NoUid}]
  /\ registered \subseteq Uid
  /\ recipKeys \in [Uid -> SUBSET Key]
  /\ pending \in [Uid -> [Key -> Int]]
  /\ lastAccess \in [Uid -> {"none", "fresh", "stale"}]
  /\ queue \in [Key -> Seq(Msg)]
  /\ pc \in [Msg -> Pcs]
  /\ loc \in [Msg -> Locals]
  /\ faults \in Nat
  /\ phase \in [Uid -> Phases]
  /\ todo \in [Uid -> SUBSET Key]
  /\ hand \in [Uid -> Msg \union {NoMsg}]
  /\ seen \in [Uid -> Int]
  /\ received \in [Msg -> Nat]
  /\ \A m \in Msg : LocalsOK(pc[m], loc[m])
  /\ \A u \in Uid : phase[u] \in Busy => hand[u] \in Msg
  /\ lost \subseteq Msg

\* However the handlers' increments, resets and carried counts interleave with
\* the plugin's read-then-write decrement, no pending count goes below zero.
PendingNonNegative == \A u \in Uid, k \in Key : pending[u][k] >= 0

\* A key that a plugin is told to poll is one the map assigns to somebody, even
\* while lists read long ago are written back.
ListedKeysAreMapped ==
  \A u \in Uid : \A k \in recipKeys[u] : recipKeyUid[k] # NoUid

Copies(k) == {queue[k][i] : i \in DOMAIN queue[k]}

\* A message waits only on a list of its own key, and a key with messages
\* waiting is assigned to a plugin.
QueuedKeysAreMapped ==
  \A k \in Key : \A m \in Copies(k) : KeyOf[m] = k /\ recipKeyUid[k] # NoUid

Accounted(m) ==
  \/ m \in Copies(KeyOf[m])
  \/ \E u \in Uid : hand[u] = m
  \/ received[m] > 0
  \/ m \in lost

\* A message whose push was acknowledged still waits in Redis, is in the hands
\* of a plugin, was received, or was dropped with a plugin that stopped:
\* whatever errors the handlers met on the way.
AcceptedIsAccountedFor == \A m \in Msg : pc[m] = "done" => Accounted(m)

\* The abstract view of a run in which Redis does not fail.
Contract == INSTANCE InboundContract WITH
  accepted <- {m \in Msg : pc[m] = "done"},
  deliveries <- received,
  dropped <- lost

\* At most one delivery of an accepted message, and a drop only with a crash.
ImplementsContract == Contract!Spec

(* These two hold as long as assignments do not overlap.                     *)

\* While no handler assigns, every assigned key is polled by exactly the plugin
\* the map names.
OneOwner ==
  Assigning = {} =>
    \A k \in Key, u \in Uid : k \in recipKeys[u] <=> recipKeyUid[k] = u

\* The plugins known to the handlers never run out, although every handler
\* that finds a stale one may remove it, while others register.
RegistryNeverEmpties == [][registered # {} => registered' # {}]_vars

(* The rest hold of handlers that run one after the other.                  *)

\* With plugins that do not stop, the inbound path delivers what it accepts,
\* however often a handler takes a plugin that is silent for a stopped one.
DeliversAccepted == [](\A u \in Uid : phase[u] # "dead") => Contract!Fairness

\* Every handler finds a plugin for its key and finishes, although
\* get_new_valid_uid waits for as long as HKEYS is empty.
HandlersFinish ==
  \A m \in Msg : m \in InFlight ~> pc[m] = "done"

\* Failover: a handler that has found the plugin of its key stopped and silent
\* since some message, with a message counted as pending, has its own message
\* delivered, if the others are there to take over.
StoppedOwner(m) ==
  LET u == loc[m].uid IN
  /\ pc[m] = "assigned"
  /\ phase[u] = "dead"
  /\ lastAccess[u] # "none"
  /\ pending[u][KeyOf[m]] >= 1
  /\ registered \ {u} # {}
  /\ (registered \ {u}) \intersect Mortal = {}

FailoverDelivers ==
  \A m \in Msg : StoppedOwner(m) ~> received[m] > 0
=============================================================================
