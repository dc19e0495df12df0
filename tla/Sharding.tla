------------------------------ MODULE Sharding ------------------------------
(***************************************************************************)
(* redis_queue/v1_0/utils.py and its callers.                              *)
(*                                                                         *)
(* Every inbound DIDComm message is handled by one coroutine (a relay      *)
(* request handler, or a mediator's handle_message) that runs              *)
(* process_payload_recip_key and then pushes the message on the Redis list *)
(* of its recipient key.  The coroutines share nothing but Redis, and each *)
(* Redis command is one atomic step, so one action below is one command    *)
(* together with the local code up to the next one.  Handlers are named by *)
(* the message they carry.                                                 *)
(***************************************************************************)
EXTENDS Integers, Sequences, FiniteSets

CONSTANTS
  Msg,          \* inbound messages, one handler coroutine each
  Key,          \* recipient keys
  KeyOf,        \* the recipient key in the header of each message
  Uid,          \* plugin instances: a restarted plugin takes a new one
  NoUid, NoKey, \* Python's None
  Relay,        \* TRUE: a relay, which retries a failed push; FALSE: a mediator
  MaxInFlight,  \* bound: handlers running at the same time
  MaxFaults     \* bound: Redis errors raised to the handlers

ASSUME ShardingAssumption ==
  /\ KeyOf \in [Msg -> Key]
  /\ NoUid \notin Uid
  /\ NoKey \notin Key
  /\ Relay \in BOOLEAN
  /\ MaxInFlight \in Nat
  /\ MaxFaults \in Nat

VARIABLES
  recipKeyUid,  \* hash recip_key_uid_map: the uid each key is assigned to
  registered,   \* the fields (HKEYS) of the hash uid_recip_keys_map
  recipKeys,    \* its values: the keys listed for each uid, {} if absent
  pending,      \* hash uid_recip_key_pending_msg_count; absent is 0
  lastAccess,   \* hash uid_last_access_map, as its age: see Stale
  queue,        \* the inbound lists, one per recipient key
  pc,           \* per handler, the next Redis command it sends
  loc,          \* per handler, the local variables of the coroutine
  faults        \* Redis errors raised so far

maps == <<recipKeyUid, registered, recipKeys>>
redis == <<maps, pending, lastAccess, queue>>
shardingVars == <<redis, pc, loc, faults>>

ReassignPcs == {"pick", "readOld", "readNew", "drop", "count", "forget",
                "remap", "add", "carry"}
PayloadPcs == {"assign", "map", "list", "append", "zero", "access", "assigned",
               "probe", "updated", "remove", "incr"} \union ReassignPcs
InFlightPcs == PayloadPcs \union {"retry", "push"}
Pcs == InFlightPcs \union {"idle", "done", "failed"}

\* From where on plugin_uid is set, old_uid is, and so are new_uid and recip_key.
UidPcs == InFlightPcs \ {"assign", "retry"}
OldPcs == ReassignPcs \union {"probe", "updated", "remove"}
NewPcs == ReassignPcs \ {"pick"}

InFlight == {m \in Msg : pc[m] \in InFlightPcs}

(* plugin_uid and old_uid, new_uid and recip_key of the reassignment loop,  *)
(* the keys it has left, the uid lists read from uid_recip_keys_map and the *)
(* count taken from the old uid.                                            *)
NoLocals == [uid |-> NoUid, new |-> NoUid, old |-> NoUid, cur |-> NoKey,
             todo |-> {}, assigned |-> {}, oldKeys |-> {}, newKeys |-> {},
             count |-> 0]

ShardingInit ==
  /\ recipKeyUid = [k \in Key |-> NoUid]
  /\ registered = {}
  /\ recipKeys = [u \in Uid |-> {}]
  /\ pending = [u \in Uid |-> [k \in Key |-> 0]]
  /\ lastAccess = [u \in Uid |-> "none"]
  /\ queue = [k \in Key |-> <<>>]
  /\ pc = [m \in Msg |-> "idle"]
  /\ loc = [m \in Msg |-> NoLocals]
  /\ faults = 0

-----------------------------------------------------------------------------
(* Helpers *)

Goto(m, p) == pc' = [pc EXCEPT ![m] = p]
SetLocals(m, l) == loc' = [loc EXCEPT ![m] = l]

\* Of the locals, only the chosen uid is still of use.
Chosen(u) == [NoLocals EXCEPT !.uid = u]

\* Between two rounds of the reassignment loop: old_uid and the keys left, too.
Looping(u, o, keys) == [NoLocals EXCEPT !.uid = u, !.old = o, !.todo = keys]

\* A handler that only reads Redis: it stores locals l and moves to p.
Read(m, p, l) == Goto(m, p) /\ SetLocals(m, l) /\ UNCHANGED <<redis, faults>>

\* HSET recip_key_uid_map k u.
HSetUid_Dropped(k, u) == UNCHANGED recipKeyUid
HSetUid(k, u) == recipKeyUid' = [recipKeyUid EXCEPT ![k] = u]

\* HSET uid_recip_keys_map u ks: a field that was absent is created.
HSetKeys_NotEmpty(u, ks) ==
  /\ registered' = IF ks = {} THEN registered ELSE registered \union {u}
  /\ recipKeys' = [recipKeys EXCEPT ![u] = ks]
HSetKeys(u, ks) ==
  /\ registered' = registered \union {u}
  /\ recipKeys' = [recipKeys EXCEPT ![u] = ks]

\* HINCRBY uid_recip_key_pending_msg_count.
AddPending(u, k, n) == pending' = [pending EXCEPT ![u][k] = @ + n]

\* process_payload_recip_key's staleness test: no access recorded, or one that
\* is 15 seconds old or more.
Stale(u) == lastAccess[u] # "fresh"

\* The uids get_new_valid_uid may return: HKEYS without the one to ignore,
\* unless it is the only one.  HKEYS promises no order, so the element at
\* round_robin_iterator can be any of them (module RoundRobin has the index).
Candidates_NoneIfEmpty(uids, ignore) ==
  IF uids = {} THEN {NoUid} ELSE uids
Candidates_Ignored(uids, ignore) == uids
Candidates(uids, ignore) ==
  IF uids \subseteq {ignore} THEN uids ELSE uids \ {ignore}

\* The lists written back for a uid that receives a key, and one that loses it.
WithKey_Forgotten(keys, k) == keys
WithKey(keys, k) == keys \union {k}
WithoutKey_Kept(keys, k) == keys
WithoutKey(keys, k) == keys \ {k}

-----------------------------------------------------------------------------
(* process_payload_recip_key, up to the staleness test *)

\* HEXISTS and HGET recip_key_uid_map.  One step: a key is never removed from
\* that hash, so the two answers agree.
Lookup(m) ==
  LET u == recipKeyUid[KeyOf[m]] IN
  Read(m, IF u = NoUid THEN "assign" ELSE "access", Chosen(u))

\* A message reaches a handler.
Arrive(m) ==
  /\ pc[m] = "idle"
  /\ Cardinality(InFlight) < MaxInFlight
  /\ Lookup(m)

\* A relay whose push failed starts again.
Retry(m) == pc[m] = "retry" /\ Lookup(m)

\* assign_recip_key_to_new_uid: get_new_valid_uid, which waits for a plugin.
PickForAssign(m) ==
  /\ pc[m] = "assign"
  /\ \E u \in Candidates(registered, NoUid) :
       Read(m, "map", [loc[m] EXCEPT !.uid = u])

\* HSET recip_key_uid_map.
MapKey(m) ==
  /\ pc[m] = "map"
  /\ HSetUid(KeyOf[m], loc[m].uid)
  /\ Goto(m, "list")
  /\ UNCHANGED <<registered, recipKeys, pending, lastAccess, queue, loc, faults>>

\* get_recip_keys_list_for_uid of the new uid.
ReadList(m) ==
  LET keys == recipKeys[loc[m].uid] IN
  /\ pc[m] = "list"
  /\ Read(m, IF KeyOf[m] \in keys THEN "zero" ELSE "append",
             [loc[m] EXCEPT !.newKeys = keys])

\* HSET uid_recip_keys_map with the list read before plus the key.
AppendKey(m) ==
  /\ pc[m] = "append"
  /\ HSetKeys(loc[m].uid, WithKey(loc[m].newKeys, KeyOf[m]))
  /\ Goto(m, "zero")
  /\ UNCHANGED <<recipKeyUid, pending, lastAccess, queue, loc, faults>>

\* HSET uid_recip_key_pending_msg_count 0.
ZeroCount(m) ==
  /\ pc[m] = "zero"
  /\ pending' = [pending EXCEPT ![loc[m].uid][KeyOf[m]] = 0]
  /\ Goto(m, "access")
  /\ UNCHANGED <<maps, lastAccess, queue, loc, faults>>

-----------------------------------------------------------------------------
(* The staleness test *)

\* HGET uid_last_access_map.
CheckAccess(m) ==
  /\ pc[m] = "access"
  /\ Read(m, IF Stale(loc[m].uid) THEN "assigned" ELSE "incr",
             Chosen(loc[m].uid))

\* get_recip_keys_list_for_uid of the stale uid.
ReadAssigned(m) ==
  LET keys == recipKeys[loc[m].uid] IN
  /\ pc[m] = "assigned"
  /\ IF keys = {}
     THEN Read(m, "incr", loc[m])
     ELSE Read(m, "probe", [loc[m] EXCEPT !.old = loc[m].uid,
                                          !.assigned = keys, !.todo = keys])

\* One round of the loop over the list: HGET the pending count of a key, and
\* break at the first that is positive.  The list order is that of a Python set.
Probe(m) ==
  /\ pc[m] = "probe"
  /\ \E k \in loc[m].todo :
       LET rest == loc[m].todo \ {k} IN
       IF pending[loc[m].old][k] >= 1
       THEN Read(m, "pick", Looping(loc[m].uid, loc[m].old, loc[m].assigned))
       ELSE IF rest = {}
       THEN Read(m, "incr", Chosen(loc[m].uid))
       ELSE Read(m, "probe", [loc[m] EXCEPT !.todo = rest])

-----------------------------------------------------------------------------
(* The reassignment loop: reassign_recip_key_to_uid for every listed key *)

PickForReassign(m) ==
  /\ pc[m] = "pick"
  /\ \E u \in Candidates(registered, loc[m].old), k \in loc[m].todo :
       Read(m, "readOld", [loc[m] EXCEPT !.new = u, !.cur = k])

ReadOldKeys(m) ==
  /\ pc[m] = "readOld"
  /\ Read(m, "readNew", [loc[m] EXCEPT !.oldKeys = recipKeys[loc[m].old]])

ReadNewKeys(m) ==
  /\ pc[m] = "readNew"
  /\ Read(m, "drop", [loc[m] EXCEPT !.newKeys = recipKeys[loc[m].new]])

\* HSET uid_recip_keys_map of the old uid, without the key.
DropFromOld(m) ==
  /\ pc[m] = "drop"
  /\ HSetKeys(loc[m].old, WithoutKey(loc[m].oldKeys, loc[m].cur))
  /\ Goto(m, "count")
  /\ SetLocals(m, [loc[m] EXCEPT !.oldKeys = {}])
  /\ UNCHANGED <<recipKeyUid, pending, lastAccess, queue, faults>>

\* HGET, then HDEL, of the old pending count: two commands.
TakeCount(m) ==
  /\ pc[m] = "count"
  /\ Read(m, "forget", [loc[m] EXCEPT !.count = pending[loc[m].old][loc[m].cur]])

ForgetCount(m) ==
  /\ pc[m] = "forget"
  /\ pending' = [pending EXCEPT ![loc[m].old][loc[m].cur] = 0]
  /\ Goto(m, "remap")
  /\ UNCHANGED <<maps, lastAccess, queue, loc, faults>>

Remap(m) ==
  /\ pc[m] = "remap"
  /\ HSetUid(loc[m].cur, loc[m].new)
  /\ Goto(m, "add")
  /\ UNCHANGED <<registered, recipKeys, pending, lastAccess, queue, loc, faults>>

\* HSET uid_recip_keys_map of the new uid, from the list read three writes ago.
AddToNew(m) ==
  /\ pc[m] = "add"
  /\ HSetKeys(loc[m].new, WithKey(loc[m].newKeys, loc[m].cur))
  /\ Goto(m, "carry")
  /\ UNCHANGED <<recipKeyUid, pending, lastAccess, queue, loc, faults>>

\* HINCRBY the new count by the old one; on to the next key of the loop.
CarryCount(m) ==
  LET l == loc[m]
      rest == l.todo \ {l.cur}
  IN
  /\ pc[m] = "carry"
  /\ AddPending(l.new, l.cur, l.count)
  /\ SetLocals(m, Looping(IF l.cur = KeyOf[m] THEN l.new ELSE l.uid, l.old, rest))
  /\ Goto(m, IF rest = {} THEN "updated" ELSE "pick")
  /\ UNCHANGED <<maps, lastAccess, queue, faults>>

\* After the loop: read the old uid's list again, and remove the uid if it is
\* empty.
MustRemove_Always(keys) == TRUE
MustRemove(keys) == keys = {}

ReadUpdated(m) ==
  /\ pc[m] = "updated"
  /\ Read(m, IF MustRemove(recipKeys[loc[m].old]) THEN "remove" ELSE "incr", loc[m])

\* HDEL uid_recip_keys_map.
RemoveUid(m) ==
  /\ pc[m] = "remove"
  /\ registered' = registered \ {loc[m].old}
  /\ recipKeys' = [recipKeys EXCEPT ![loc[m].old] = {}]
  /\ Goto(m, "incr")
  /\ UNCHANGED <<recipKeyUid, pending, lastAccess, queue, loc, faults>>

-----------------------------------------------------------------------------
(* The count and the push *)

\* HINCRBY uid_recip_key_pending_msg_count 1.
Increment(m) ==
  /\ pc[m] = "incr"
  /\ AddPending(loc[m].uid, KeyOf[m], 1)
  /\ Goto(m, "push")
  /\ UNCHANGED <<maps, lastAccess, queue, loc, faults>>

RPush(m) == queue' = [queue EXCEPT ![KeyOf[m]] = Append(@, m)]

Push(m) ==
  /\ pc[m] = "push"
  /\ RPush(m)
  /\ Goto(m, "done")
  /\ SetLocals(m, NoLocals)
  /\ UNCHANGED <<maps, pending, lastAccess, faults>>

\* RPUSH raises: a relay sleeps and runs process_payload_recip_key again, a
\* mediator logs the error and gives the message up.
AfterPushError_MarkSent == "done"
AfterPushError == IF Relay THEN "retry" ELSE "failed"

Fault == faults < MaxFaults /\ faults' = faults + 1

\* The command did not reach Redis, or Redis applied it and the answer was lost.
PushError(m) ==
  /\ pc[m] = "push"
  /\ Fault
  /\ \/ RPush(m)
     \/ UNCHANGED queue
  /\ Goto(m, AfterPushError)
  /\ SetLocals(m, NoLocals)
  /\ UNCHANGED <<maps, pending, lastAccess>>

\* Any other command raises: process_payload_recip_key is outside the try of
\* its callers, so the request fails where it stands.  An error after the
\* command was applied is the command's own step and an error at the next one,
\* except after the last.
RedisError(m) ==
  /\ pc[m] \in PayloadPcs
  /\ Fault
  /\ \/ UNCHANGED pending
     \/ pc[m] = "incr" /\ AddPending(loc[m].uid, KeyOf[m], 1)
  /\ Goto(m, "failed")
  /\ SetLocals(m, NoLocals)
  /\ UNCHANGED <<maps, lastAccess, queue>>

-----------------------------------------------------------------------------

Reassign(m) ==
  \/ PickForReassign(m) \/ ReadOldKeys(m) \/ ReadNewKeys(m) \/ DropFromOld(m)
  \/ TakeCount(m) \/ ForgetCount(m) \/ Remap(m) \/ AddToNew(m) \/ CarryCount(m)

Assign(m) ==
  \/ PickForAssign(m) \/ MapKey(m) \/ ReadList(m) \/ AppendKey(m) \/ ZeroCount(m)

\* Everything a handler does when Redis answers.
HandlerStep(m) ==
  \/ Retry(m) \/ Assign(m) \/ CheckAccess(m) \/ ReadAssigned(m) \/ Probe(m)
  \/ Reassign(m) \/ ReadUpdated(m) \/ RemoveUid(m) \/ Increment(m) \/ Push(m)

HandlerFault(m) == PushError(m) \/ RedisError(m)
=============================================================================
