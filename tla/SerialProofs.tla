---------------------------- MODULE SerialProofs ----------------------------
(* What InboundTransport keeps when the assignments of its handlers do not     *)
(* overlap, whatever their other steps interleave with: who polls a key, and   *)
(* which plugins are known.                                                    *)
EXTENDS InboundProofs

-----------------------------------------------------------------------------
(* Plugins that have registered *)

Known == {u \in Uid : phase[u] # "off"}

LocalsKnown(p, l) ==
  /\ p \in UidPcs => l.uid \in Known
  /\ p \in OldPcs => l.old \in Known
  /\ p \in NewPcs => l.new \in Known

\* A plugin that has keys has a field; and whoever is named by a field, a key or
\* a handler has registered.
HoldersOK ==
  /\ \A u \in Uid : recipKeys[u] # {} => u \in registered
  /\ registered \subseteq Known
  /\ \A k \in Key : recipKeyUid[k] # NoUid => recipKeyUid[k] \in Known
  /\ \A m \in Msg : LocalsKnown(pc[m], loc[m])

\* A handler moves on with locals that name known plugins.
LEMMA KnownStep ==
  ASSUME TypeOK, HoldersOK, UNCHANGED phase, NEW m \in Msg, NEW p, NEW l,
         Goto(m, p), SetLocals(m, l), LocalsKnown(p, l)
  PROVE  \A n \in Msg : LocalsKnown(pc[n], loc[n])'
<1>1. Known' = Known
  BY DEF Known
<1>2. \A n \in Msg : LocalsKnown(pc'[n], loc'[n])
  BY DEF TypeOK, HoldersOK, Goto, SetLocals
<1> QED
  BY <1>1, <1>2 DEF LocalsKnown

\* The writes to the two maps.
LEMMA HSetKeysKnown ==
  ASSUME TypeOK, HoldersOK, UNCHANGED phase, NEW u \in Known, NEW keys, HSetKeys(u, keys)
  PROVE  /\ \A v \in Uid : recipKeys'[v] # {} => v \in registered'
         /\ registered' \subseteq Known'
BY DEF TypeOK, HoldersOK, HSetKeys, Known

LEMMA HSetUidKnown ==
  ASSUME TypeOK, HoldersOK, UNCHANGED phase, NEW k \in Key, NEW u \in Known, HSetUid(k, u)
  PROVE  \A j \in Key : recipKeyUid'[j] # NoUid => recipKeyUid'[j] \in Known'
BY DEF TypeOK, HoldersOK, HSetUid, Known

LEMMA HoldersHandler ==
  ASSUME TypeOK, HoldersOK, NEW m \in Msg, Handler(m), UNCHANGED pluginVars
  PROVE  HoldersOK'
<1> DEFINE l == loc[m]
<1>a. /\ l \in Locals /\ KeyOf[m] \in Key /\ LocalsOK(pc[m], l) /\ LocalsKnown(pc[m], l)
      /\ Known' = Known /\ phase' = phase
  BY ShardingAssumption DEF TypeOK, HoldersOK, Known, pluginVars
<1>b. SetLocals(m, l) <=> UNCHANGED loc
  BY DEF SetLocals, TypeOK
<1> USE DEF UidPcs, NewPcs, OldPcs, InFlightPcs, PayloadPcs, ReassignPcs
<1>c. ASSUME \E p, k : Goto(m, p) /\ SetLocals(m, k) /\ LocalsKnown(p, k),
             UNCHANGED maps
      PROVE  HoldersOK'
  <2>1. \A n \in Msg : LocalsKnown(pc[n], loc[n])'
    BY <1>a, <1>c, KnownStep
  <2> QED
    BY <1>a, <1>c, <2>1 DEF HoldersOK, maps
<1>1. CASE Arrive(m) \/ Retry(m)
  <2> DEFINE u == recipKeyUid[KeyOf[m]]
  <2>1. Read(m, IF u = NoUid THEN "assign" ELSE "access", Chosen(u))
    BY <1>1 DEF Arrive, Retry, Lookup
  <2>2. Chosen(u).uid = u
    BY DEF Chosen, NoLocals
  <2>3. LocalsKnown(IF u = NoUid THEN "assign" ELSE "access", Chosen(u))
    BY <1>a, <2>2 DEF HoldersOK, LocalsKnown
  <2> QED
    BY <1>c, <2>1, <2>3 DEF Read, redis
<1>2. CASE PickForAssign(m)
  <2>1. PICK u \in Candidates(registered, NoUid) : Read(m, "map", [l EXCEPT !.uid = u])
    BY <1>2 DEF PickForAssign
  <2>2. u \in Known
    BY CandidatesRegistered DEF HoldersOK
  <2>3. [l EXCEPT !.uid = u].uid = u
    BY <1>a DEF Locals
  <2>4. LocalsKnown("map", [l EXCEPT !.uid = u])
    BY <2>2, <2>3 DEF LocalsKnown
  <2> HIDE DEF l
  <2> QED
    BY <1>c, <2>1, <2>4 DEF Read, redis
<1>3. CASE MapKey(m)
  <2>1. l.uid \in Known /\ LocalsKnown("list", l)
    BY <1>3, <1>a DEF MapKey, LocalsKnown
  <2>2. \A j \in Key : recipKeyUid'[j] # NoUid => recipKeyUid'[j] \in Known'
    BY <1>3, <1>a, <2>1, HSetUidKnown DEF MapKey
  <2>3. \A n \in Msg : LocalsKnown(pc[n], loc[n])'
    BY <1>3, <1>a, <1>b, <2>1, KnownStep DEF MapKey
  <2> QED
    BY <1>3, <1>a, <2>2, <2>3 DEF MapKey, HoldersOK
<1>4. CASE ReadList(m)
  <2> DEFINE k == [l EXCEPT !.newKeys = recipKeys[l.uid]]
             p == IF KeyOf[m] \in recipKeys[l.uid] THEN "zero" ELSE "append"
  <2>1. k.uid = l.uid
    BY <1>a DEF Locals
  <2>2. LocalsKnown(p, k)
    BY <1>4, <1>a, <2>1 DEF ReadList, LocalsKnown
  <2>3. Read(m, p, k)
    BY <1>4 DEF ReadList
  <2> HIDE DEF k, p
  <2> QED
    BY <1>c, <2>2, <2>3 DEF Read, redis
<1>5. CASE AppendKey(m)
  <2>1. l.uid \in Known /\ LocalsKnown("zero", l)
    BY <1>5, <1>a DEF AppendKey, LocalsKnown
  <2>2. /\ \A v \in Uid : recipKeys'[v] # {} => v \in registered'
        /\ registered' \subseteq Known'
    BY <1>5, <1>a, <2>1, HSetKeysKnown DEF AppendKey
  <2>3. \A n \in Msg : LocalsKnown(pc[n], loc[n])'
    BY <1>5, <1>a, <1>b, <2>1, KnownStep DEF AppendKey
  <2> QED
    BY <1>5, <1>a, <2>2, <2>3 DEF AppendKey, HoldersOK
<1>6. CASE ZeroCount(m)
  <2>1. LocalsKnown("access", l)
    BY <1>6, <1>a DEF ZeroCount, LocalsKnown
  <2> QED
    BY <1>6, <1>b, <1>c, <2>1 DEF ZeroCount
<1>7. CASE CheckAccess(m)
  <2> DEFINE p == IF Stale(l.uid) THEN "assigned" ELSE "incr"
  <2>1. Chosen(l.uid).uid = l.uid
    BY DEF Chosen, NoLocals
  <2>2. LocalsKnown(p, Chosen(l.uid))
    BY <1>7, <1>a, <2>1 DEF CheckAccess, LocalsKnown
  <2>3. Read(m, p, Chosen(l.uid))
    BY <1>7 DEF CheckAccess
  <2> HIDE DEF p
  <2> QED
    BY <1>c, <2>2, <2>3 DEF Read, redis
<1>8. CASE ReadAssigned(m)
  <2> DEFINE k == [l EXCEPT !.old = l.uid, !.assigned = recipKeys[l.uid],
                            !.todo = recipKeys[l.uid]]
  <2>1. k.uid = l.uid /\ k.old = l.uid
    BY <1>a DEF Locals
  <2>2. LocalsKnown("incr", l) /\ LocalsKnown("probe", k)
    BY <1>8, <1>a, <2>1 DEF ReadAssigned, LocalsKnown
  <2>3. Read(m, "incr", l) \/ Read(m, "probe", k)
    BY <1>8 DEF ReadAssigned
  <2> HIDE DEF k, l
  <2> QED
    BY <1>c, <2>2, <2>3 DEF Read, redis
<1>9. CASE Probe(m)
  <2>1. PICK k \in l.todo :
          \/ Read(m, "pick", Looping(l.uid, l.old, l.assigned))
          \/ Read(m, "incr", Chosen(l.uid))
          \/ Read(m, "probe", [l EXCEPT !.todo = l.todo \ {k}])
    BY <1>9 DEF Probe
  <2> DEFINE k1 == Looping(l.uid, l.old, l.assigned)
             k2 == Chosen(l.uid)
             k3 == [l EXCEPT !.todo = l.todo \ {k}]
  <2>2. l.uid \in Known /\ l.old \in Known
    BY <1>9, <1>a DEF Probe, LocalsKnown
  <2>3. k1.uid = l.uid /\ k1.old = l.old
    BY DEF Looping, NoLocals
  <2>4. k2.uid = l.uid
    BY DEF Chosen, NoLocals
  <2>5. k3.uid = l.uid /\ k3.old = l.old
    BY <1>a DEF Locals
  <2>6. LocalsKnown("pick", k1) /\ LocalsKnown("incr", k2) /\ LocalsKnown("probe", k3)
    BY <2>2, <2>3, <2>4, <2>5 DEF LocalsKnown
  <2> HIDE DEF k1, k2, k3
  <2>7. Read(m, "pick", k1) \/ Read(m, "incr", k2) \/ Read(m, "probe", k3)
    BY <2>1 DEF k1, k2, k3
  <2> QED
    BY <1>c, <2>6, <2>7 DEF Read, redis
<1>10. CASE PickForReassign(m)
  <2>1. PICK u \in Candidates(registered, l.old), k \in l.todo :
          Read(m, "readOld", [l EXCEPT !.new = u, !.cur = k])
    BY <1>10 DEF PickForReassign
  <2> DEFINE k1 == [l EXCEPT !.new = u, !.cur = k]
  <2>2. u \in Known
    BY CandidatesRegistered DEF HoldersOK
  <2>3. k1.uid = l.uid /\ k1.old = l.old /\ k1.new = u
    BY <1>a DEF Locals
  <2>4. LocalsKnown("readOld", k1)
    BY <1>10, <1>a, <2>2, <2>3 DEF PickForReassign, LocalsKnown
  <2>5. Read(m, "readOld", k1)
    BY <2>1
  <2> HIDE DEF k1
  <2> QED
    BY <1>c, <2>4, <2>5 DEF Read, redis
<1>11. CASE ReadOldKeys(m) \/ ReadNewKeys(m) \/ TakeCount(m)
  <2>1. PICK p, k : /\ Read(m, p, k)
                    /\ p \in {"readNew", "drop", "forget"}
                    /\ k.uid = l.uid /\ k.old = l.old /\ k.new = l.new
    <3>1. CASE ReadOldKeys(m)
      BY <1>a, <3>1 DEF ReadOldKeys, Locals
    <3>2. CASE ReadNewKeys(m)
      BY <1>a, <3>2 DEF ReadNewKeys, Locals
    <3>3. CASE TakeCount(m)
      BY <1>a, <3>3 DEF TakeCount, Locals
    <3> QED
      BY <1>11, <3>1, <3>2, <3>3
  <2>2. pc[m] \in {"readOld", "readNew", "count"}
    BY <1>11 DEF ReadOldKeys, ReadNewKeys, TakeCount
  <2>3. LocalsKnown(p, k)
    BY <1>a, <2>1, <2>2 DEF LocalsKnown
  <2> QED
    BY <1>c, <2>1, <2>3 DEF Read, redis
<1>12. CASE DropFromOld(m)
  <2> DEFINE k == [l EXCEPT !.oldKeys = {}]
  <2>1. k.uid = l.uid /\ k.old = l.old /\ k.new = l.new
    BY <1>a DEF Locals
  <2>2. l.old \in Known /\ LocalsKnown("count", k)
    BY <1>12, <1>a, <2>1 DEF DropFromOld, LocalsKnown
  <2>3. /\ \A v \in Uid : recipKeys'[v] # {} => v \in registered'
        /\ registered' \subseteq Known'
    BY <1>12, <1>a, <2>2, HSetKeysKnown DEF DropFromOld
  <2>4. Goto(m, "count") /\ SetLocals(m, k)
    BY <1>12 DEF DropFromOld
  <2> HIDE DEF k
  <2>5. \A n \in Msg : LocalsKnown(pc[n], loc[n])'
    BY <1>a, <2>2, <2>4, KnownStep
  <2> QED
    BY <1>12, <1>a, <2>3, <2>5 DEF DropFromOld, HoldersOK
<1>13. CASE ForgetCount(m)
  <2>1. LocalsKnown("remap", l)
    BY <1>13, <1>a DEF ForgetCount, LocalsKnown
  <2> QED
    BY <1>13, <1>b, <1>c, <2>1 DEF ForgetCount
<1>14. CASE Remap(m)
  <2>1. l.new \in Known /\ l.cur \in Key /\ LocalsKnown("add", l)
    BY <1>14, <1>a DEF Remap, LocalsKnown, LocalsOK
  <2>2. \A j \in Key : recipKeyUid'[j] # NoUid => recipKeyUid'[j] \in Known'
    BY <1>14, <1>a, <2>1, HSetUidKnown DEF Remap
  <2>3. \A n \in Msg : LocalsKnown(pc[n], loc[n])'
    BY <1>14, <1>a, <1>b, <2>1, KnownStep DEF Remap
  <2> QED
    BY <1>14, <1>a, <2>2, <2>3 DEF Remap, HoldersOK
<1>15. CASE AddToNew(m)
  <2>1. l.new \in Known /\ LocalsKnown("carry", l)
    BY <1>15, <1>a DEF AddToNew, LocalsKnown
  <2>2. /\ \A v \in Uid : recipKeys'[v] # {} => v \in registered'
        /\ registered' \subseteq Known'
    BY <1>15, <1>a, <2>1, HSetKeysKnown DEF AddToNew
  <2>3. \A n \in Msg : LocalsKnown(pc[n], loc[n])'
    BY <1>15, <1>a, <1>b, <2>1, KnownStep DEF AddToNew
  <2> QED
    BY <1>15, <1>a, <2>2, <2>3 DEF AddToNew, HoldersOK
<1>16. CASE CarryCount(m)
  <2> DEFINE u == IF l.cur = KeyOf[m] THEN l.new ELSE l.uid
             p == IF l.todo \ {l.cur} = {} THEN "updated" ELSE "pick"
             k == Looping(u, l.old, l.todo \ {l.cur})
  <2>1. k.uid = u /\ k.old = l.old
    BY DEF Looping, NoLocals
  <2>2. l.uid \in Known /\ l.old \in Known /\ l.new \in Known
    BY <1>16, <1>a DEF CarryCount, LocalsKnown
  <2>3. LocalsKnown(p, k)
    BY <2>1, <2>2 DEF LocalsKnown
  <2>4. Goto(m, p) /\ SetLocals(m, k) /\ UNCHANGED maps
    BY <1>16 DEF CarryCount
  <2> HIDE DEF k, p
  <2> QED
    BY <1>c, <2>3, <2>4
<1>17. CASE ReadUpdated(m)
  <2>1. LocalsKnown("remove", l) /\ LocalsKnown("incr", l)
    BY <1>17, <1>a DEF ReadUpdated, LocalsKnown
  <2>2. Read(m, "remove", l) \/ Read(m, "incr", l)
    BY <1>17 DEF ReadUpdated
  <2> QED
    BY <1>c, <2>1, <2>2 DEF Read, redis
<1>18. CASE RemoveUid(m)
  <2>1. l.old \in Known /\ LocalsKnown("incr", l)
    BY <1>18, <1>a DEF RemoveUid, LocalsKnown
  <2>2. \A n \in Msg : LocalsKnown(pc[n], loc[n])'
    BY <1>18, <1>a, <1>b, <2>1, KnownStep DEF RemoveUid
  <2>3. /\ \A v \in Uid : recipKeys'[v] # {} => v \in registered'
        /\ registered' \subseteq Known'
    BY <1>18, <1>a, <2>1 DEF RemoveUid, HoldersOK, TypeOK, Known
  <2> QED
    BY <1>18, <1>a, <2>2, <2>3 DEF RemoveUid, HoldersOK
<1>19. CASE Increment(m)
  <2>1. LocalsKnown("push", l)
    BY <1>19, <1>a DEF Increment, LocalsKnown
  <2> QED
    BY <1>19, <1>b, <1>c, <2>1 DEF Increment
<1>20. CASE Push(m) \/ PushError(m) \/ RedisError(m)
  <2>1. PICK p \in {"done", "retry", "failed"} :
          Goto(m, p) /\ SetLocals(m, NoLocals) /\ UNCHANGED maps
    BY <1>20 DEF Push, PushError, RedisError, AfterPushError
  <2>2. LocalsKnown(p, NoLocals)
    BY DEF LocalsKnown
  <2> QED
    BY <1>c, <2>1, <2>2
<1> QED
  BY <1>1, <1>2, <1>3, <1>4, <1>5, <1>6, <1>7, <1>8, <1>9, <1>10, <1>11, <1>12,
     <1>13, <1>14, <1>15, <1>16, <1>17, <1>18, <1>19, <1>20
  DEF Handler, HandlerStep, HandlerFault, Assign, Reassign

\* Nothing that a plugin does changes the assignments: it registers with an
\* empty list, before anybody could have given it keys.
LEMMA PluginMaps ==
  ASSUME TypeOK, HoldersOK, NEW u \in Uid, Plugin(u)
  PROVE  /\ UNCHANGED <<recipKeyUid, recipKeys, pc, loc>>
         /\ registered \subseteq registered'
<1>1. CASE Register(u)
  <2>1. recipKeys[u] = {}
    BY <1>1 DEF Register, HoldersOK, Known
  <2> QED
    BY <1>1, <2>1 DEF Register, HSetKeys, TypeOK
<1> QED
  BY <1>1 DEF Plugin, PluginStep, Fetch, Pop, PopError, Touch, ReadCount, WriteCount,
     Receive, Die, Age, shardingVars, redis, maps

LEMMA HoldersPlugin ==
  ASSUME TypeOK, HoldersOK, NEW u \in Uid, Plugin(u)
  PROVE  HoldersOK'
<1>1. Known \subseteq Known'
  BY DEF Plugin, PluginStep, Register, Fetch, Pop, PopError, Touch, ReadCount,
     WriteCount, Receive, Die, Age, NextKey, Move, pluginVars, Known, TypeOK
<1>2. UNCHANGED <<recipKeyUid, recipKeys, pc, loc>> /\ registered \subseteq registered'
  BY PluginMaps
<1>3. registered' \subseteq Known'
  <2>1. CASE Register(u)
    BY <1>1, <2>1 DEF Register, HSetKeys, Move, Known, HoldersOK, TypeOK
  <2>2. CASE UNCHANGED registered
    BY <1>1, <2>2 DEF HoldersOK
  <2> QED
    BY <2>1, <2>2 DEF Plugin, PluginStep, Fetch, Pop, PopError, Touch, ReadCount,
       WriteCount, Receive, Die, Age, shardingVars, redis, maps
<1>4. \A m \in Msg : LocalsKnown(pc[m], loc[m])'
  BY <1>1, <1>2 DEF HoldersOK, LocalsKnown
<1> QED
  BY <1>1, <1>2, <1>3, <1>4 DEF HoldersOK

LEMMA HoldersStep == TypeOK /\ HoldersOK /\ [Next]_vars => HoldersOK'
<1>1. CASE UNCHANGED vars
  BY <1>1 DEF vars, shardingVars, redis, maps, pluginVars, HoldersOK, LocalsKnown, Known
<1> QED
  BY <1>1, HoldersHandler, HoldersPlugin DEF Next

LEMMA HoldersInit == Init => HoldersOK
BY DEF Init, ShardingInit, HoldersOK, LocalsKnown, UidPcs, OldPcs, NewPcs,
   InFlightPcs, PayloadPcs, ReassignPcs

-----------------------------------------------------------------------------
(* One assignment at a time: what its handler knows, step by step             *)

(* The operators of this section take the two maps as parameters, so as to    *)
(* speak of them before and after a step: o is recip_key_uid_map, ks the      *)
(* lists of uid_recip_keys_map.                                               *)

\* The key k is polled by the plugin that it is assigned to, and no other.
Owned(k, o, ks) == \A u \in Uid : k \in ks[u] <=> o[k] = u
Unlisted(k, ks) == \A u \in Uid : k \notin ks[u]

\* From the write that takes the key from a list to the one that puts it back.
CarryingPcs == {"count", "forget", "remap", "add"}

\* A handler at p, for a message of key own, has k on no list.
Between(p, l, own, k) ==
  \/ p \in {"list", "append"} /\ k = own
  \/ p \in CarryingPcs /\ k = l.cur

Settled(p, l, own, o, ks) ==
  \A k \in Key : IF Between(p, l, own, k) THEN Unlisted(k, ks) ELSE Owned(k, o, ks)

\* Where the key being assigned or moved is assigned.
Homed(p, l, own, o) ==
  /\ p \in {"assign", "map"} => o[own] = NoUid
  /\ p \in {"list", "append"} => o[own] = l.uid
  /\ p = "add" => o[l.cur] = l.new

\* What the handler read is still so.
Current(p, l, ks) ==
  /\ p = "append" => l.newKeys = ks[l.uid]
  /\ p = "probe" => l.assigned = ks[l.old]
  /\ p \in {"pick", "readOld", "readNew", "drop"} => l.todo \subseteq ks[l.old]
  /\ p \in {"readOld", "readNew", "drop"} => l.cur \in l.todo
  /\ p \in {"readNew", "drop"} => l.oldKeys = ks[l.old]
  /\ p = "drop" => l.newKeys = ks[l.new]
  /\ p \in CarryingPcs => l.newKeys \union {l.cur} = ks[l.new] \union {l.cur}
  /\ p \in CarryingPcs \union {"carry"} => l.todo \ {l.cur} \subseteq ks[l.old]
  /\ p = "remove" => ks[l.old] = {}

Orderly(p, l, own, o, ks) ==
  Settled(p, l, own, o, ks) /\ Homed(p, l, own, o) /\ Current(p, l, ks)

Ordered ==
  /\ \A m \in Assigning : Orderly(pc[m], loc[m], KeyOf[m], recipKeyUid, recipKeys)
  /\ OneOwner

\* The only handler that assigns, or the first, moves on.
LEMMA OrderStep ==
  ASSUME TypeOK, NEW m \in Msg, Assigning \subseteq {m}, NEW p \in Pcs, NEW l,
         Goto(m, p), SetLocals(m, l), Orderly(p, l, KeyOf[m], recipKeyUid', recipKeys')
  PROVE  Ordered'
<1>1. pc' = [pc EXCEPT ![m] = p] /\ pc'[m] = p /\ loc'[m] = l
  BY DEF TypeOK, Goto, SetLocals
<1>2. Assigning' \subseteq {m}
  BY <1>1 DEF TypeOK, Assigning
<1>3. \A n \in Assigning' : Orderly(pc'[n], loc'[n], KeyOf[n], recipKeyUid', recipKeys')
  BY <1>1, <1>2
<1>4. ASSUME Assigning' = {}
      PROVE  \A k \in Key : Owned(k, recipKeyUid', recipKeys')
  <2>1. p \notin AssigningPcs
    BY <1>1, <1>4 DEF Assigning
  <2>2. \A k \in Key : ~ Between(p, l, KeyOf[m], k)
    BY <2>1 DEF Between, CarryingPcs, AssigningPcs, ReassignPcs
  <2> QED
    BY <2>2 DEF Orderly, Settled
<1>5. OneOwner'
  BY <1>4 DEF OneOwner, Owned
<1>6. (\A n \in Assigning : Orderly(pc[n], loc[n], KeyOf[n], recipKeyUid, recipKeys))'
  BY <1>3 DEF Orderly, Settled, Homed, Current, Owned, Unlisted
<1> QED
  BY <1>5, <1>6 DEF Ordered

\* A handler that does not assign, before or after its step, disturbs none that
\* does.
LEMMA OutsideStep ==
  ASSUME TypeOK, Ordered, NEW m \in Msg, pc[m] \notin AssigningPcs,
         NEW p, p \notin AssigningPcs, NEW l, Goto(m, p), SetLocals(m, l),
         UNCHANGED <<recipKeyUid, recipKeys>>
  PROVE  Ordered'
<1>1. pc' = [pc EXCEPT ![m] = p] /\ loc' = [loc EXCEPT ![m] = l]
  BY DEF Goto, SetLocals
<1>2. Assigning' = Assigning /\ m \notin Assigning
  BY <1>1 DEF TypeOK, Assigning
<1>3. \A n \in Assigning : pc'[n] = pc[n] /\ loc'[n] = loc[n]
  BY <1>1, <1>2 DEF TypeOK, Assigning
<1>4. (\A n \in Assigning : Orderly(pc[n], loc[n], KeyOf[n], recipKeyUid, recipKeys))'
  BY <1>2, <1>3 DEF Ordered
<1>5. OneOwner'
  BY <1>2 DEF Ordered, OneOwner
<1> QED
  BY <1>4, <1>5 DEF Ordered

\* A handler that starts to assign finds no other that does.
LEMMA EnteringStep ==
  ASSUME TypeOK, Ordered, AssignsAlone', NEW m \in Msg, pc[m] \notin AssigningPcs,
         NEW p, p \in AssigningPcs, Goto(m, p)
  PROVE  Assigning = {} /\ \A k \in Key : Owned(k, recipKeyUid, recipKeys)
<1>1. pc'[m] = p /\ \A n \in Msg : n # m => pc'[n] = pc[n]
  BY DEF TypeOK, Goto
<1>2. m \in Assigning' /\ m \notin Assigning /\ Assigning \subseteq Assigning'
  BY <1>1 DEF Assigning
<1>3. Assigning = {}
  BY <1>2 DEF AssignsAlone
<1> QED
  BY <1>3 DEF Ordered, OneOwner, Owned

LEMMA OrderedHandler ==
  ASSUME TypeOK, Ordered, AssignsAlone, AssignsAlone', NEW m \in Msg, Handler(m),
         faults' = faults
  PROVE  Ordered'
<1> DEFINE l == loc[m]
           own == KeyOf[m]
           o == recipKeyUid
           ks == recipKeys
<1>a. /\ l \in Locals /\ own \in Key /\ LocalsOK(pc[m], l)
      /\ o \in [Key -> Uid \union {NoUid}] /\ ks \in [Uid -> SUBSET Key]
      /\ NoUid \notin Uid
  BY ShardingAssumption DEF TypeOK
<1>b. SetLocals(m, l) <=> UNCHANGED loc
  BY DEF SetLocals, TypeOK
<1>c. ASSUME pc[m] \in AssigningPcs
      PROVE  Assigning = {m} /\ Orderly(pc[m], l, own, o, ks)
  BY <1>c DEF Assigning, AssignsAlone, Ordered
<1>d. ~ PushError(m) /\ ~ RedisError(m)
  BY DEF PushError, RedisError, Fault, TypeOK
<1> USE DEF UidPcs, NewPcs, OldPcs, InFlightPcs, PayloadPcs, ReassignPcs, CarryingPcs, Pcs,
         AssigningPcs
<1>1. CASE Arrive(m) \/ Retry(m)
  <2> DEFINE u == o[own]
             p == IF u = NoUid THEN "assign" ELSE "access"
             k == Chosen(u)
  <2>1. Read(m, p, k)
    BY <1>1 DEF Arrive, Retry, Lookup
  <2>2. recipKeyUid' = o /\ recipKeys' = ks /\ Goto(m, p) /\ SetLocals(m, k)
        /\ pc[m] \notin AssigningPcs
    BY <1>1, <2>1 DEF Read, redis, maps, Arrive, Retry
  <2>3. CASE u = NoUid
    <3>1. p = "assign"
      BY <2>3
    <3>2. Assigning = {} /\ \A j \in Key : Owned(j, o, ks)
      BY <2>2, <3>1, EnteringStep
    <3>3. Orderly("assign", k, own, o, ks)
      BY <2>3, <3>2 DEF Orderly, Settled, Between, Homed, Current
    <3> HIDE DEF p, k
    <3> QED
      BY <2>2, <3>1, <3>2, <3>3, OrderStep
  <2>4. CASE u # NoUid
    <3>1. p \notin AssigningPcs
      BY <2>4
    <3> HIDE DEF p, k
    <3> QED
      BY <2>2, <3>1, OutsideStep
  <2> QED
    BY <2>3, <2>4
<1>2. CASE PickForAssign(m)
  <2>1. PICK u \in Candidates(registered, NoUid) : Read(m, "map", [l EXCEPT !.uid = u])
    BY <1>2 DEF PickForAssign
  <2> DEFINE k == [l EXCEPT !.uid = u]
  <2>2. Assigning = {m} /\ Orderly("assign", l, own, o, ks)
    BY <1>2, <1>c DEF PickForAssign
  <2>3. Orderly("map", k, own, o, ks)
    BY <2>2 DEF Orderly, Settled, Between, Homed, Current
  <2>4. recipKeyUid' = o /\ recipKeys' = ks /\ Goto(m, "map") /\ SetLocals(m, k)
    BY <2>1 DEF Read, redis, maps
  <2> HIDE DEF k
  <2> QED
    BY <2>2, <2>3, <2>4, OrderStep
<1>3. CASE MapKey(m)
  <2>1. Assigning = {m} /\ Orderly("map", l, own, o, ks)
    BY <1>3, <1>c DEF MapKey
  <2>2. l.uid \in Uid
    BY <1>3, <1>a DEF MapKey, LocalsOK
  <2>3. /\ recipKeyUid' = [o EXCEPT ![own] = l.uid] /\ recipKeys' = ks
        /\ Goto(m, "list") /\ SetLocals(m, l)
    BY <1>3, <1>b DEF MapKey, HSetUid
  <2>4. Settled("list", l, own, recipKeyUid', ks)
    BY <1>a, <2>1, <2>3 DEF Orderly, Settled, Between, Homed, Owned, Unlisted
  <2>5. Orderly("list", l, own, recipKeyUid', recipKeys')
    BY <1>a, <2>3, <2>4 DEF Orderly, Homed, Current
  <2> QED
    BY <2>1, <2>3, <2>5, OrderStep
<1>4. CASE ReadList(m)
  <2> DEFINE k == [l EXCEPT !.newKeys = ks[l.uid]]
  <2>1. Assigning = {m} /\ Orderly("list", l, own, o, ks)
    BY <1>4, <1>c DEF ReadList
  <2>2. l.uid \in Uid
    BY <1>4, <1>a DEF ReadList, LocalsOK
  <2>3. own \notin ks[l.uid]
    BY <1>a, <2>1, <2>2 DEF Orderly, Settled, Between, Unlisted
  <2>4. Read(m, "append", k)
    BY <1>4, <2>3 DEF ReadList
  <2>5. k.uid = l.uid /\ k.newKeys = ks[l.uid]
    BY <1>a DEF Locals
  <2>6. Orderly("append", k, own, o, ks)
    BY <2>1, <2>5 DEF Orderly, Settled, Between, Homed, Current
  <2>7. recipKeyUid' = o /\ recipKeys' = ks /\ Goto(m, "append") /\ SetLocals(m, k)
    BY <2>4 DEF Read, redis, maps
  <2> HIDE DEF k
  <2> QED
    BY <2>1, <2>6, <2>7, OrderStep
<1>5. CASE AppendKey(m)
  <2>1. Assigning = {m} /\ Orderly("append", l, own, o, ks)
    BY <1>5, <1>c DEF AppendKey
  <2>2. l.uid \in Uid
    BY <1>5, <1>a DEF AppendKey, LocalsOK
  <2>3. /\ recipKeyUid' = o /\ recipKeys' = [ks EXCEPT ![l.uid] = l.newKeys \union {own}]
        /\ Goto(m, "zero") /\ SetLocals(m, l)
    BY <1>5, <1>b DEF AppendKey, HSetKeys, WithKey
  <2>4. \A v \in Uid : recipKeys'[v] = IF v = l.uid THEN ks[v] \union {own} ELSE ks[v]
    BY <1>a, <2>1, <2>3 DEF Orderly, Current
  <2>5. o[own] = l.uid
    BY <2>1 DEF Orderly, Homed
  <2>6. Settled("zero", l, own, o, recipKeys')
    <3>1. Unlisted(own, ks) /\ \A k \in Key \ {own} : Owned(k, o, ks)
      BY <1>a, <2>1 DEF Orderly, Settled, Between
    <3>2. Owned(own, o, recipKeys')
      <4> SUFFICES ASSUME NEW v \in Uid
                   PROVE  own \in recipKeys'[v] <=> o[own] = v
        BY DEF Owned
      <4>1. CASE v = l.uid
        BY <2>4, <2>5, <4>1
      <4>2. CASE v # l.uid
        BY <2>4, <2>5, <3>1, <4>2 DEF Unlisted
      <4> QED
        BY <4>1, <4>2
    <3>3. \A k \in Key \ {own} : Owned(k, o, recipKeys')
      <4> SUFFICES ASSUME NEW k \in Key \ {own}, NEW v \in Uid
                   PROVE  k \in recipKeys'[v] <=> o[k] = v
        BY DEF Owned
      <4>1. k \in recipKeys'[v] <=> k \in ks[v]
        BY <2>4
      <4> QED
        BY <3>1, <4>1 DEF Owned
    <3> QED
      BY <3>2, <3>3 DEF Settled, Between
  <2>7. Orderly("zero", l, own, recipKeyUid', recipKeys')
    BY <2>3, <2>5, <2>6 DEF Orderly, Homed, Current
  <2> QED
    BY <2>1, <2>3, <2>7, OrderStep
<1>6. CASE ZeroCount(m) \/ Increment(m)
  <2>1. PICK p \in {"access", "push"} : Goto(m, p)
    BY <1>6 DEF ZeroCount, Increment
  <2>2. recipKeyUid' = o /\ recipKeys' = ks /\ SetLocals(m, l) /\ pc[m] \notin AssigningPcs
    BY <1>6, <1>b DEF ZeroCount, Increment, maps
  <2> QED
    BY <2>1, <2>2, OutsideStep
<1>7. CASE CheckAccess(m)
  <2>1. PICK p \in {"assigned", "incr"} : Read(m, p, Chosen(l.uid))
    BY <1>7 DEF CheckAccess
  <2>2. recipKeyUid' = o /\ recipKeys' = ks /\ Goto(m, p) /\ SetLocals(m, Chosen(l.uid))
        /\ pc[m] \notin AssigningPcs
    BY <1>7, <2>1 DEF CheckAccess, Read, redis, maps
  <2> QED
    BY <2>1, <2>2, OutsideStep
<1>8. CASE ReadAssigned(m)
  <2> DEFINE k == [l EXCEPT !.old = l.uid, !.assigned = ks[l.uid], !.todo = ks[l.uid]]
  <2>1. pc[m] \notin AssigningPcs /\ (Read(m, "incr", l) \/ Read(m, "probe", k))
    BY <1>8 DEF ReadAssigned
  <2>2. k.uid = l.uid /\ k.old = l.uid /\ k.assigned = ks[l.uid]
    BY <1>a DEF Locals
  <2> HIDE DEF k
  <2>3. CASE Read(m, "incr", l)
    BY <2>1, <2>3, OutsideStep DEF Read, redis, maps
  <2>4. CASE Read(m, "probe", k)
    <3>1. recipKeyUid' = o /\ recipKeys' = ks /\ Goto(m, "probe") /\ SetLocals(m, k)
      BY <2>4 DEF Read, redis, maps
    <3>2. Assigning = {} /\ \A j \in Key : Owned(j, o, ks)
      BY <2>1, <3>1, EnteringStep
    <3>3. Orderly("probe", k, own, o, ks)
      BY <2>2, <3>2 DEF Orderly, Settled, Between, Homed, Current
    <3> QED
      BY <3>1, <3>2, <3>3, OrderStep
  <2> QED
    BY <2>1, <2>3, <2>4
<1>9. CASE Probe(m)
  <2>1. Assigning = {m} /\ Orderly("probe", l, own, o, ks)
    BY <1>9, <1>c DEF Probe
  <2>2. PICK k \in l.todo :
          \/ Read(m, "pick", Looping(l.uid, l.old, l.assigned))
          \/ Read(m, "incr", Chosen(l.uid))
          \/ Read(m, "probe", [l EXCEPT !.todo = l.todo \ {k}])
    BY <1>9 DEF Probe
  <2> DEFINE k1 == Looping(l.uid, l.old, l.assigned)
             k2 == Chosen(l.uid)
             k3 == [l EXCEPT !.todo = l.todo \ {k}]
  <2>3. k1.uid = l.uid /\ k1.old = l.old /\ k1.todo = l.assigned
    BY DEF Looping, NoLocals
  <2>4. k2.uid = l.uid
    BY DEF Chosen, NoLocals
  <2>5. k3.uid = l.uid /\ k3.old = l.old /\ k3.assigned = l.assigned
    BY <1>a DEF Locals
  <2> HIDE DEF k1, k2, k3
  <2>6. Orderly("pick", k1, own, o, ks)
    BY <2>1, <2>3 DEF Orderly, Settled, Between, Homed, Current
  <2>7. Orderly("incr", k2, own, o, ks)
    BY <2>1, <2>4 DEF Orderly, Settled, Between, Homed, Current
  <2>8. Orderly("probe", k3, own, o, ks)
    BY <2>1, <2>5 DEF Orderly, Settled, Between, Homed, Current
  <2>9. CASE Read(m, "pick", k1)
    BY <2>1, <2>6, <2>9, OrderStep DEF Read, redis, maps
  <2>10. CASE Read(m, "incr", k2)
    BY <2>1, <2>7, <2>10, OrderStep DEF Read, redis, maps
  <2>11. CASE Read(m, "probe", k3)
    BY <2>1, <2>8, <2>11, OrderStep DEF Read, redis, maps
  <2> QED
    BY <2>2, <2>9, <2>10, <2>11 DEF k1, k2, k3
<1>10. CASE PickForReassign(m)
  <2>1. Assigning = {m} /\ Orderly("pick", l, own, o, ks)
    BY <1>10, <1>c DEF PickForReassign
  <2>2. PICK u \in Candidates(registered, l.old), k \in l.todo :
          Read(m, "readOld", [l EXCEPT !.new = u, !.cur = k])
    BY <1>10 DEF PickForReassign
  <2> DEFINE k1 == [l EXCEPT !.new = u, !.cur = k]
  <2>3. k1.uid = l.uid /\ k1.old = l.old /\ k1.cur = k /\ k1.todo = l.todo
    BY <1>a DEF Locals
  <2>4. Orderly("readOld", k1, own, o, ks)
    BY <2>1, <2>3 DEF Orderly, Settled, Between, Homed, Current
  <2>5. recipKeyUid' = o /\ recipKeys' = ks /\ Goto(m, "readOld") /\ SetLocals(m, k1)
    BY <2>2 DEF Read, redis, maps
  <2> HIDE DEF k1
  <2> QED
    BY <2>1, <2>4, <2>5, OrderStep
<1>11. CASE ReadOldKeys(m)
  <2> DEFINE k == [l EXCEPT !.oldKeys = ks[l.old]]
  <2>1. Assigning = {m} /\ Orderly("readOld", l, own, o, ks)
    BY <1>11, <1>c DEF ReadOldKeys
  <2>2. /\ k.uid = l.uid /\ k.old = l.old /\ k.cur = l.cur /\ k.todo = l.todo
        /\ k.oldKeys = ks[l.old]
    BY <1>a DEF Locals
  <2>3. Orderly("readNew", k, own, o, ks)
    BY <2>1, <2>2 DEF Orderly, Settled, Between, Homed, Current
  <2>4. recipKeyUid' = o /\ recipKeys' = ks /\ Goto(m, "readNew") /\ SetLocals(m, k)
    BY <1>11 DEF ReadOldKeys, Read, redis, maps
  <2> HIDE DEF k
  <2> QED
    BY <2>1, <2>3, <2>4, OrderStep
<1>12. CASE ReadNewKeys(m)
  <2> DEFINE k == [l EXCEPT !.newKeys = ks[l.new]]
  <2>1. Assigning = {m} /\ Orderly("readNew", l, own, o, ks)
    BY <1>12, <1>c DEF ReadNewKeys
  <2>2. /\ k.uid = l.uid /\ k.old = l.old /\ k.cur = l.cur /\ k.todo = l.todo
        /\ k.oldKeys = l.oldKeys /\ k.new = l.new /\ k.newKeys = ks[l.new]
    BY <1>a DEF Locals
  <2>3. Orderly("drop", k, own, o, ks)
    BY <2>1, <2>2 DEF Orderly, Settled, Between, Homed, Current
  <2>4. recipKeyUid' = o /\ recipKeys' = ks /\ Goto(m, "drop") /\ SetLocals(m, k)
    BY <1>12 DEF ReadNewKeys, Read, redis, maps
  <2> HIDE DEF k
  <2> QED
    BY <2>1, <2>3, <2>4, OrderStep
<1>13. CASE DropFromOld(m)
  <2> DEFINE k == [l EXCEPT !.oldKeys = {}]
  <2>1. Assigning = {m} /\ Orderly("drop", l, own, o, ks)
    BY <1>13, <1>c DEF DropFromOld
  <2>2. l.old \in Uid /\ l.new \in Uid /\ l.cur \in Key
    BY <1>13, <1>a DEF DropFromOld, LocalsOK
  <2>3. /\ k.uid = l.uid /\ k.old = l.old /\ k.cur = l.cur /\ k.todo = l.todo
        /\ k.new = l.new /\ k.newKeys = l.newKeys
    BY <1>a DEF Locals
  <2>4. /\ recipKeyUid' = o /\ recipKeys' = [ks EXCEPT ![l.old] = l.oldKeys \ {l.cur}]
        /\ Goto(m, "count") /\ SetLocals(m, k)
    BY <1>13 DEF DropFromOld, HSetKeys, WithoutKey
  <2> HIDE DEF k
  <2>5. /\ l.oldKeys = ks[l.old] /\ l.newKeys = ks[l.new]
        /\ l.todo \subseteq ks[l.old] /\ l.cur \in ks[l.old]
        /\ \A j \in Key : Owned(j, o, ks)
    BY <2>1 DEF Orderly, Settled, Between, Homed, Current
  <2>6. \A v \in Uid : recipKeys'[v] = IF v = l.old THEN ks[v] \ {l.cur} ELSE ks[v]
    <3>1. /\ recipKeys'[l.old] = l.oldKeys \ {l.cur}
          /\ \A v \in Uid : v # l.old => recipKeys'[v] = ks[v]
      BY <1>a, <2>2, <2>4
    <3>2. l.oldKeys = ks[l.old]
      BY <2>5
    <3> QED
      BY <3>1, <3>2
  <2>7. Unlisted(l.cur, recipKeys')
    <3> SUFFICES ASSUME NEW v \in Uid
                 PROVE  l.cur \notin recipKeys'[v]
      BY DEF Unlisted
    <3>1. l.cur \in ks[v] => o[l.cur] = v
      BY <2>2, <2>5 DEF Owned
    <3>2. o[l.cur] = l.old
      BY <2>2, <2>5 DEF Owned
    <3> QED
      BY <2>6, <3>1, <3>2
  <2>8. \A j \in Key \ {l.cur} : Owned(j, o, recipKeys')
    <3> SUFFICES ASSUME NEW j \in Key \ {l.cur}, NEW v \in Uid
                 PROVE  j \in recipKeys'[v] <=> o[j] = v
      BY DEF Owned
    <3>1. j \in recipKeys'[v] <=> j \in ks[v]
      BY <2>6
    <3> QED
      BY <2>5, <3>1 DEF Owned
  <2>9. Settled("count", k, own, o, recipKeys')
    BY <2>3, <2>7, <2>8 DEF Settled, Between
  <2>10. Current("count", k, recipKeys')
    <3>1. l.newKeys \union {l.cur} = recipKeys'[l.new] \union {l.cur}
      BY <2>2, <2>5, <2>6
    <3>2. l.todo \ {l.cur} \subseteq recipKeys'[l.old]
      BY <2>2, <2>5, <2>6
    <3> QED
      BY <2>3, <3>1, <3>2 DEF Current
  <2>11. Homed("count", k, own, o)
    BY <2>3, <2>5 DEF Homed
  <2>12. Orderly("count", k, own, recipKeyUid', recipKeys')
    BY <2>4, <2>9, <2>10, <2>11 DEF Orderly
  <2> QED
    BY <2>1, <2>4, <2>12, OrderStep
<1>14. CASE TakeCount(m)
  <2> DEFINE k == [l EXCEPT !.count = pending[l.old][l.cur]]
  <2>1. Assigning = {m} /\ Orderly("count", l, own, o, ks)
    BY <1>14, <1>c DEF TakeCount
  <2>2. /\ k.uid = l.uid /\ k.old = l.old /\ k.cur = l.cur /\ k.todo = l.todo
        /\ k.new = l.new /\ k.newKeys = l.newKeys
    BY <1>a DEF Locals
  <2>3. /\ recipKeyUid' = o /\ recipKeys' = ks /\ Goto(m, "forget") /\ SetLocals(m, k)
    BY <1>14 DEF TakeCount, Read, redis, maps
  <2> HIDE DEF k
  <2>4. Orderly("forget", k, own, o, ks)
    BY <2>1, <2>2 DEF Orderly, Settled, Between, Homed, Current
  <2> QED
    BY <2>1, <2>3, <2>4, OrderStep
<1>15. CASE ForgetCount(m)
  <2>1. Assigning = {m} /\ Orderly("forget", l, own, o, ks)
    BY <1>15, <1>c DEF ForgetCount
  <2>2. recipKeyUid' = o /\ recipKeys' = ks /\ Goto(m, "remap") /\ SetLocals(m, l)
    BY <1>15, <1>b DEF ForgetCount, maps
  <2>3. Orderly("remap", l, own, o, ks)
    BY <2>1 DEF Orderly, Settled, Between, Homed, Current
  <2> QED
    BY <2>1, <2>2, <2>3, OrderStep
<1>16. CASE Remap(m)
  <2>1. Assigning = {m} /\ Orderly("remap", l, own, o, ks)
    BY <1>16, <1>c DEF Remap
  <2>2. l.new \in Uid /\ l.cur \in Key
    BY <1>16, <1>a DEF Remap, LocalsOK
  <2>3. /\ recipKeyUid' = [o EXCEPT ![l.cur] = l.new] /\ recipKeys' = ks
        /\ Goto(m, "add") /\ SetLocals(m, l)
    BY <1>16, <1>b DEF Remap, HSetUid
  <2>4. \A j \in Key : recipKeyUid'[j] = IF j = l.cur THEN l.new ELSE o[j]
    BY <1>a, <2>3
  <2>5. Unlisted(l.cur, ks) /\ (\A j \in Key \ {l.cur} : Owned(j, o, ks))
    BY <2>1, <2>2 DEF Orderly, Settled, Between
  <2>6. Settled("add", l, own, recipKeyUid', ks)
    BY <2>4, <2>5 DEF Settled, Between, Owned
  <2>7. Homed("add", l, own, recipKeyUid')
    BY <1>a, <2>2, <2>4, <2>5 DEF Homed
  <2>8. Current("add", l, ks)
    BY <2>1 DEF Orderly, Current
  <2>9. Orderly("add", l, own, recipKeyUid', recipKeys')
    BY <2>3, <2>6, <2>7, <2>8 DEF Orderly
  <2> QED
    BY <2>1, <2>3, <2>9, OrderStep
<1>17. CASE AddToNew(m)
  <2>1. Assigning = {m} /\ Orderly("add", l, own, o, ks)
    BY <1>17, <1>c DEF AddToNew
  <2>2. l.new \in Uid /\ l.old \in Uid /\ l.cur \in Key
    BY <1>17, <1>a DEF AddToNew, LocalsOK
  <2>3. /\ recipKeyUid' = o /\ recipKeys' = [ks EXCEPT ![l.new] = l.newKeys \union {l.cur}]
        /\ Goto(m, "carry") /\ SetLocals(m, l)
    BY <1>17, <1>b DEF AddToNew, HSetKeys, WithKey
  <2>4. /\ Unlisted(l.cur, ks) /\ \A j \in Key \ {l.cur} : Owned(j, o, ks)
        /\ o[l.cur] = l.new
        /\ l.newKeys \union {l.cur} = ks[l.new] \union {l.cur}
        /\ l.todo \ {l.cur} \subseteq ks[l.old]
    BY <2>1, <2>2 DEF Orderly, Settled, Between, Homed, Current
  <2>5. \A v \in Uid : recipKeys'[v] = IF v = l.new THEN ks[v] \union {l.cur} ELSE ks[v]
    <3>1. /\ recipKeys'[l.new] = l.newKeys \union {l.cur}
          /\ \A v \in Uid : v # l.new => recipKeys'[v] = ks[v]
      BY <1>a, <2>2, <2>3
    <3>2. l.newKeys \union {l.cur} = ks[l.new] \union {l.cur}
      BY <2>4
    <3> QED
      BY <3>1, <3>2
  <2>6. Owned(l.cur, o, recipKeys')
    <3> SUFFICES ASSUME NEW v \in Uid
                 PROVE  l.cur \in recipKeys'[v] <=> o[l.cur] = v
      BY DEF Owned
    <3>1. CASE v = l.new
      BY <2>4, <2>5, <3>1
    <3>2. CASE v # l.new
      BY <2>4, <2>5, <3>2 DEF Unlisted
    <3> QED
      BY <3>1, <3>2
  <2>7. \A j \in Key \ {l.cur} : Owned(j, o, recipKeys')
    <3> SUFFICES ASSUME NEW j \in Key \ {l.cur}, NEW v \in Uid
                 PROVE  j \in recipKeys'[v] <=> o[j] = v
      BY DEF Owned
    <3>1. j \in recipKeys'[v] <=> j \in ks[v]
      BY <2>5
    <3> QED
      BY <2>4, <3>1 DEF Owned
  <2>8. Settled("carry", l, own, o, recipKeys')
    BY <2>6, <2>7 DEF Settled, Between
  <2>9. Homed("carry", l, own, o) /\ Current("carry", l, recipKeys')
    BY <2>2, <2>4, <2>5 DEF Homed, Current
  <2>10. Orderly("carry", l, own, recipKeyUid', recipKeys')
    BY <2>3, <2>8, <2>9 DEF Orderly
  <2> QED
    BY <2>1, <2>3, <2>10, OrderStep
<1>18. CASE CarryCount(m)
  <2> DEFINE u == IF l.cur = own THEN l.new ELSE l.uid
             rest == l.todo \ {l.cur}
             k == Looping(u, l.old, rest)
  <2>1. Assigning = {m} /\ Orderly("carry", l, own, o, ks)
    BY <1>18, <1>c DEF CarryCount
  <2>2. k.uid = u /\ k.old = l.old /\ k.todo = rest
    BY DEF Looping, NoLocals
  <2>3. rest \subseteq ks[l.old] /\ \A j \in Key : Owned(j, o, ks)
    BY <2>1 DEF Orderly, Settled, Between, Homed, Current
  <2>4. PICK p \in {"updated", "pick"} : Goto(m, p)
    BY <1>18 DEF CarryCount
  <2>5. recipKeyUid' = o /\ recipKeys' = ks /\ SetLocals(m, k)
    BY <1>18 DEF CarryCount, maps
  <2> HIDE DEF k, u, rest
  <2>6. Orderly(p, k, own, o, ks)
    BY <2>2, <2>3, <2>4 DEF Orderly, Settled, Between, Homed, Current
  <2> QED
    BY <2>1, <2>4, <2>5, <2>6, OrderStep
<1>19. CASE ReadUpdated(m)
  <2>1. Assigning = {m} /\ Orderly("updated", l, own, o, ks)
    BY <1>19, <1>c DEF ReadUpdated
  <2>2. PICK p \in {"remove", "incr"} : Read(m, p, l) /\ (p = "remove" => ks[l.old] = {})
    BY <1>19 DEF ReadUpdated, MustRemove
  <2>3. Orderly(p, l, own, o, ks)
    BY <2>1, <2>2 DEF Orderly, Settled, Between, Homed, Current
  <2> QED
    BY <2>1, <2>2, <2>3, OrderStep DEF Read, redis, maps
<1>20. CASE RemoveUid(m)
  <2>1. Assigning = {m} /\ Orderly("remove", l, own, o, ks)
    BY <1>20, <1>c DEF RemoveUid
  <2>2. ks[l.old] = {}
    BY <2>1 DEF Orderly, Current
  <2>3. /\ recipKeyUid' = o /\ recipKeys' = ks /\ Goto(m, "incr") /\ SetLocals(m, l)
    BY <1>20, <1>a, <1>b, <2>2 DEF RemoveUid
  <2>4. Orderly("incr", l, own, o, ks)
    BY <2>1 DEF Orderly, Settled, Between, Homed, Current
  <2> QED
    BY <2>1, <2>3, <2>4, OrderStep
<1>21. CASE Push(m)
  <2>1. recipKeyUid' = o /\ recipKeys' = ks /\ Goto(m, "done") /\ SetLocals(m, NoLocals)
        /\ pc[m] \notin AssigningPcs
    BY <1>21 DEF Push, maps
  <2> QED
    BY <2>1, OutsideStep
<1> QED
  BY <1>d, <1>1, <1>2, <1>3, <1>4, <1>5, <1>6, <1>7, <1>8, <1>9, <1>10, <1>11, <1>12,
     <1>13, <1>14, <1>15, <1>16, <1>17, <1>18, <1>19, <1>20, <1>21
  DEF Handler, HandlerStep, HandlerFault, Assign, Reassign

LEMMA OrderedPlugin ==
  ASSUME TypeOK, HoldersOK, Ordered, NEW u \in Uid, Plugin(u)
  PROVE  Ordered'
<1>1. UNCHANGED <<recipKeyUid, recipKeys, pc, loc>>
  BY PluginMaps
<1>2. Assigning' = Assigning
  BY <1>1 DEF Assigning
<1>3. OneOwner'
  BY <1>1, <1>2 DEF Ordered, OneOwner
<1>4. (\A m \in Assigning : Orderly(pc[m], loc[m], KeyOf[m], recipKeyUid, recipKeys))'
  BY <1>1, <1>2 DEF Ordered
<1> QED
  BY <1>3, <1>4 DEF Ordered

LEMMA OrderedStep ==
  ASSUME TypeOK, HoldersOK, AssignsAlone, AssignsAlone', faults = 0 => Ordered,
         [Next]_vars
  PROVE  faults' = 0 => Ordered'
<1> SUFFICES ASSUME faults' = 0
             PROVE  Ordered'
  OBVIOUS
<1>1. Ordered /\ faults' = faults
  BY OnlyFaults DEF Fault, TypeOK
<1>2. CASE UNCHANGED vars
  BY <1>1, <1>2 DEF vars, shardingVars, redis, maps, Ordered, OneOwner, Assigning
<1> QED
  BY <1>1, <1>2, OrderedHandler, OrderedPlugin DEF Next

LEMMA OrderedInit == Init => AssignsAlone /\ Ordered
<1> SUFFICES ASSUME Init
             PROVE  AssignsAlone /\ Ordered
  OBVIOUS
<1>1. Assigning = {}
  BY DEF Init, ShardingInit, Assigning, AssigningPcs, ReassignPcs
<1>2. \A k \in Key, u \in Uid : k \in recipKeys[u] <=> recipKeyUid[k] = u
  BY ShardingAssumption DEF Init, ShardingInit
<1> QED
  BY <1>1, <1>2 DEF AssignsAlone, Ordered, OneOwner

-----------------------------------------------------------------------------
(* One assignment at a time: the plugin that the loop moved the last key to,   *)
(* whatever commands failed before                                             *)

Kept(p, l, ks) ==
  /\ p = "carry" => ks[l.new] # {}
  /\ p \in {"updated", "remove"} => \E u \in Uid : ks[u] # {}
  /\ p = "remove" => ks[l.old] = {}

Heirs == \A m \in Assigning : Kept(pc[m], loc[m], recipKeys)

\* A handler moves on, and no list that another that assigns relies on changes.
LEMMA HeirsMove ==
  ASSUME TypeOK, Heirs, NEW m \in Msg, NEW p, NEW l, Goto(m, p), SetLocals(m, l),
         UNCHANGED recipKeys \/ Assigning \subseteq {m},
         p \in AssigningPcs => Kept(p, l, recipKeys')
  PROVE  Heirs'
<1>1. pc'[m] = p /\ loc'[m] = l
  BY DEF TypeOK, Goto, SetLocals
<1>2. ASSUME NEW n \in Msg, n # m
      PROVE  pc'[n] = pc[n] /\ loc'[n] = loc[n]
  BY <1>2 DEF TypeOK, Goto, SetLocals
<1>3. ASSUME NEW n \in Assigning'
      PROVE  Kept(pc'[n], loc'[n], recipKeys')
  <2>1. CASE n = m
    BY <1>1, <1>3, <2>1 DEF Assigning
  <2>2. CASE n # m
    <3>1. n \in Assigning /\ pc'[n] = pc[n] /\ loc'[n] = loc[n]
      BY <1>2, <1>3, <2>2 DEF Assigning
    <3>2. UNCHANGED recipKeys
      BY <2>2, <3>1
    <3> QED
      BY <3>1, <3>2 DEF Heirs
  <2> QED
    BY <2>1, <2>2
<1> QED
  BY <1>3 DEF Heirs, Kept

LEMMA HeirsHandler ==
  ASSUME TypeOK, Heirs, AssignsAlone, NEW m \in Msg, Handler(m)
  PROVE  Heirs'
<1> DEFINE l == loc[m]
<1>a. l \in Locals /\ LocalsOK(pc[m], l) /\ KeyOf[m] \in Key
  BY ShardingAssumption DEF TypeOK
<1>b. SetLocals(m, l) <=> UNCHANGED loc
  BY DEF SetLocals, TypeOK
<1>c. ASSUME pc[m] \in AssigningPcs
      PROVE  Assigning = {m} /\ Kept(pc[m], l, recipKeys)
  BY <1>c DEF Assigning, AssignsAlone, Heirs
<1> USE DEF UidPcs, NewPcs, OldPcs, InFlightPcs, PayloadPcs, ReassignPcs, AssigningPcs
<1>d. ASSUME NEW p, NEW k, p \notin {"carry", "updated", "remove"},
             Goto(m, p), SetLocals(m, k), UNCHANGED recipKeys
      PROVE  Heirs'
  BY <1>d, HeirsMove DEF Kept
<1>1. CASE Arrive(m) \/ Retry(m)
  <2>1. PICK p \in {"assign", "access"}, k \in {Chosen(recipKeyUid[KeyOf[m]])} : Read(m, p, k)
    BY <1>1 DEF Arrive, Retry, Lookup
  <2> QED
    BY <1>d, <2>1 DEF Read, redis, maps
<1>2. CASE PickForAssign(m) \/ MapKey(m) \/ ReadList(m) \/ ZeroCount(m)
  <2>1. PICK p \in {"map", "list", "zero", "append", "access"} : Goto(m, p)
    BY <1>2 DEF PickForAssign, MapKey, ReadList, ZeroCount, Read
  <2>2. UNCHANGED recipKeys /\ \E k : SetLocals(m, k)
    BY <1>2, <1>b DEF PickForAssign, MapKey, ReadList, ZeroCount, Read, redis, maps
  <2> QED
    BY <1>d, <2>1, <2>2
<1>3. CASE AppendKey(m)
  <2>1. Assigning = {m} /\ Goto(m, "zero") /\ SetLocals(m, l)
    BY <1>3, <1>b, <1>c DEF AppendKey
  <2> QED
    BY <2>1, HeirsMove
<1>4. CASE CheckAccess(m) \/ ReadAssigned(m) \/ Probe(m) \/ PickForReassign(m)
  <2>1. PICK p \in {"assigned", "incr", "probe", "pick", "readOld"} :
          \E k : Read(m, p, k)
    BY <1>4 DEF CheckAccess, ReadAssigned, Probe, PickForReassign
  <2> QED
    BY <1>d, <2>1 DEF Read, redis, maps
<1>5. CASE ReadOldKeys(m) \/ ReadNewKeys(m) \/ TakeCount(m)
  <2>1. PICK p \in {"readNew", "drop", "forget"} : \E k : Read(m, p, k)
    BY <1>5 DEF ReadOldKeys, ReadNewKeys, TakeCount
  <2> QED
    BY <1>d, <2>1 DEF Read, redis, maps
<1>6. CASE DropFromOld(m)
  <2>1. /\ Assigning = {m} /\ Goto(m, "count")
        /\ SetLocals(m, [l EXCEPT !.oldKeys = {}])
    BY <1>6, <1>c DEF DropFromOld
  <2>2. Kept("count", [l EXCEPT !.oldKeys = {}], recipKeys')
    BY DEF Kept
  <2> QED
    BY <2>1, <2>2, HeirsMove
<1>7. CASE ForgetCount(m) \/ Remap(m)
  <2>1. PICK p \in {"remap", "add"} : Goto(m, p)
    BY <1>7 DEF ForgetCount, Remap
  <2>2. SetLocals(m, l) /\ UNCHANGED recipKeys
    BY <1>7, <1>b DEF ForgetCount, Remap, maps
  <2> QED
    BY <1>d, <2>1, <2>2
<1>8. CASE AddToNew(m)
  <2>1. Assigning = {m} /\ Goto(m, "carry") /\ SetLocals(m, l)
    BY <1>8, <1>b, <1>c DEF AddToNew
  <2>2. l.new \in Uid /\ l.cur \in recipKeys'[l.new]
    BY <1>8, <1>a DEF AddToNew, HSetKeys, WithKey, LocalsOK, TypeOK
  <2>3. Kept("carry", l, recipKeys')
    BY <2>2 DEF Kept
  <2> QED
    BY <2>1, <2>3, HeirsMove
<1>9. CASE CarryCount(m)
  <2>1. Kept("carry", l, recipKeys) /\ l.new \in Uid /\ UNCHANGED recipKeys
    BY <1>9, <1>a, <1>c DEF CarryCount, LocalsOK, maps
  <2>2. PICK p \in {"updated", "pick"} : Goto(m, p)
    BY <1>9 DEF CarryCount
  <2>3. \A k : Kept(p, k, recipKeys')
    BY <2>1, <2>2 DEF Kept
  <2> QED
    BY <1>9, <2>1, <2>2, <2>3, HeirsMove DEF CarryCount
<1>10. CASE ReadUpdated(m)
  <2>1. Kept("updated", l, recipKeys) /\ UNCHANGED recipKeys
    BY <1>10, <1>c DEF ReadUpdated, Read, redis, maps
  <2>2. PICK p \in {"remove", "incr"} :
          /\ Goto(m, p) /\ SetLocals(m, l)
          /\ p = "remove" => recipKeys[l.old] = {}
    BY <1>10 DEF ReadUpdated, Read, MustRemove
  <2>3. Kept(p, l, recipKeys')
    BY <2>1, <2>2 DEF Kept
  <2> QED
    BY <2>1, <2>2, <2>3, HeirsMove
<1>11. CASE RemoveUid(m)
  <2>1. Assigning = {m} /\ Goto(m, "incr") /\ SetLocals(m, l)
    BY <1>11, <1>b, <1>c DEF RemoveUid
  <2> QED
    BY <2>1, HeirsMove
<1>12. CASE Increment(m) \/ Push(m) \/ PushError(m) \/ RedisError(m)
  <2>1. PICK p \in {"push", "done", "retry", "failed"} : Goto(m, p)
    BY <1>12 DEF Increment, Push, PushError, AfterPushError, RedisError
  <2>2. UNCHANGED recipKeys /\ \E k : SetLocals(m, k)
    BY <1>12, <1>b DEF Increment, Push, PushError, RedisError, maps
  <2> QED
    BY <1>d, <2>1, <2>2
<1> QED
  BY <1>1, <1>2, <1>3, <1>4, <1>5, <1>6, <1>7, <1>8, <1>9, <1>10, <1>11, <1>12
  DEF Handler, HandlerStep, HandlerFault, Assign, Reassign

LEMMA HeirsStep ==
  ASSUME TypeOK, HoldersOK, Heirs, AssignsAlone, [Next]_vars
  PROVE  Heirs'
<1>1. CASE UNCHANGED <<recipKeys, pc, loc>>
  BY <1>1 DEF Heirs, Kept, Assigning
<1>2. UNCHANGED vars => UNCHANGED <<recipKeys, pc, loc>>
  BY DEF vars, shardingVars, redis, maps
<1> QED
  BY <1>1, <1>2, HeirsHandler, PluginMaps DEF Next

LEMMA HeirsInit == Init => Heirs
BY DEF Init, ShardingInit, Heirs, Assigning, AssigningPcs, ReassignPcs

\* All that the theorems below stand on.
SerialInv ==
  TypeOK /\ HoldersOK /\ AssignsAlone /\ Heirs /\ (faults = 0 => Ordered)

LEMMA SerialInvariant == SerialSpec => []SerialInv
<1>1. Init => SerialInv
  BY TypeInit, HoldersInit, OrderedInit, HeirsInit DEF SerialInv
<1>2. TypeOK /\ [Next]_vars => TypeOK'
  <2>1. CASE UNCHANGED vars
    BY <2>1 DEF vars, shardingVars, redis, maps, pluginVars, TypeOK
  <2> QED
    BY <2>1, HandlerType, PluginType DEF Next
<1>3. AssignsAlone /\ [Next /\ AssignsAlone']_vars => AssignsAlone'
  BY DEF AssignsAlone, Assigning, vars, shardingVars
<1>4. SerialInv /\ [Next /\ AssignsAlone']_vars => SerialInv'
  BY <1>2, <1>3, HoldersStep, HeirsStep, OrderedStep DEF SerialInv
<1> QED
  BY <1>1, <1>4, PTL DEF SerialSpec

-----------------------------------------------------------------------------
(* Theorems *)

\* Assignments that do not overlap are enough: whichever other steps handlers
\* and plugins interleave with them, until the first Redis error every key that
\* is assigned is polled by the plugin that recip_key_uid_map names, and by no
\* other, whenever no handler assigns.  assign_recip_key_to_new_uid and the
\* reassignment loop of process_payload_recip_key are all that a lock would have
\* to cover; nothing in the code is one.
THEOREM OneOwnerPerKey == SerialSpec => [](faults = 0 => OneOwner)
<1>1. SerialInv => (faults = 0 => OneOwner)
  BY DEF SerialInv, Ordered
<1> QED
  BY <1>1, SerialInvariant, PTL

\* Only RemoveUid takes a plugin out of the registry.
LEMMA OnlyRemoved ==
  ASSUME TypeOK, HoldersOK, [Next]_vars
  PROVE  \/ registered \subseteq registered'
         \/ \E m \in Msg : RemoveUid(m)
<1>1. ASSUME NEW m \in Msg, Handler(m)
      PROVE  registered \subseteq registered' \/ RemoveUid(m)
  BY <1>1 DEF Handler, Arrive, HandlerStep, HandlerFault, Assign, Reassign, Retry,
     Lookup, PickForAssign, MapKey, ReadList, AppendKey, ZeroCount, CheckAccess,
     ReadAssigned, Probe, PickForReassign, ReadOldKeys, ReadNewKeys, DropFromOld,
     TakeCount, ForgetCount, Remap, AddToNew, CarryCount, ReadUpdated,
     Increment, Push, PushError, RedisError, Read, HSetKeys, redis, maps
<1>2. CASE UNCHANGED vars
  BY <1>2 DEF vars, shardingVars, redis, maps
<1> QED
  BY <1>1, <1>2, PluginMaps DEF Next

\* The plugin that has the last key moved stays when the old one is removed.
LEMMA HeirStays ==
  ASSUME SerialInv, NEW m \in Msg, RemoveUid(m)
  PROVE  registered' # {}
<1>1. m \in Assigning /\ pc[m] = "remove"
  BY DEF RemoveUid, Assigning, AssigningPcs
<1>2. recipKeys[loc[m].old] = {} /\ \E u \in Uid : recipKeys[u] # {}
  BY <1>1 DEF SerialInv, Heirs, Kept
<1>3. PICK u \in Uid : u \in registered /\ u # loc[m].old
  BY <1>2 DEF SerialInv, HoldersOK
<1> QED
  BY <1>3 DEF RemoveUid

\* As long as assignments do not overlap, the handlers never remove the last
\* plugin, however many of them are silent and whichever commands Redis fails:
\* the one that the reassignment loop moved the last key to is still listed, so
\* get_new_valid_uid always has one to return once a first has registered.
THEOREM RegistryKeepsOne == SerialSpec => RegistryNeverEmpties
<1>1. SerialInv /\ [Next /\ AssignsAlone']_vars => [registered # {} => registered' # {}]_vars
  BY OnlyRemoved, HeirStays DEF SerialInv
<1> QED
  BY <1>1, SerialInvariant, PTL DEF SerialSpec, RegistryNeverEmpties
=============================================================================
