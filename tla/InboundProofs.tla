---------------------------- MODULE InboundProofs ----------------------------
(* Theorems about InboundTransport, for every value of its constants. *)
EXTENDS InboundTransport, SequenceTheorems, TLAPS

-----------------------------------------------------------------------------
(* Type correctness *)

\* get_new_valid_uid returns a registered uid.
LEMMA CandidatesRegistered ==
  \A uids, ignore : Candidates(uids, ignore) \subseteq uids
BY DEF Candidates

\* A handler that only reads keeps the types, if what it read fits its next step.
LEMMA ReadType ==
  ASSUME TypeOK, NEW m \in Msg, NEW p \in Pcs, NEW l \in Locals,
         LocalsOK(p, l), Read(m, p, l), UNCHANGED pluginVars
  PROVE  TypeOK'
BY DEF TypeOK, Read, Goto, SetLocals, redis, maps, pluginVars

\* The locals between two rounds of the reassignment loop.
LEMMA LoopingType ==
  ASSUME NEW u \in Uid, NEW o \in Uid, NEW keys \in SUBSET Key
  PROVE  /\ Looping(u, o, keys) \in Locals
         /\ \A p \in {"pick", "updated"} : LocalsOK(p, Looping(u, o, keys))
<1> DEFINE k1 == [NoLocals EXCEPT !.uid = u]
           k2 == [k1 EXCEPT !.old = o]
<1>1. k1 \in Locals /\ k1.uid = u
  BY DEF Locals, NoLocals
<1>2. k2 \in Locals /\ k2.uid = u /\ k2.old = o
  BY <1>1 DEF Locals
<1>3. Looping(u, o, keys) = [k2 EXCEPT !.todo = keys]
  BY DEF Looping
<1>4. /\ Looping(u, o, keys) \in Locals
      /\ Looping(u, o, keys).uid = u
      /\ Looping(u, o, keys).old = o
  BY <1>2, <1>3 DEF Locals
<1> QED
  BY <1>4 DEF LocalsOK, UidPcs, OldPcs, NewPcs, InFlightPcs, PayloadPcs, ReassignPcs

\* What a step does to its handler keeps the types, if the locals fit.
LEMMA MoveType ==
  ASSUME TypeOK, NEW m \in Msg, NEW p \in Pcs, NEW l \in Locals,
         LocalsOK(p, l), Goto(m, p), SetLocals(m, l)
  PROVE  /\ pc' \in [Msg -> Pcs]
         /\ loc' \in [Msg -> Locals]
         /\ \A n \in Msg : LocalsOK(pc'[n], loc'[n])
BY DEF TypeOK, Goto, SetLocals

\* The same for a step that leaves the locals alone.
LEMMA GotoType ==
  ASSUME TypeOK, NEW m \in Msg, NEW p \in Pcs, LocalsOK(p, loc[m]), Goto(m, p),
         UNCHANGED loc
  PROVE  /\ pc' \in [Msg -> Pcs]
         /\ loc' \in [Msg -> Locals]
         /\ \A n \in Msg : LocalsOK(pc'[n], loc'[n])
<1>1. loc[m] \in Locals /\ SetLocals(m, loc[m])
  BY DEF TypeOK, SetLocals
<1> QED
  BY <1>1, MoveType

\* A write to one list of keys.
LEMMA HSetType ==
  ASSUME TypeOK, NEW u \in Uid, NEW keys \in SUBSET Key, HSetKeys(u, keys)
  PROVE  registered' \subseteq Uid /\ recipKeys' \in [Uid -> SUBSET Key]
BY DEF TypeOK, HSetKeys

\* A write to one pending count: its type, and what it leaves alone.
LEMMA SetPending ==
  ASSUME pending \in [Uid -> [Key -> Int]], NEW u \in Uid, NEW k \in Key,
         NEW n \in Int, pending' = [pending EXCEPT ![u][k] = n]
  PROVE  /\ pending' \in [Uid -> [Key -> Int]]
         /\ \A v \in Uid, j \in Key :
              pending'[v][j] = IF v = u /\ j = k THEN n ELSE pending[v][j]
<1>1. [pending[u] EXCEPT ![k] = n] \in [Key -> Int]
  OBVIOUS
<1>2. pending' = [pending EXCEPT ![u] = [pending[u] EXCEPT ![k] = n]]
  OBVIOUS
<1> QED
  BY <1>1, <1>2

LEMMA AddPendingType ==
  ASSUME pending \in [Uid -> [Key -> Int]], NEW u \in Uid, NEW k \in Key,
         NEW n \in Int, AddPending(u, k, n)
  PROVE  /\ pending' \in [Uid -> [Key -> Int]]
         /\ \A v \in Uid, j \in Key :
              pending'[v][j] = pending[v][j] + IF v = u /\ j = k THEN n ELSE 0
<1>1. pending[u][k] + n \in Int
  OBVIOUS
<1>2. pending' = [pending EXCEPT ![u][k] = pending[u][k] + n]
  BY DEF AddPending
<1> QED
  BY <1>1, <1>2, SetPending

\* RPUSH keeps the lists sequences of messages.
LEMMA RPushType ==
  ASSUME queue \in [Key -> Seq(Msg)], NEW m \in Msg, RPush(m)
  PROVE  queue' \in [Key -> Seq(Msg)]
<1>1. KeyOf[m] \in Key
  BY ShardingAssumption
<1>2. Append(queue[KeyOf[m]], m) \in Seq(Msg)
  BY <1>1
<1> QED
  BY <1>2 DEF RPush

LEMMA TypeInit == Init => TypeOK
<1> SUFFICES ASSUME Init PROVE TypeOK
  OBVIOUS
<1>1. NoLocals \in Locals
  BY DEF NoLocals, Locals
<1>2. \A m \in Msg : LocalsOK(pc[m], loc[m])
  BY DEF Init, ShardingInit, LocalsOK, UidPcs, OldPcs, NewPcs, InFlightPcs,
         PayloadPcs, ReassignPcs
<1> QED
  BY <1>1, <1>2 DEF Init, ShardingInit, TypeOK, Pcs, Phases, Busy
\* Every step of a handler, with or without an error, keeps the types.
LEMMA HandlerType ==
  ASSUME TypeOK, NEW m \in Msg, Handler(m), UNCHANGED pluginVars
  PROVE  TypeOK'
<1> DEFINE l == loc[m]
<1> USE ShardingAssumption
<1>a. l \in Locals /\ LocalsOK(pc[m], l) /\ KeyOf[m] \in Key
  BY DEF TypeOK
<1>b. \A u \in Uid \union {NoUid} : Chosen(u) \in Locals
  BY DEF Chosen, NoLocals, Locals
<1>c. NoLocals \in Locals
  BY DEF NoLocals, Locals
<1> USE DEF UidPcs, OldPcs, NewPcs, Pcs, InFlightPcs, PayloadPcs, ReassignPcs
<1>1. CASE Arrive(m) \/ Retry(m)
  <2> DEFINE u == recipKeyUid[KeyOf[m]]
             p == IF u = NoUid THEN "assign" ELSE "access"
  <2>1. Read(m, p, Chosen(u))
    BY <1>1 DEF Arrive, Retry, Lookup
  <2>2. u \in Uid \union {NoUid}
    BY <1>a DEF TypeOK
  <2>3. p \in Pcs /\ Chosen(u) \in Locals /\ LocalsOK(p, Chosen(u))
    BY <2>2, <1>b DEF LocalsOK, Chosen, NoLocals
  <2> QED
    BY <2>1, <2>3, ReadType
<1>2. CASE PickForAssign(m)
  <2>1. PICK u \in Candidates(registered, NoUid) :
          Read(m, "map", [l EXCEPT !.uid = u])
    BY <1>2 DEF PickForAssign
  <2>2. u \in Uid
    BY CandidatesRegistered DEF TypeOK
  <2>3. [l EXCEPT !.uid = u] \in Locals /\ LocalsOK("map", [l EXCEPT !.uid = u])
    BY <2>2, <1>a DEF LocalsOK, Locals
  <2> HIDE DEF l
  <2> QED
    BY <2>1, <2>3, ReadType
<1>3. CASE MapKey(m)
  BY <1>3, <1>a DEF MapKey, HSetUid, TypeOK, LocalsOK, Goto, pluginVars
<1>4. CASE ReadList(m)
  <2> DEFINE keys == recipKeys[l.uid]
             p == IF KeyOf[m] \in keys THEN "zero" ELSE "append"
             k == [l EXCEPT !.newKeys = keys]
  <2>1. l.uid \in Uid
    BY <1>4, <1>a DEF ReadList, LocalsOK
  <2>2. keys \in SUBSET Key
    BY <2>1 DEF TypeOK
  <2>3. k \in Locals /\ k.uid = l.uid
    BY <2>2, <1>a DEF Locals
  <2>4. p \in Pcs /\ LocalsOK(p, k)
    BY <2>1, <2>3 DEF LocalsOK
  <2>5. Read(m, p, k)
    BY <1>4 DEF ReadList
  <2> HIDE DEF p, k
  <2> QED
    BY <2>3, <2>4, <2>5, ReadType
<1>5. CASE AppendKey(m)
  <2>1. l.uid \in Uid /\ LocalsOK("zero", l)
    BY <1>5, <1>a DEF AppendKey, LocalsOK
  <2>2. WithKey(l.newKeys, KeyOf[m]) \in SUBSET Key
    BY <1>a DEF WithKey, Locals
  <2>3. registered' \subseteq Uid /\ recipKeys' \in [Uid -> SUBSET Key]
    BY <1>5, <2>1, <2>2, HSetType DEF AppendKey
  <2>4. /\ pc' \in [Msg -> Pcs]
        /\ loc' \in [Msg -> Locals]
        /\ \A n \in Msg : LocalsOK(pc'[n], loc'[n])
    BY <1>5, <2>1, GotoType DEF AppendKey
  <2> QED
    BY <1>5, <2>3, <2>4 DEF AppendKey, TypeOK, pluginVars
<1>6. CASE ZeroCount(m)
  <2>1. l.uid \in Uid /\ LocalsOK("access", l)
    BY <1>6, <1>a DEF ZeroCount, LocalsOK
  <2>2. pending' \in [Uid -> [Key -> Int]]
    BY <1>6, <1>a, <2>1, SetPending DEF ZeroCount, TypeOK
  <2>3. /\ pc' \in [Msg -> Pcs]
        /\ loc' \in [Msg -> Locals]
        /\ \A n \in Msg : LocalsOK(pc'[n], loc'[n])
    BY <1>6, <2>1, GotoType DEF ZeroCount
  <2> QED
    BY <1>6, <2>2, <2>3 DEF ZeroCount, TypeOK, maps, pluginVars
<1>7. CASE CheckAccess(m)
  BY <1>7, <1>a, <1>b DEF CheckAccess, Read, Goto, SetLocals, TypeOK, LocalsOK,
     Chosen, NoLocals, redis, maps, pluginVars
<1>8. CASE ReadAssigned(m)
  <2> DEFINE keys == recipKeys[l.uid]
             k == [l EXCEPT !.old = l.uid, !.assigned = keys, !.todo = keys]
  <2>1. l.uid \in Uid /\ keys \subseteq Key
    BY <1>8, <1>a DEF ReadAssigned, TypeOK, LocalsOK
  <2>2. k \in Locals /\ LocalsOK("probe", k)
    BY <2>1, <1>a DEF Locals, LocalsOK
  <2>3. LocalsOK("incr", l)
    BY <2>1 DEF LocalsOK
  <2>4. Read(m, "incr", l) \/ Read(m, "probe", k)
    BY <1>8 DEF ReadAssigned
  <2> HIDE DEF l, k
  <2> QED
    BY <2>2, <2>3, <2>4, <1>a, ReadType
<1>9. CASE Probe(m)
  <2>1. PICK k \in l.todo :
          \/ Read(m, "pick", Looping(l.uid, l.old, l.assigned))
          \/ Read(m, "incr", Chosen(l.uid))
          \/ Read(m, "probe", [l EXCEPT !.todo = l.todo \ {k}])
    BY <1>9 DEF Probe
  <2>2. l.uid \in Uid /\ l.old \in Uid
    BY <1>9, <1>a DEF Probe, LocalsOK
  <2>3. CASE Read(m, "pick", Looping(l.uid, l.old, l.assigned))
    <3> DEFINE k2 == Looping(l.uid, l.old, l.assigned)
    <3>1. l.assigned \in SUBSET Key
      BY <1>a DEF Locals
    <3>2. k2 \in Locals /\ LocalsOK("pick", k2)
      BY <2>2, <3>1, LoopingType
    <3> QED
      BY <2>3, <3>2, ReadType
  <2>4. CASE Read(m, "incr", Chosen(l.uid))
    <3>1. LocalsOK("incr", Chosen(l.uid))
      BY <2>2 DEF LocalsOK, Chosen, NoLocals
    <3> QED
      BY <2>4, <2>2, <3>1, <1>b, ReadType
  <2>5. CASE Read(m, "probe", [l EXCEPT !.todo = l.todo \ {k}])
    <3> DEFINE k3 == [l EXCEPT !.todo = l.todo \ {k}]
    <3>1. k3 \in Locals /\ LocalsOK("probe", k3)
      BY <2>2, <1>a DEF Locals, LocalsOK
    <3> QED
      BY <2>5, <3>1, ReadType
  <2> QED
    BY <2>1, <2>3, <2>4, <2>5
<1>10. CASE PickForReassign(m)
  <2>1. PICK u \in Candidates(registered, l.old), k \in l.todo :
          Read(m, "readOld", [l EXCEPT !.new = u, !.cur = k])
    BY <1>10 DEF PickForReassign
  <2>2. u \in Uid /\ k \in Key
    BY <1>a, CandidatesRegistered DEF TypeOK, Locals
  <2>3. /\ [l EXCEPT !.new = u, !.cur = k] \in Locals
        /\ LocalsOK("readOld", [l EXCEPT !.new = u, !.cur = k])
    BY <2>2, <1>a, <1>10 DEF LocalsOK, Locals, PickForReassign
  <2> HIDE DEF l
  <2> QED
    BY <2>1, <2>3, ReadType
<1>11. CASE ReadOldKeys(m)
  <2> DEFINE k == [l EXCEPT !.oldKeys = recipKeys[l.old]]
  <2>1. l.uid \in Uid /\ l.old \in Uid /\ l.new \in Uid /\ l.cur \in Key
    BY <1>11, <1>a DEF ReadOldKeys, LocalsOK
  <2>2. recipKeys[l.old] \in SUBSET Key
    BY <2>1 DEF TypeOK
  <2>3. k \in Locals /\ LocalsOK("readNew", k)
    BY <2>1, <2>2, <1>a DEF Locals, LocalsOK
  <2>4. Read(m, "readNew", k)
    BY <1>11 DEF ReadOldKeys
  <2> HIDE DEF k
  <2> QED
    BY <2>3, <2>4, ReadType
<1>12. CASE ReadNewKeys(m)
  <2> DEFINE k == [l EXCEPT !.newKeys = recipKeys[l.new]]
  <2>1. l.uid \in Uid /\ l.old \in Uid /\ l.new \in Uid /\ l.cur \in Key
    BY <1>12, <1>a DEF ReadNewKeys, LocalsOK
  <2>2. recipKeys[l.new] \in SUBSET Key
    BY <2>1 DEF TypeOK
  <2>3. k \in Locals /\ LocalsOK("drop", k)
    BY <2>1, <2>2, <1>a DEF Locals, LocalsOK
  <2>4. Read(m, "drop", k)
    BY <1>12 DEF ReadNewKeys
  <2> HIDE DEF k
  <2> QED
    BY <2>3, <2>4, ReadType
<1>13. CASE DropFromOld(m)
  <2> DEFINE k == [l EXCEPT !.oldKeys = {}]
  <2>1. l.uid \in Uid /\ l.old \in Uid /\ l.new \in Uid /\ l.cur \in Key
    BY <1>13, <1>a DEF DropFromOld, LocalsOK
  <2>2. l.oldKeys \ {l.cur} \in SUBSET Key
    BY <1>a DEF Locals
  <2>3. k \in Locals /\ LocalsOK("count", k)
    BY <2>1, <1>a DEF Locals, LocalsOK
  <2>4. registered' \subseteq Uid /\ recipKeys' \in [Uid -> SUBSET Key]
    BY <1>13, <2>1, <2>2, HSetType DEF DropFromOld, WithoutKey
  <2>5. Goto(m, "count") /\ SetLocals(m, k)
    BY <1>13 DEF DropFromOld
  <2> HIDE DEF k
  <2>6. /\ pc' \in [Msg -> Pcs]
        /\ loc' \in [Msg -> Locals]
        /\ \A n \in Msg : LocalsOK(pc'[n], loc'[n])
    BY <2>3, <2>5, MoveType
  <2> QED
    BY <1>13, <2>4, <2>6 DEF DropFromOld, TypeOK, pluginVars
<1>14. CASE TakeCount(m)
  <2> DEFINE k == [l EXCEPT !.count = pending[l.old][l.cur]]
  <2>1. l.uid \in Uid /\ l.old \in Uid /\ l.new \in Uid /\ l.cur \in Key
    BY <1>14, <1>a DEF TakeCount, LocalsOK
  <2>2. pending[l.old][l.cur] \in Int
    BY <2>1 DEF TypeOK
  <2>3. k \in Locals /\ LocalsOK("forget", k)
    BY <2>1, <2>2, <1>a DEF Locals, LocalsOK
  <2> QED
    BY <1>14, <2>3, ReadType DEF TakeCount
<1>15. CASE ForgetCount(m)
  <2>1. l.uid \in Uid /\ l.old \in Uid /\ l.new \in Uid /\ l.cur \in Key
    BY <1>15, <1>a DEF ForgetCount, LocalsOK
  <2>2. pending' \in [Uid -> [Key -> Int]]
    BY <1>15, <2>1, SetPending DEF ForgetCount, TypeOK
  <2>3. pc' \in [Msg -> Pcs] /\ loc' = loc
    BY <1>15 DEF ForgetCount, Goto, TypeOK
  <2>4. \A n \in Msg : LocalsOK(pc'[n], loc'[n])
    BY <1>15, <2>1 DEF ForgetCount, Goto, TypeOK, LocalsOK
  <2> QED
    BY <1>15, <2>2, <2>3, <2>4 DEF ForgetCount, TypeOK, maps, pluginVars
<1>16. CASE Remap(m)
  BY <1>16, <1>a DEF Remap, HSetUid, Goto, TypeOK, LocalsOK, pluginVars
<1>17. CASE AddToNew(m)
  <2>1. l.new \in Uid /\ l.cur \in Key /\ LocalsOK("carry", l)
    BY <1>17, <1>a DEF AddToNew, LocalsOK
  <2>2. WithKey(l.newKeys, l.cur) \in SUBSET Key
    BY <2>1, <1>a DEF WithKey, Locals
  <2>3. registered' \subseteq Uid /\ recipKeys' \in [Uid -> SUBSET Key]
    BY <1>17, <2>1, <2>2, HSetType DEF AddToNew
  <2>4. /\ pc' \in [Msg -> Pcs]
        /\ loc' \in [Msg -> Locals]
        /\ \A n \in Msg : LocalsOK(pc'[n], loc'[n])
    BY <1>17, <2>1, GotoType DEF AddToNew
  <2> QED
    BY <1>17, <2>3, <2>4 DEF AddToNew, TypeOK, pluginVars
<1>18. CASE CarryCount(m)
  <2> DEFINE rest == l.todo \ {l.cur}
             p == IF rest = {} THEN "updated" ELSE "pick"
             k == Looping(IF l.cur = KeyOf[m] THEN l.new ELSE l.uid, l.old, rest)
  <2>1. l.uid \in Uid /\ l.old \in Uid /\ l.new \in Uid /\ l.cur \in Key
    BY <1>18, <1>a DEF CarryCount, LocalsOK
  <2>2. l.count \in Int /\ rest \subseteq Key
    BY <1>a DEF Locals
  <2>3. p \in Pcs /\ k \in Locals /\ LocalsOK(p, k)
    <3>1. CASE l.cur = KeyOf[m]
      BY <2>1, <2>2, <3>1, LoopingType
    <3>2. CASE l.cur # KeyOf[m]
      BY <2>1, <2>2, <3>2, LoopingType
    <3> QED
      BY <3>1, <3>2
  <2>4. Goto(m, p) /\ SetLocals(m, k)
    BY <1>18 DEF CarryCount
  <2>5. pending' \in [Uid -> [Key -> Int]]
    BY <1>18, <2>1, <2>2, AddPendingType DEF CarryCount, TypeOK
  <2> HIDE DEF k, p
  <2>6. /\ pc' \in [Msg -> Pcs]
        /\ loc' \in [Msg -> Locals]
        /\ \A n \in Msg : LocalsOK(pc'[n], loc'[n])
    BY <2>3, <2>4, MoveType
  <2> QED
    BY <1>18, <2>5, <2>6 DEF CarryCount, TypeOK, maps, pluginVars
<1>19. CASE ReadUpdated(m)
  BY <1>19, <1>a DEF ReadUpdated, Read, Goto, SetLocals, TypeOK, LocalsOK,
     redis, maps, pluginVars
<1>20. CASE RemoveUid(m)
  BY <1>20, <1>a DEF RemoveUid, Goto, TypeOK, LocalsOK, pluginVars
<1>21. CASE Increment(m)
  <2>1. l.uid \in Uid /\ LocalsOK("push", l)
    BY <1>21, <1>a DEF Increment, LocalsOK
  <2>2. pending' \in [Uid -> [Key -> Int]]
    BY <1>21, <1>a, <2>1, AddPendingType DEF Increment, TypeOK
  <2>3. /\ pc' \in [Msg -> Pcs]
        /\ loc' \in [Msg -> Locals]
        /\ \A n \in Msg : LocalsOK(pc'[n], loc'[n])
    BY <1>21, <2>1, GotoType DEF Increment
  <2> QED
    BY <1>21, <2>2, <2>3 DEF Increment, TypeOK, maps, pluginVars
<1>22. CASE Push(m)
  BY <1>22, <1>a, <1>c DEF Push, RPush, Goto, SetLocals, TypeOK, LocalsOK, maps,
     pluginVars
<1>23. CASE PushError(m)
  <2>1. AfterPushError \in Pcs /\ LocalsOK(AfterPushError, NoLocals)
    BY DEF AfterPushError, LocalsOK
  <2>2. /\ pc' \in [Msg -> Pcs]
        /\ loc' \in [Msg -> Locals]
        /\ \A n \in Msg : LocalsOK(pc'[n], loc'[n])
    BY <1>23, <1>c, <2>1, MoveType DEF PushError
  <2>3. queue' \in [Key -> Seq(Msg)] /\ faults' \in Nat
    BY <1>23, RPushType DEF PushError, Fault, TypeOK
  <2> QED
    BY <1>23, <2>2, <2>3 DEF PushError, TypeOK, maps, pluginVars
<1>24. CASE RedisError(m)
  <2>1. "failed" \in Pcs /\ LocalsOK("failed", NoLocals)
    BY DEF LocalsOK
  <2>2. /\ pc' \in [Msg -> Pcs]
        /\ loc' \in [Msg -> Locals]
        /\ \A n \in Msg : LocalsOK(pc'[n], loc'[n])
    BY <1>24, <1>c, <2>1, MoveType DEF RedisError
  <2>3. pc[m] = "incr" => l.uid \in Uid
    BY <1>a DEF LocalsOK
  <2>4. pending' \in [Uid -> [Key -> Int]] /\ faults' \in Nat
    BY <1>24, <1>a, <2>3, AddPendingType DEF RedisError, Fault, TypeOK
  <2> QED
    BY <1>24, <2>2, <2>4 DEF RedisError, TypeOK, maps, pluginVars
<1> QED
  BY <1>1, <1>2, <1>3, <1>4, <1>5, <1>6, <1>7, <1>8, <1>9, <1>10, <1>11, <1>12,
     <1>13, <1>14, <1>15, <1>16, <1>17, <1>18, <1>19, <1>20, <1>21, <1>22, <1>23,
     <1>24 DEF Handler, HandlerStep, HandlerFault, Assign, Reassign

\* BLPOP takes a message off a list of messages.
LEMMA PopType ==
  ASSUME queue \in [Key -> Seq(Msg)], NEW k \in Key, queue[k] # <<>>,
         queue' = [queue EXCEPT ![k] = Tail(@)]
  PROVE  queue' \in [Key -> Seq(Msg)] /\ Head(queue[k]) \in Msg
<1>1. queue[k] \in Seq(Msg) /\ Tail(queue[k]) \in Seq(Msg) /\ Head(queue[k]) \in Msg
  OBVIOUS
<1> QED
  BY <1>1

\* Every step of a plugin, its end and the clock included, keeps the types.
LEMMA PluginType ==
  ASSUME TypeOK, NEW u \in Uid, Plugin(u)
  PROVE  TypeOK'
<1> USE ShardingAssumption, TransportAssumption
<1> USE DEF Phases, Busy
<1>1. CASE Register(u)
  BY <1>1 DEF Register, HSetKeys, Move, TypeOK
<1>2. CASE Fetch(u)
  BY <1>2 DEF Fetch, Move, TypeOK, shardingVars, redis, maps
<1>3. CASE Pop(u)
  <2>1. PICK k \in todo[u] :
          /\ todo' = [todo EXCEPT ![u] = @ \ {k}]
          /\ \/ /\ queue[k] # <<>>
                /\ hand' = [hand EXCEPT ![u] = Head(queue[k])]
                /\ queue' = [queue EXCEPT ![k] = Tail(@)]
                /\ Move(u, "touch")
             \/ /\ NextKey(u, todo[u] \ {k})
                /\ UNCHANGED <<hand, queue>>
    BY <1>3 DEF Pop, Popped
  <2>2. k \in Key
    BY DEF TypeOK
  <2>3. /\ UNCHANGED <<recipKeyUid, registered, recipKeys, pending, lastAccess,
                       pc, loc, faults, seen, received, lost>>
        /\ phase[u] = "pop"
    BY <1>3 DEF Pop, maps
  <2>4. todo' \in [Uid -> SUBSET Key]
    BY <2>1 DEF TypeOK
  <2>5. CASE queue[k] # <<>> /\ hand' = [hand EXCEPT ![u] = Head(queue[k])]
             /\ queue' = [queue EXCEPT ![k] = Tail(@)] /\ Move(u, "touch")
    <3>1. queue' \in [Key -> Seq(Msg)] /\ Head(queue[k]) \in Msg
      BY <2>2, <2>5, PopType DEF TypeOK
    <3> QED
      BY <2>3, <2>4, <2>5, <3>1 DEF TypeOK, Move
  <2>6. CASE NextKey(u, todo[u] \ {k}) /\ UNCHANGED <<hand, queue>>
    BY <2>3, <2>4, <2>6 DEF TypeOK, NextKey, Move
  <2> QED
    BY <2>1, <2>5, <2>6
<1>4. CASE PopError(u)
  <2>1. PICK k \in todo[u] : /\ queue[k] # <<>>
                             /\ lost' = lost \union {Head(queue[k])}
                             /\ queue' = [queue EXCEPT ![k] = Tail(@)]
    BY <1>4 DEF PopError
  <2>2. k \in Key
    BY DEF TypeOK
  <2>3. queue' \in [Key -> Seq(Msg)] /\ lost' \subseteq Msg
    BY <2>1, <2>2, PopType DEF TypeOK
  <2> QED
    BY <1>4, <2>3 DEF PopError, Fault, TypeOK, maps
<1>5. CASE Touch(u)
  BY <1>5 DEF Touch, Move, TypeOK, maps
<1>6. CASE ReadCount(u)
  BY <1>6 DEF ReadCount, Move, TypeOK, shardingVars, redis, maps
<1>7. CASE WriteCount(u)
  <2>1. KeyOf[hand[u]] \in Key /\ seen[u] - 1 \in Int
    BY <1>7 DEF WriteCount, TypeOK
  <2>2. pending' \in [Uid -> [Key -> Int]]
    BY <1>7, <2>1, SetPending DEF WriteCount, TypeOK
  <2> QED
    BY <1>7, <2>2 DEF WriteCount, Move, TypeOK, maps
<1>8. CASE Receive(u)
  BY <1>8 DEF Receive, NextKey, Move, TypeOK, shardingVars, redis, maps
<1>9. CASE Die(u)
  BY <1>9 DEF Die, Move, TypeOK, shardingVars, redis, maps
<1>10. CASE Age(u)
  BY <1>10 DEF Age, TypeOK, maps, pluginVars
<1> QED
  BY <1>1, <1>2, <1>3, <1>4, <1>5, <1>6, <1>7, <1>8, <1>9, <1>10
  DEF Plugin, PluginStep

\* The types hold of every behaviour: in particular no handler passes the choice
\* of a plugin without one, and no plugin handles a message it has not popped.
THEOREM TypeCorrect == Spec => []TypeOK
<1>1. TypeOK /\ [Next]_vars => TypeOK'
  <2>1. CASE UNCHANGED vars
    BY <2>1 DEF vars, shardingVars, redis, maps, pluginVars, TypeOK
  <2> QED
    BY <2>1, HandlerType, PluginType DEF Next
<1> QED
  BY TypeInit, <1>1, PTL DEF Spec

-----------------------------------------------------------------------------
(* Pending counts *)

\* PendingNonNegative made inductive: a count that a handler carries from one
\* plugin to another is not negative, and a plugin about to write a count back,
\* less one, has read a positive one.
CountsOK ==
  /\ PendingNonNegative
  /\ \A m \in Msg : loc[m].count >= 0
  /\ \A u \in Uid : phase[u] = "writeCount" => seen[u] >= 1

LEMMA CountsHandler ==
  ASSUME TypeOK, CountsOK, NEW m \in Msg, Handler(m), UNCHANGED pluginVars
  PROVE  CountsOK'
<1> DEFINE l == loc[m]
<1> USE ShardingAssumption
<1>a. l \in Locals /\ LocalsOK(pc[m], l) /\ l.count >= 0 /\ KeyOf[m] \in Key
  BY DEF TypeOK, CountsOK
<1>b. pending \in [Uid -> [Key -> Int]] /\ loc \in [Msg -> Locals]
  BY DEF TypeOK
\* It is enough that the step writes no negative count and keeps none.
<1>c. ASSUME \A u \in Uid, k \in Key : pending'[u][k] >= 0,
             \A n \in Msg : loc'[n].count >= 0
      PROVE  CountsOK'
  BY <1>c DEF CountsOK, PendingNonNegative, pluginVars
<1>d. ASSUME NEW l2, l2.count >= 0, SetLocals(m, l2)
      PROVE  \A n \in Msg : loc'[n].count >= 0
  BY <1>b, <1>d DEF SetLocals, CountsOK
<1>e. ASSUME UNCHANGED pending
      PROVE  \A u \in Uid, k \in Key : pending'[u][k] >= 0
  BY <1>e DEF CountsOK, PendingNonNegative
<1>f. ASSUME NEW p, NEW l2, l2.count >= 0, Read(m, p, l2)
      PROVE  CountsOK'
  BY <1>c, <1>d, <1>e, <1>f DEF Read, redis
<1>g. ASSUME UNCHANGED loc
      PROVE  \A n \in Msg : loc'[n].count >= 0
  BY <1>g DEF CountsOK
<1>h. NoLocals.count = 0 /\ \A u : Chosen(u).count = 0
  BY DEF NoLocals, Chosen
<1>i. \A u, o, keys : Looping(u, o, keys).count = 0
  BY DEF NoLocals, Looping
<1>j. ASSUME NEW u \in Uid, NEW k \in Key, NEW n \in Int, n >= 0, AddPending(u, k, n)
      PROVE  \A v \in Uid, j \in Key : pending'[v][j] >= 0
  BY <1>b, <1>j, AddPendingType DEF CountsOK, PendingNonNegative
<1>k. ASSUME NEW u \in Uid, NEW k \in Key, pending' = [pending EXCEPT ![u][k] = 0]
      PROVE  \A v \in Uid, j \in Key : pending'[v][j] >= 0
  BY <1>b, <1>k, SetPending DEF CountsOK, PendingNonNegative
<1>l. /\ pc[m] \in UidPcs => l.uid \in Uid
      /\ pc[m] \in OldPcs => l.old \in Uid
      /\ pc[m] \in NewPcs => l.new \in Uid /\ l.cur \in Key
  BY <1>a DEF LocalsOK
<1> USE DEF UidPcs, OldPcs, NewPcs, InFlightPcs, PayloadPcs, ReassignPcs
<1>1. CASE Arrive(m) \/ Retry(m) \/ CheckAccess(m)
  BY <1>1, <1>f, <1>h DEF Arrive, Retry, Lookup, CheckAccess
<1>2. CASE PickForAssign(m) \/ ReadList(m) \/ PickForReassign(m)
           \/ ReadOldKeys(m) \/ ReadNewKeys(m) \/ ReadUpdated(m)
  <2>1. \A u, k : /\ [l EXCEPT !.uid = u].count >= 0
                  /\ [l EXCEPT !.new = u, !.cur = k].count >= 0
                  /\ [l EXCEPT !.oldKeys = u].count >= 0
                  /\ [l EXCEPT !.newKeys = u].count >= 0
    BY <1>a DEF Locals
  <2>2. PICK p, l2 : l2.count >= 0 /\ Read(m, p, l2)
    BY <1>2, <2>1, <1>a DEF PickForAssign, ReadList, PickForReassign, ReadOldKeys,
       ReadNewKeys, ReadUpdated
  <2> QED
    BY <2>2, <1>f
<1>3. CASE ReadAssigned(m) \/ Probe(m)
  <2>1. /\ \A o, ks : [l EXCEPT !.old = o, !.assigned = ks, !.todo = ks].count >= 0
        /\ \A ks : [l EXCEPT !.todo = ks].count >= 0
    BY <1>a DEF Locals
  <2>2. CASE ReadAssigned(m)
    BY <2>1, <2>2, <1>a, <1>f DEF ReadAssigned
  <2>3. CASE Probe(m)
    <3>1. PICK k \in l.todo :
            \/ Read(m, "pick", Looping(l.uid, l.old, l.assigned))
            \/ Read(m, "incr", Chosen(l.uid))
            \/ Read(m, "probe", [l EXCEPT !.todo = l.todo \ {k}])
      BY <2>3 DEF Probe
    <3>2. /\ Looping(l.uid, l.old, l.assigned).count >= 0
          /\ Chosen(l.uid).count >= 0
          /\ [l EXCEPT !.todo = l.todo \ {k}].count >= 0
      BY <2>1, <1>h, <1>i
    <3> HIDE DEF l
    <3> QED
      BY <3>1, <3>2, <1>f
  <2> QED
    BY <1>3, <2>2, <2>3
<1>4. CASE TakeCount(m)
  <2>1. pending[l.old][l.cur] >= 0
    BY <1>4, <1>l DEF TakeCount, CountsOK, PendingNonNegative
  <2> QED
    BY <1>4, <2>1, <1>a, <1>f DEF TakeCount, Locals
<1>5. CASE MapKey(m) \/ AppendKey(m) \/ Remap(m) \/ AddToNew(m) \/ RemoveUid(m)
  BY <1>5, <1>c, <1>e, <1>g DEF MapKey, AppendKey, Remap, AddToNew, RemoveUid
<1>6. CASE DropFromOld(m)
  BY <1>6, <1>a, <1>c, <1>d, <1>e DEF DropFromOld, Locals
<1>7. CASE ZeroCount(m)
  BY <1>7, <1>a, <1>c, <1>g, <1>k, <1>l DEF ZeroCount
<1>8. CASE ForgetCount(m)
  BY <1>8, <1>c, <1>g, <1>k, <1>l DEF ForgetCount
<1>9. CASE CarryCount(m)
  <2>1. l.count \in Int
    BY <1>a DEF Locals
  <2>2. \A v \in Uid, j \in Key : pending'[v][j] >= 0
    BY <1>9, <2>1, <1>a, <1>l, <1>j DEF CarryCount
  <2>3. \A n \in Msg : loc'[n].count >= 0
    BY <1>9, <1>d, <1>i DEF CarryCount
  <2> QED
    BY <2>2, <2>3, <1>c
<1>10. CASE Increment(m)
  BY <1>10, <1>a, <1>c, <1>g, <1>j, <1>l DEF Increment
<1>11. CASE Push(m) \/ PushError(m)
  BY <1>11, <1>c, <1>d, <1>e, <1>h DEF Push, PushError
<1>12. CASE RedisError(m)
  <2>1. \A v \in Uid, j \in Key : pending'[v][j] >= 0
    BY <1>12, <1>a, <1>e, <1>j, <1>l DEF RedisError
  <2> QED
    BY <1>12, <2>1, <1>c, <1>d, <1>h DEF RedisError
<1> QED
  BY <1>1, <1>2, <1>3, <1>4, <1>5, <1>6, <1>7, <1>8, <1>9, <1>10, <1>11, <1>12
  DEF Handler, HandlerStep, HandlerFault, Assign, Reassign

LEMMA CountsPlugin ==
  ASSUME TypeOK, CountsOK, NEW u \in Uid, Plugin(u)
  PROVE  CountsOK'
<1> USE ShardingAssumption, TransportAssumption
<1>1. CASE Register(u) \/ Fetch(u) \/ Touch(u) \/ Receive(u) \/ Die(u) \/ Age(u)
  <2>1. UNCHANGED <<pending, loc>>
    BY <1>1 DEF Register, Fetch, Touch, Receive, Die, Age, shardingVars, redis, pluginVars
  <2>2. \A v \in Uid : phase'[v] = "writeCount" => phase[v] = "writeCount" /\ seen'[v] = seen[v]
    BY <1>1 DEF Register, Fetch, Touch, Receive, Die, Age, NextKey, Move, TypeOK,
       pluginVars
  <2> QED
    BY <2>1, <2>2 DEF CountsOK, PendingNonNegative
<1>2. CASE Pop(u) \/ PopError(u)
  BY <1>2 DEF Pop, PopError, NextKey, Move, TypeOK, CountsOK, PendingNonNegative
<1>3. CASE ReadCount(u)
  BY <1>3 DEF ReadCount, Counted, Move, TypeOK, CountsOK, PendingNonNegative, shardingVars,
     redis
<1>4. CASE WriteCount(u)
  <2>1. KeyOf[hand[u]] \in Key /\ seen[u] - 1 \in Int /\ seen[u] - 1 >= 0
    BY <1>4 DEF WriteCount, TypeOK, Busy, CountsOK
  <2>2. \A v \in Uid, j \in Key : pending'[v][j] >= 0
    BY <1>4, <2>1, SetPending DEF WriteCount, TypeOK, CountsOK, PendingNonNegative
  <2>3. \A v \in Uid : phase'[v] = "writeCount" => seen'[v] >= 1
    BY <1>4 DEF WriteCount, Move, TypeOK, CountsOK
  <2> QED
    BY <1>4, <2>2, <2>3 DEF WriteCount, CountsOK, PendingNonNegative
<1> QED
  BY <1>1, <1>2, <1>3, <1>4 DEF Plugin, PluginStep

\* No pending count is ever negative: not with any number of handlers whose
\* increments, resets and carried counts meet any number of plugins that read a
\* count and write it back later, less one (inbound.py:127-135).
THEOREM CountsNonNegative == Spec => []PendingNonNegative
<1>1. Init => CountsOK
  BY DEF Init, ShardingInit, NoLocals, CountsOK, PendingNonNegative
<1>2. TypeOK /\ CountsOK /\ [Next]_vars => CountsOK'
  <2>1. CASE UNCHANGED vars
    BY <2>1 DEF vars, shardingVars, redis, pluginVars, CountsOK, PendingNonNegative
  <2> QED
    BY <2>1, CountsHandler, CountsPlugin DEF Next
<1>3. CountsOK => PendingNonNegative
  BY DEF CountsOK
<1> QED
  BY <1>1, <1>2, <1>3, TypeCorrect, PTL DEF Spec

-----------------------------------------------------------------------------
(* The two views of an assignment *)

\* The keys that recip_key_uid_map assigns to a plugin.
Mapped == {k \in Key : recipKeyUid[k] # NoUid}

\* Every key a handler has read, and will write to some list, is mapped; and so
\* is the key of its message once it was assigned.
KeysMapped(m, p, l) ==
  /\ l.todo \union l.assigned \union l.oldKeys \union l.newKeys \subseteq Mapped
  /\ p \in NewPcs => l.cur \in Mapped
  /\ p \in UidPcs \ {"map"} => KeyOf[m] \in Mapped

\* ListedKeysAreMapped and QueuedKeysAreMapped made inductive.
MapsOK ==
  /\ ListedKeysAreMapped
  /\ QueuedKeysAreMapped
  /\ \A m \in Msg : KeysMapped(m, pc[m], loc[m])

\* The elements of a sequence without its head, and with one more.
LEMMA TailElements ==
  ASSUME NEW S, NEW s \in Seq(S), s # <<>>
  PROVE  /\ {Tail(s)[i] : i \in DOMAIN Tail(s)} \subseteq {s[i] : i \in DOMAIN s}
         /\ {s[i] : i \in DOMAIN s} \subseteq
               {Tail(s)[i] : i \in DOMAIN Tail(s)} \union {Head(s)}
<1>1. /\ Len(s) \in Nat \ {0}
      /\ DOMAIN s = 1 .. Len(s)
      /\ DOMAIN Tail(s) = 1 .. Len(s) - 1
      /\ \A i \in 1 .. Len(s) - 1 : Tail(s)[i] = s[i + 1]
      /\ Head(s) = s[1]
  BY HeadTailProperties, EmptySeq, LenProperties
<1>2. \A i \in DOMAIN Tail(s) : i + 1 \in DOMAIN s
  BY <1>1
<1>3. \A i \in DOMAIN s : i = 1 \/ (i - 1 \in DOMAIN Tail(s) /\ Tail(s)[i - 1] = s[i])
  BY <1>1
<1> QED
  BY <1>1, <1>2, <1>3

LEMMA AppendElements ==
  ASSUME NEW S, NEW s \in Seq(S), NEW x \in S
  PROVE  {Append(s, x)[i] : i \in DOMAIN Append(s, x)} =
           {s[i] : i \in DOMAIN s} \union {x}
<1>1. /\ Len(s) \in Nat
      /\ DOMAIN s = 1 .. Len(s)
      /\ DOMAIN Append(s, x) = 1 .. Len(s) + 1
      /\ \A i \in 1 .. Len(s) : Append(s, x)[i] = s[i]
      /\ Append(s, x)[Len(s) + 1] = x
  BY AppendProperties, LenProperties
<1>2. \A i \in DOMAIN Append(s, x) : i \in DOMAIN s \/ i = Len(s) + 1
  BY <1>1
<1>3. DOMAIN s \subseteq DOMAIN Append(s, x) /\ Len(s) + 1 \in DOMAIN Append(s, x)
  BY <1>1
<1> QED
  BY <1>1, <1>2, <1>3

\* BLPOP leaves nothing new on any list, and takes the head only.
LEMMA TailCopies ==
  ASSUME TypeOK, NEW k \in Key, queue[k] # <<>>,
         queue' = [queue EXCEPT ![k] = Tail(@)]
  PROVE  /\ \A j \in Key : Copies(j)' \subseteq Copies(j)
         /\ \A j \in Key : Copies(j) \subseteq Copies(j)' \union {Head(queue[k])}
<1>1. queue[k] \in Seq(Msg) /\ queue'[k] = Tail(queue[k])
  BY DEF TypeOK
<1>2. \A j \in Key \ {k} : Copies(j)' = Copies(j)
  BY DEF TypeOK, Copies
<1>3. /\ Copies(k) = {queue[k][i] : i \in DOMAIN queue[k]}
      /\ Copies(k)' = {Tail(queue[k])[i] : i \in DOMAIN Tail(queue[k])}
  BY <1>1 DEF Copies
<1> DEFINE s == queue[k]
           elements == {s[i] : i \in DOMAIN s}
           rest == {Tail(s)[i] : i \in DOMAIN Tail(s)}
<1>4. rest \subseteq elements /\ elements \subseteq rest \union {Head(s)}
  <2> HIDE DEF s
  <2>1. s \in Seq(Msg) /\ s # <<>>
    BY <1>1 DEF s
  <2> QED
    BY <2>1, TailElements
<1>5. Copies(k) = elements /\ Copies(k)' = rest
  BY <1>3
<1> HIDE DEF elements, rest
<1>6. /\ Copies(k)' \subseteq Copies(k)
      /\ Copies(k) \subseteq Copies(k)' \union {Head(queue[k])}
  BY <1>4, <1>5
<1> QED
  BY <1>2, <1>6

\* RPUSH adds the message to the list of its key.
LEMMA RPushCopies ==
  ASSUME TypeOK, NEW m \in Msg, RPush(m)
  PROVE  /\ Copies(KeyOf[m])' = Copies(KeyOf[m]) \union {m}
         /\ \A j \in Key \ {KeyOf[m]} : Copies(j)' = Copies(j)
<1>1. KeyOf[m] \in Key
  BY ShardingAssumption
<1>2. queue[KeyOf[m]] \in Seq(Msg) /\ queue'[KeyOf[m]] = Append(queue[KeyOf[m]], m)
  BY <1>1 DEF RPush, TypeOK
<1>3. \A j \in Key \ {KeyOf[m]} : queue'[j] = queue[j]
  BY DEF RPush, TypeOK
<1>4. Copies(KeyOf[m])' = Copies(KeyOf[m]) \union {m}
  <2> DEFINE s == queue[KeyOf[m]]
  <2>1. {Append(s, m)[i] : i \in DOMAIN Append(s, m)} =
          {s[i] : i \in DOMAIN s} \union {m}
    <3> HIDE DEF s
    <3>1. s \in Seq(Msg)
      BY <1>2 DEF s
    <3> QED
      BY <3>1, AppendElements
  <2>2. /\ Copies(KeyOf[m]) = {s[i] : i \in DOMAIN s}
        /\ Copies(KeyOf[m])' = {Append(s, m)[i] : i \in DOMAIN Append(s, m)}
    BY <1>2 DEF Copies
  <2> HIDE DEF s
  <2> QED
    BY <2>1, <2>2
<1>5. \A j \in Key \ {KeyOf[m]} : Copies(j)' = Copies(j)
  BY <1>3 DEF Copies
<1> QED
  BY <1>4, <1>5

\* A handler only ever overwrites the assignment of a key, with a plugin.
LEMMA MappedForHandler ==
  ASSUME TypeOK, NEW m \in Msg, Handler(m)
  PROVE  Mapped \subseteq Mapped'
<1> USE DEF UidPcs, NewPcs, OldPcs, InFlightPcs, PayloadPcs, ReassignPcs
<1>a. LocalsOK(pc[m], loc[m]) /\ KeyOf[m] \in Key
  BY ShardingAssumption DEF TypeOK
<1>1. CASE MapKey(m)
  BY <1>1, <1>a, ShardingAssumption DEF MapKey, HSetUid, LocalsOK, TypeOK, Mapped
<1>2. CASE Remap(m)
  BY <1>2, <1>a, ShardingAssumption DEF Remap, HSetUid, LocalsOK, TypeOK, Mapped
<1>3. CASE UNCHANGED recipKeyUid
  BY <1>3 DEF Mapped
<1>4. MapKey(m) \/ Remap(m) \/ UNCHANGED recipKeyUid
  BY DEF Handler, Arrive, HandlerStep, HandlerFault, Assign, Reassign, Retry,
     Lookup, PickForAssign, ReadList, AppendKey, ZeroCount, CheckAccess,
     ReadAssigned, Probe, PickForReassign, ReadOldKeys, ReadNewKeys, DropFromOld,
     TakeCount, ForgetCount, AddToNew, CarryCount, ReadUpdated, RemoveUid,
     Increment, Push, PushError, RedisError, Read, HSetKeys, redis, maps
<1> QED
  BY <1>1, <1>2, <1>3, <1>4

\* What a handler's step must establish.
LEMMA MapsStep ==
  ASSUME TypeOK, MapsOK, NEW m \in Msg, NEW p, NEW l,
         Mapped \subseteq Mapped', Goto(m, p), SetLocals(m, l),
         KeysMapped(m, p, l)', ListedKeysAreMapped', QueuedKeysAreMapped'
  PROVE  MapsOK'
<1> SUFFICES ASSUME NEW n \in Msg PROVE KeysMapped(n, pc[n], loc[n])'
  BY DEF MapsOK
<1>1. CASE n = m
  BY <1>1 DEF Goto, SetLocals, TypeOK
<1>2. CASE n # m
  <2>1. pc'[n] = pc[n] /\ loc'[n] = loc[n]
    BY <1>2 DEF Goto, SetLocals, TypeOK
  <2> QED
    BY <2>1 DEF MapsOK, KeysMapped
<1> QED
  BY <1>1, <1>2

\* A step that does not touch the lists of keys, or the queues, keeps their part.
LEMMA ListedStep ==
  ASSUME TypeOK, MapsOK, Mapped \subseteq Mapped',
         \A u \in Uid : recipKeys'[u] \subseteq recipKeys[u] \union Mapped'
  PROVE  ListedKeysAreMapped'
<1> SUFFICES ASSUME NEW u \in Uid, NEW k \in recipKeys'[u]
             PROVE  recipKeyUid'[k] # NoUid
  BY DEF ListedKeysAreMapped
<1>1. CASE k \in Mapped'
  BY <1>1 DEF Mapped
<1>2. CASE k \in recipKeys[u]
  BY <1>2 DEF Mapped, MapsOK, ListedKeysAreMapped, TypeOK
<1> QED
  BY <1>1, <1>2

LEMMA QueuedStep ==
  ASSUME TypeOK, MapsOK, Mapped \subseteq Mapped', UNCHANGED queue
  PROVE  QueuedKeysAreMapped'
<1> SUFFICES ASSUME NEW k \in Key, NEW m \in Copies(k)'
             PROVE  KeyOf[m] = k /\ recipKeyUid'[k] # NoUid
  BY DEF QueuedKeysAreMapped
<1>1. m \in Copies(k)
  BY DEF Copies
<1> QED
  BY <1>1 DEF MapsOK, QueuedKeysAreMapped, Mapped

LEMMA MapsHandler ==
  ASSUME TypeOK, MapsOK, NEW m \in Msg, Handler(m), UNCHANGED pluginVars
  PROVE  MapsOK'
<1> DEFINE l == loc[m]
<1> USE ShardingAssumption
<1>a. l \in Locals /\ LocalsOK(pc[m], l) /\ KeyOf[m] \in Key /\ KeysMapped(m, pc[m], l)
  BY DEF TypeOK, MapsOK
<1>b. SetLocals(m, l) <=> UNCHANGED loc
  BY DEF SetLocals, TypeOK
<1>c. Mapped \subseteq Mapped'
  BY MappedForHandler
\* What the lists hold is mapped.
<1>d. \A u \in Uid : recipKeys[u] \subseteq Mapped
  BY DEF MapsOK, ListedKeysAreMapped, Mapped, TypeOK
<1>e. ASSUME UNCHANGED recipKeys
      PROVE  ListedKeysAreMapped'
  BY <1>c, <1>e, ListedStep
<1>f. ASSUME NEW p, NEW l2, Goto(m, p), SetLocals(m, l2), KeysMapped(m, p, l2),
             ListedKeysAreMapped', UNCHANGED queue
      PROVE  MapsOK'
  <2>1. KeysMapped(m, p, l2)'
    BY <1>c, <1>f DEF KeysMapped
  <2> QED
    BY <1>c, <1>f, <2>1, MapsStep, QueuedStep
<1>g. ASSUME NEW p, NEW l2, Read(m, p, l2), KeysMapped(m, p, l2)
      PROVE  MapsOK'
  BY <1>e, <1>f, <1>g DEF Read, redis, maps
<1>h. NoLocals = [uid |-> NoUid, new |-> NoUid, old |-> NoUid, cur |-> NoKey,
                  todo |-> {}, assigned |-> {}, oldKeys |-> {}, newKeys |-> {},
                  count |-> 0]
  BY DEF NoLocals
<1>i. ASSUME NEW p, NEW u, p \notin NewPcs,
             p \in UidPcs \ {"map"} => KeyOf[m] \in Mapped
      PROVE  KeysMapped(m, p, Chosen(u))
  BY <1>h, <1>i DEF KeysMapped, Chosen
<1>j. ASSUME NEW keys, keys \subseteq Mapped, KeyOf[m] \in Mapped,
             NEW p, p \notin NewPcs, NEW u, NEW o
      PROVE  KeysMapped(m, p, Looping(u, o, keys))
  BY <1>h, <1>j DEF KeysMapped, Looping
<1>k. pc[m] \in UidPcs \ {"map"} => KeyOf[m] \in Mapped
  BY <1>a DEF KeysMapped
<1>l. l.todo \union l.assigned \union l.oldKeys \union l.newKeys \subseteq Mapped
  BY <1>a DEF KeysMapped
<1>m. /\ pc[m] \in UidPcs => l.uid \in Uid
      /\ pc[m] \in OldPcs => l.old \in Uid
      /\ pc[m] \in NewPcs => l.new \in Uid /\ l.cur \in Mapped
  BY <1>a DEF LocalsOK, KeysMapped
<1> USE DEF UidPcs, NewPcs, OldPcs, InFlightPcs, PayloadPcs, ReassignPcs
\* A write to one list: everything in it is mapped after the step.
<1>n. ASSUME NEW u \in Uid, NEW keys, keys \subseteq Mapped', HSetKeys(u, keys)
      PROVE  ListedKeysAreMapped'
  <2>1. \A v \in Uid : recipKeys'[v] \subseteq recipKeys[v] \union Mapped'
    BY <1>n DEF HSetKeys, TypeOK
  <2> QED
    BY <2>1, <1>c, ListedStep
<1>1. CASE Arrive(m) \/ Retry(m)
  <2> DEFINE u == recipKeyUid[KeyOf[m]]
  <2>1. CASE u = NoUid
    BY <1>1, <2>1, <1>g, <1>i DEF Arrive, Retry, Lookup
  <2>2. CASE u # NoUid
    <3>1. KeyOf[m] \in Mapped
      BY <2>2, <1>a DEF Mapped
    <3> QED
      BY <1>1, <2>2, <3>1, <1>g, <1>i DEF Arrive, Retry, Lookup
  <2> QED
    BY <2>1, <2>2
<1>2. CASE PickForAssign(m)
  <2>1. PICK u : Read(m, "map", [l EXCEPT !.uid = u])
    BY <1>2 DEF PickForAssign
  <2>2. KeysMapped(m, "map", [l EXCEPT !.uid = u])
    BY <1>a, <1>l DEF KeysMapped, Locals
  <2> QED
    BY <2>1, <2>2, <1>g
<1>3. CASE MapKey(m)
  <2>1. KeyOf[m] \in Mapped'
    BY <1>3, <1>a, <1>m DEF MapKey, HSetUid, Mapped, TypeOK
  <2>a. PICK now : now = l
    OBVIOUS
  <2>2. KeysMapped(m, "list", now)'
    BY <2>a, <2>1, <1>c, <1>l DEF KeysMapped
  <2>3. Goto(m, "list") /\ SetLocals(m, now) /\ UNCHANGED <<recipKeys, queue>>
    BY <2>a, <1>3, <1>b DEF MapKey
  <2> QED
    BY <2>2, <2>3, <1>c, <1>e, MapsStep, QueuedStep
<1>4. CASE ReadList(m) \/ ReadOldKeys(m) \/ ReadNewKeys(m)
  <2>1. PICK u \in Uid, p \in {"zero", "append", "readNew", "drop"} :
          /\ Read(m, p, [l EXCEPT !.newKeys = recipKeys[u]])
             \/ Read(m, p, [l EXCEPT !.oldKeys = recipKeys[u]])
          /\ KeyOf[m] \in Mapped
          /\ p \in NewPcs => l.cur \in Mapped
    BY <1>4, <1>k, <1>m DEF ReadList, ReadOldKeys, ReadNewKeys
  <2>2. /\ KeysMapped(m, p, [l EXCEPT !.newKeys = recipKeys[u]])
        /\ KeysMapped(m, p, [l EXCEPT !.oldKeys = recipKeys[u]])
    BY <2>1, <1>a, <1>d, <1>l DEF KeysMapped, Locals
  <2> QED
    BY <2>1, <2>2, <1>g
<1>5. CASE AppendKey(m)
  <2>1. WithKey(l.newKeys, KeyOf[m]) \subseteq Mapped'
    BY <1>5, <1>c, <1>k, <1>l DEF AppendKey, WithKey
  <2>2. ListedKeysAreMapped'
    BY <1>5, <2>1, <1>m, <1>n DEF AppendKey
  <2>3. KeysMapped(m, "zero", l)
    BY <1>5, <1>k, <1>l DEF AppendKey, KeysMapped
  <2> QED
    BY <1>5, <2>2, <2>3, <1>b, <1>f DEF AppendKey
<1>6. CASE ZeroCount(m) \/ ForgetCount(m) \/ Increment(m)
  <2>1. PICK p \in {"access", "remap", "push"} :
          /\ Goto(m, p)
          /\ KeyOf[m] \in Mapped
          /\ p \in NewPcs => l.cur \in Mapped
    BY <1>6, <1>k, <1>m DEF ZeroCount, ForgetCount, Increment
  <2>2. KeysMapped(m, p, l)
    BY <2>1, <1>l DEF KeysMapped
  <2>3. SetLocals(m, l) /\ UNCHANGED <<recipKeys, queue>>
    BY <1>6, <1>b DEF ZeroCount, ForgetCount, Increment, maps
  <2> QED
    BY <2>1, <2>2, <2>3, <1>e, <1>f
<1>7. CASE CheckAccess(m)
  BY <1>7, <1>g, <1>i, <1>k DEF CheckAccess
<1>8. CASE ReadAssigned(m)
  <2> DEFINE keys == recipKeys[l.uid]
             l2 == [l EXCEPT !.old = l.uid, !.assigned = keys, !.todo = keys]
  <2>1. KeysMapped(m, "incr", l) /\ keys \subseteq Mapped
    BY <1>8, <1>d, <1>k, <1>l, <1>m DEF ReadAssigned, KeysMapped
  <2>2. KeysMapped(m, "probe", l2)
    BY <1>8, <2>1, <1>a, <1>k, <1>l DEF ReadAssigned, KeysMapped, Locals
  <2>3. Read(m, "incr", l) \/ Read(m, "probe", l2)
    BY <1>8 DEF ReadAssigned
  <2> QED
    BY <2>1, <2>2, <2>3, <1>g
<1>9. CASE Probe(m)
  <2>1. PICK k \in l.todo :
          \/ Read(m, "pick", Looping(l.uid, l.old, l.assigned))
          \/ Read(m, "incr", Chosen(l.uid))
          \/ Read(m, "probe", [l EXCEPT !.todo = l.todo \ {k}])
    BY <1>9 DEF Probe
  <2>2. KeyOf[m] \in Mapped /\ l.assigned \subseteq Mapped
    BY <1>9, <1>k, <1>l DEF Probe
  <2>3. KeysMapped(m, "pick", Looping(l.uid, l.old, l.assigned))
    BY <2>2, <1>j
  <2>4. KeysMapped(m, "incr", Chosen(l.uid))
    BY <2>2, <1>i
  <2>5. KeysMapped(m, "probe", [l EXCEPT !.todo = l.todo \ {k}])
    BY <2>2, <1>a, <1>l DEF KeysMapped, Locals
  <2> HIDE DEF l
  <2> QED
    BY <2>1, <2>3, <2>4, <2>5, <1>g
<1>10. CASE PickForReassign(m)
  <2>1. PICK u \in Candidates(registered, l.old), k \in l.todo :
          Read(m, "readOld", [l EXCEPT !.new = u, !.cur = k])
    BY <1>10 DEF PickForReassign
  <2>2. KeysMapped(m, "readOld", [l EXCEPT !.new = u, !.cur = k])
    BY <1>10, <1>a, <1>k, <1>l DEF PickForReassign, KeysMapped, Locals
  <2> QED
    BY <2>1, <2>2, <1>g
<1>11. CASE DropFromOld(m)
  <2>1. l.oldKeys \ {l.cur} \subseteq Mapped'
    BY <1>c, <1>l
  <2>2. ListedKeysAreMapped'
    BY <1>11, <2>1, <1>m, <1>n DEF DropFromOld, WithoutKey
  <2>3. KeysMapped(m, "count", [l EXCEPT !.oldKeys = {}])
    BY <1>11, <1>a, <1>k, <1>l, <1>m DEF DropFromOld, KeysMapped, Locals
  <2> QED
    BY <1>11, <2>2, <2>3, <1>f DEF DropFromOld
<1>12. CASE TakeCount(m)
  <2>1. PICK n : Read(m, "forget", [l EXCEPT !.count = n])
    BY <1>12 DEF TakeCount
  <2>2. KeysMapped(m, "forget", [l EXCEPT !.count = n])
    BY <1>12, <1>a, <1>k, <1>l, <1>m DEF TakeCount, KeysMapped, Locals
  <2> QED
    BY <2>1, <2>2, <1>g
<1>13. CASE Remap(m)
  <2>1. KeysMapped(m, "add", l)
    BY <1>13, <1>k, <1>l, <1>m DEF Remap, KeysMapped
  <2>2. Goto(m, "add") /\ SetLocals(m, l) /\ UNCHANGED <<recipKeys, queue>>
    BY <1>13, <1>b DEF Remap
  <2> QED
    BY <2>1, <2>2, <1>e, <1>f
<1>14. CASE AddToNew(m)
  <2>1. WithKey(l.newKeys, l.cur) \subseteq Mapped'
    BY <1>14, <1>c, <1>l, <1>m DEF AddToNew, WithKey
  <2>2. ListedKeysAreMapped'
    BY <1>14, <2>1, <1>m, <1>n DEF AddToNew
  <2>3. KeysMapped(m, "carry", l)
    BY <1>14, <1>k, <1>l, <1>m DEF AddToNew, KeysMapped
  <2> QED
    BY <1>14, <2>2, <2>3, <1>b, <1>f DEF AddToNew
<1>15. CASE CarryCount(m)
  <2> DEFINE u == IF l.cur = KeyOf[m] THEN l.new ELSE l.uid
  <2>1. PICK p \in {"updated", "pick"} :
          Goto(m, p) /\ SetLocals(m, Looping(u, l.old, l.todo \ {l.cur}))
    BY <1>15 DEF CarryCount
  <2>2. KeysMapped(m, p, Looping(u, l.old, l.todo \ {l.cur}))
    BY <1>15, <1>j, <1>k, <1>l DEF CarryCount
  <2>3. UNCHANGED <<recipKeys, queue>>
    BY <1>15 DEF CarryCount, maps
  <2> QED
    BY <2>1, <2>2, <2>3, <1>e, <1>f
<1>16. CASE ReadUpdated(m)
  <2>1. KeysMapped(m, "remove", l) /\ KeysMapped(m, "incr", l)
    BY <1>16, <1>k, <1>l DEF ReadUpdated, KeysMapped
  <2> QED
    BY <1>16, <2>1, <1>g DEF ReadUpdated
<1>17. CASE RemoveUid(m)
  <2>1. KeysMapped(m, "incr", l)
    BY <1>17, <1>k, <1>l DEF RemoveUid, KeysMapped
  <2>2. \A v \in Uid : recipKeys'[v] \subseteq recipKeys[v] \union Mapped'
    BY <1>17 DEF RemoveUid, TypeOK
  <2> QED
    BY <1>17, <2>1, <2>2, <1>b, <1>c, <1>f, ListedStep DEF RemoveUid
<1>18. CASE RPush(m) /\ (Push(m) \/ PushError(m))
  <2>1. QueuedKeysAreMapped'
    <3> SUFFICES ASSUME NEW k \in Key, NEW n \in Copies(k)'
                 PROVE  KeyOf[n] = k /\ recipKeyUid'[k] # NoUid
      BY DEF QueuedKeysAreMapped
    <3>1. pc[m] = "push" /\ UNCHANGED recipKeyUid
      BY <1>18 DEF Push, PushError, maps
    <3>2. n \in Copies(k) \/ (n = m /\ k = KeyOf[m])
      BY <1>18, RPushCopies
    <3> QED
      BY <3>1, <3>2, <1>k DEF MapsOK, QueuedKeysAreMapped, Mapped
  <2>2. PICK p \in {"done", "retry", "failed"} : Goto(m, p) /\ SetLocals(m, NoLocals)
    BY <1>18 DEF Push, PushError, AfterPushError
  <2>3. KeysMapped(m, p, NoLocals)'
    BY <1>h DEF KeysMapped
  <2>4. UNCHANGED recipKeys
    BY <1>18 DEF Push, PushError, maps
  <2> QED
    BY <2>1, <2>2, <2>3, <2>4, <1>c, <1>e, MapsStep
<1>19. CASE UNCHANGED queue /\ (PushError(m) \/ RedisError(m))
  <2>1. PICK p \in {"retry", "failed"} : Goto(m, p) /\ SetLocals(m, NoLocals)
    BY <1>19 DEF PushError, RedisError, AfterPushError
  <2>2. KeysMapped(m, p, NoLocals)
    BY <1>h DEF KeysMapped
  <2>3. UNCHANGED recipKeys
    BY <1>19 DEF PushError, RedisError, maps
  <2> QED
    BY <1>19, <2>1, <2>2, <2>3, <1>e, <1>f
<1>20. Push(m) \/ PushError(m) \/ RedisError(m) =>
         \/ RPush(m) /\ (Push(m) \/ PushError(m))
         \/ UNCHANGED queue /\ (PushError(m) \/ RedisError(m))
  BY DEF Push, PushError, RedisError
<1> QED
  BY <1>1, <1>2, <1>3, <1>4, <1>5, <1>6, <1>7, <1>8, <1>9, <1>10, <1>11, <1>12,
     <1>13, <1>14, <1>15, <1>16, <1>17, <1>18, <1>19, <1>20
  DEF Handler, HandlerStep, HandlerFault, Assign, Reassign

LEMMA MapsPlugin ==
  ASSUME TypeOK, MapsOK, NEW u \in Uid, Plugin(u)
  PROVE  MapsOK'
<1>1. UNCHANGED <<recipKeyUid, pc, loc>>
  BY DEF Plugin, PluginStep, Register, Fetch, Pop, PopError, Touch, ReadCount,
     WriteCount, Receive, Die, Age, shardingVars, redis, maps
<1>2. Mapped \subseteq Mapped' /\ \A m \in Msg : KeysMapped(m, pc[m], loc[m])'
  BY <1>1 DEF MapsOK, KeysMapped, Mapped
<1>3. \A v \in Uid : recipKeys'[v] \subseteq recipKeys[v]
  <2>1. CASE Register(u)
    BY <2>1 DEF Register, HSetKeys, TypeOK
  <2>2. CASE UNCHANGED recipKeys
    BY <2>2
  <2> QED
    BY <2>1, <2>2 DEF Plugin, PluginStep, Fetch, Pop, PopError, Touch, ReadCount,
       WriteCount, Receive, Die, Age, shardingVars, redis, maps
<1>4. ListedKeysAreMapped'
  BY <1>2, <1>3, ListedStep
<1>5. \A k \in Key : Copies(k)' \subseteq Copies(k)
  <2>1. CASE Pop(u) \/ PopError(u)
    <3>1. PICK k \in todo[u] :
            \/ queue[k] # <<>> /\ queue' = [queue EXCEPT ![k] = Tail(@)]
            \/ UNCHANGED queue
      BY <2>1 DEF Pop, Popped, PopError
    <3>2. k \in Key
      BY DEF TypeOK
    <3>3. CASE UNCHANGED queue
      BY <3>3 DEF Copies
    <3> QED
      BY <3>1, <3>2, <3>3, TailCopies
  <2>2. CASE UNCHANGED queue
    BY <2>2 DEF Copies
  <2> QED
    BY <2>1, <2>2 DEF Plugin, PluginStep, Register, Fetch, Touch, ReadCount,
       WriteCount, Receive, Die, Age, shardingVars, redis
<1>6. QueuedKeysAreMapped'
  BY <1>1, <1>5 DEF MapsOK, QueuedKeysAreMapped
<1> QED
  BY <1>2, <1>4, <1>6 DEF MapsOK

THEOREM MapsInvariant == Spec => []MapsOK
<1>1. Init => MapsOK
  BY DEF Init, ShardingInit, NoLocals, MapsOK, ListedKeysAreMapped,
     QueuedKeysAreMapped, Copies, KeysMapped, NewPcs, UidPcs, InFlightPcs,
     PayloadPcs, ReassignPcs
<1>2. TypeOK /\ MapsOK /\ [Next]_vars => MapsOK'
  <2>1. CASE UNCHANGED vars
    BY <2>1 DEF vars, shardingVars, redis, maps, MapsOK, ListedKeysAreMapped,
       QueuedKeysAreMapped, Copies, KeysMapped, Mapped
  <2> QED
    BY <2>1, MapsHandler, MapsPlugin DEF Next
<1> QED
  BY <1>1, <1>2, TypeCorrect, PTL DEF Spec

\* Whatever lists are written back from stale reads, and whichever command of an
\* assignment fails, a key a plugin is told to poll is one that is assigned
\* (assign_recip_key_to_new_uid and reassign_recip_key_to_uid write the map
\* before the list of the new uid).
THEOREM ListedMapped == Spec => []ListedKeysAreMapped
BY MapsInvariant, PTL DEF MapsOK

\* A waiting message is on the list of its own key, and that key is assigned.
THEOREM QueuedMapped == Spec => []QueuedKeysAreMapped
BY MapsInvariant, PTL DEF MapsOK

-----------------------------------------------------------------------------
(* Accepted messages *)

\* AcceptedIsAccountedFor made inductive: a plugin at the top of its loop, or
\* polling, holds no message that the next BLPOP could overwrite.
AccountsOK ==
  /\ AcceptedIsAccountedFor
  /\ \A u \in Uid : phase[u] \notin Busy => hand[u] = NoMsg

LEMMA AccountsHandler ==
  ASSUME TypeOK, AccountsOK, NEW m \in Msg, Handler(m), UNCHANGED pluginVars
  PROVE  AccountsOK'
<1>a. KeyOf[m] \in Key /\ \A n \in Msg : KeyOf[n] \in Key
  BY ShardingAssumption
<1>1. UNCHANGED queue \/ RPush(m)
  BY DEF Handler, Arrive, HandlerStep, HandlerFault, Assign, Reassign, Retry,
     Lookup, PickForAssign, MapKey, ReadList, AppendKey, ZeroCount, CheckAccess,
     ReadAssigned, Probe, PickForReassign, ReadOldKeys, ReadNewKeys, DropFromOld,
     TakeCount, ForgetCount, Remap, AddToNew, CarryCount, ReadUpdated, RemoveUid,
     Increment, Push, PushError, RedisError, Read, redis
<1>2. \A k \in Key : Copies(k) \subseteq Copies(k)'
  <2>1. CASE UNCHANGED queue
    BY <2>1 DEF Copies
  <2> QED
    BY <1>1, <2>1, RPushCopies
<1>3. RPush(m) => m \in Copies(KeyOf[m])'
  BY RPushCopies
<1>4. \A n \in Msg : pc'[n] = "done" => pc[n] = "done" \/ (n = m /\ RPush(m))
  <2>1. CASE Push(m)
    BY <2>1 DEF Push, Goto, TypeOK
  <2>2. CASE \E p \in Pcs \ {"done"} : Goto(m, p)
    BY <2>2 DEF Goto, TypeOK
  <2>3. Push(m) \/ \E p \in Pcs \ {"done"} : Goto(m, p)
    BY DEF Handler, Arrive, HandlerStep, HandlerFault, Assign, Reassign, Retry,
       Lookup, PickForAssign, MapKey, ReadList, AppendKey, ZeroCount, CheckAccess,
       ReadAssigned, Probe, PickForReassign, ReadOldKeys, ReadNewKeys, DropFromOld,
       TakeCount, ForgetCount, Remap, AddToNew, CarryCount, ReadUpdated, RemoveUid,
       Increment, PushError, RedisError, AfterPushError, Read,
       Pcs, InFlightPcs, PayloadPcs, ReassignPcs
  <2> QED
    BY <2>1, <2>2, <2>3
<1>5. \A n \in Msg : Accounted(n) => Accounted(n)'
  BY <1>2, <1>a DEF Accounted, pluginVars
<1>6. RPush(m) => Accounted(m)'
  BY <1>3 DEF Accounted
<1> QED
  BY <1>4, <1>5, <1>6 DEF AccountsOK, AcceptedIsAccountedFor, pluginVars

LEMMA AccountsPlugin ==
  ASSUME TypeOK, AccountsOK, NEW u \in Uid, Plugin(u)
  PROVE  AccountsOK'
<1> USE TransportAssumption DEF Busy
<1>a. \A n \in Msg : KeyOf[n] \in Key
  BY ShardingAssumption
<1>b. ASSUME UNCHANGED pc, \A n \in Msg : Accounted(n) => Accounted(n)'
      PROVE  AcceptedIsAccountedFor'
  BY <1>b DEF AccountsOK, AcceptedIsAccountedFor
<1>1. CASE Register(u) \/ Fetch(u) \/ Touch(u) \/ ReadCount(u) \/ WriteCount(u) \/ Age(u)
  <2>1. UNCHANGED <<pc, queue, hand, received, lost>>
    BY <1>1 DEF Register, Fetch, Touch, ReadCount, WriteCount, Age, shardingVars,
       redis, pluginVars
  <2>2. \A n \in Msg : Accounted(n) => Accounted(n)'
    BY <2>1 DEF Accounted, Copies
  <2>3. \A v \in Uid : phase'[v] \notin Busy => hand'[v] = NoMsg
    BY <1>1 DEF Register, Fetch, Touch, ReadCount, WriteCount, Age, Move, pluginVars,
       AccountsOK, TypeOK
  <2> QED
    BY <2>1, <2>2, <2>3, <1>b DEF AccountsOK
<1>2. CASE Pop(u)
  <2>1. PICK k \in todo[u] :
          \/ /\ queue[k] # <<>>
             /\ hand' = [hand EXCEPT ![u] = Head(queue[k])]
             /\ queue' = [queue EXCEPT ![k] = Tail(@)]
             /\ Move(u, "touch")
          \/ /\ NextKey(u, todo[u] \ {k})
             /\ UNCHANGED <<hand, queue>>
    BY <1>2 DEF Pop, Popped
  <2>2. k \in Key /\ phase[u] = "pop" /\ hand[u] = NoMsg
        /\ UNCHANGED <<pc, received, lost>>
    BY <1>2 DEF Pop, TypeOK, AccountsOK
  <2>3. CASE queue[k] # <<>> /\ hand' = [hand EXCEPT ![u] = Head(queue[k])]
             /\ queue' = [queue EXCEPT ![k] = Tail(@)] /\ Move(u, "touch")
    <3>1. /\ \A j \in Key : Copies(j) \subseteq Copies(j)' \union {Head(queue[k])}
          /\ hand'[u] = Head(queue[k])
          /\ \A v \in Uid : v # u => hand'[v] = hand[v]
      BY <2>2, <2>3, TailCopies DEF TypeOK
    <3>2. \A n \in Msg : Accounted(n) => Accounted(n)'
      BY <3>1, <2>2, <1>a DEF Accounted
    <3>3. \A v \in Uid : phase'[v] \notin Busy => hand'[v] = NoMsg
      BY <2>3, <3>1 DEF Move, AccountsOK, TypeOK
    <3> QED
      BY <2>2, <3>2, <3>3, <1>b DEF AccountsOK
  <2>4. CASE NextKey(u, todo[u] \ {k}) /\ UNCHANGED <<hand, queue>>
    <3>1. \A n \in Msg : Accounted(n) => Accounted(n)'
      BY <2>2, <2>4 DEF Accounted, Copies
    <3>2. \A v \in Uid : phase'[v] \notin Busy => hand'[v] = NoMsg
      BY <2>2, <2>4 DEF NextKey, Move, AccountsOK, TypeOK
    <3> QED
      BY <2>2, <3>1, <3>2, <1>b DEF AccountsOK
  <2> QED
    BY <2>1, <2>3, <2>4
<1>3. CASE PopError(u)
  <2>1. PICK k \in todo[u] : /\ queue[k] # <<>>
                             /\ lost' = lost \union {Head(queue[k])}
                             /\ queue' = [queue EXCEPT ![k] = Tail(@)]
    BY <1>3 DEF PopError
  <2>2. k \in Key /\ UNCHANGED <<pc, received, hand, phase>>
    BY <1>3 DEF PopError, TypeOK
  <2>3. \A j \in Key : Copies(j) \subseteq Copies(j)' \union lost'
    BY <2>1, <2>2, TailCopies
  <2>4. \A n \in Msg : Accounted(n) => Accounted(n)'
    BY <2>1, <2>2, <2>3, <1>a DEF Accounted
  <2> QED
    BY <2>2, <2>4, <1>b DEF AccountsOK
<1>4. CASE Receive(u)
  <2>1. hand[u] \in Msg /\ received'[hand[u]] > 0
    BY <1>4 DEF Receive, TypeOK
  <2>2. /\ \A n \in Msg : received[n] > 0 => received'[n] > 0
        /\ \A v \in Uid : v # u => hand'[v] = hand[v]
        /\ hand'[u] = NoMsg
        /\ UNCHANGED <<pc, queue, lost>>
    BY <1>4, <2>1 DEF Receive, TypeOK, shardingVars, redis
  <2>3. \A n \in Msg : Accounted(n) => Accounted(n)'
    BY <2>1, <2>2 DEF Accounted, Copies
  <2>4. \A v \in Uid : phase'[v] \notin Busy => hand'[v] = NoMsg
    BY <1>4, <2>2 DEF Receive, NextKey, Move, AccountsOK, TypeOK
  <2> QED
    BY <2>2, <2>3, <2>4, <1>b DEF AccountsOK
<1>5. CASE Die(u)
  <2>1. /\ \A v \in Uid : v # u => hand'[v] = hand[v]
        /\ hand'[u] = NoMsg
        /\ lost' = lost \union ({hand[u]} \ {NoMsg})
        /\ UNCHANGED <<pc, queue, received>>
    BY <1>5 DEF Die, TypeOK, shardingVars, redis
  <2>2. \A n \in Msg : Accounted(n) => Accounted(n)'
    BY <2>1 DEF Accounted, Copies
  <2>3. \A v \in Uid : phase'[v] \notin Busy => hand'[v] = NoMsg
    BY <1>5, <2>1 DEF Die, Move, AccountsOK, TypeOK
  <2> QED
    BY <2>1, <2>2, <2>3, <1>b DEF AccountsOK
<1> QED
  BY <1>1, <1>2, <1>3, <1>4, <1>5 DEF Plugin, PluginStep

LEMMA AccountsInvariant == Spec => []AccountsOK
<1>1. Init => AccountsOK
  BY DEF Init, ShardingInit, AccountsOK, AcceptedIsAccountedFor
<1>2. TypeOK /\ AccountsOK /\ [Next]_vars => AccountsOK'
  <2>1. CASE UNCHANGED vars
    BY <2>1 DEF vars, shardingVars, redis, pluginVars, AccountsOK,
       AcceptedIsAccountedFor, Accounted, Copies
  <2> QED
    BY <2>1, AccountsHandler, AccountsPlugin DEF Next
<1> QED
  BY <1>1, <1>2, TypeCorrect, PTL DEF Spec

\* A message whose handler saw its push acknowledged is never silently gone,
\* for any number of Redis errors, retries and plugins: it waits, is held, was
\* received, or was dropped by a plugin that stopped or by a lost BLPOP answer.
THEOREM AcceptedAccounted == Spec => []AcceptedIsAccountedFor
BY AccountsInvariant, PTL DEF AccountsOK

-----------------------------------------------------------------------------
(* Redis errors *)

\* Whatever raises is counted.
LEMMA OnlyFaults ==
  ASSUME [Next]_vars
  PROVE  Fault \/ UNCHANGED faults
<1>1. ASSUME NEW m \in Msg, Handler(m)
      PROVE  Fault \/ UNCHANGED faults
  BY <1>1 DEF Handler, Arrive, HandlerStep, HandlerFault, Assign, Reassign, Retry,
     Lookup, PickForAssign, MapKey, ReadList, AppendKey, ZeroCount, CheckAccess,
     ReadAssigned, Probe, PickForReassign, ReadOldKeys, ReadNewKeys, DropFromOld,
     TakeCount, ForgetCount, Remap, AddToNew, CarryCount, ReadUpdated, RemoveUid,
     Increment, Push, PushError, RedisError, Read
<1>2. ASSUME NEW u \in Uid, Plugin(u)
      PROVE  Fault \/ UNCHANGED faults
  BY <1>2 DEF Plugin, PluginStep, Register, Fetch, Pop, PopError, Touch, ReadCount,
     WriteCount, Receive, Die, Age, shardingVars
<1>3. CASE UNCHANGED vars
  BY <1>3 DEF vars, shardingVars
<1> QED
  BY <1>1, <1>2, <1>3 DEF Next

\* MaxFaults = 0: Redis never fails.
NoFault == faults = 0

LEMMA NeverFaults ==
  ASSUME MaxFaults = 0
  PROVE  Spec => []NoFault
<1>1. Init => NoFault
  BY DEF Init, ShardingInit, NoFault
<1>2. NoFault /\ [Next]_vars => NoFault'
  BY OnlyFaults DEF NoFault, Fault
<1> QED
  BY <1>1, <1>2, PTL DEF Spec
=============================================================================
