--------------------------- MODULE HandoverProofs ---------------------------
(* InboundTransport implements InboundContract when Redis never fails: an      *)
(* accepted message is in one place at a time until a session has it or it is  *)
(* dropped with its plugin.                                                    *)
EXTENDS InboundProofs

-----------------------------------------------------------------------------
(* A message on a list *)

On(q, m) == \E i \in DOMAIN q : q[i] = m
Once(q, m) == \A i, j \in DOMAIN q : q[i] = m /\ q[j] = m => i = j

\* BLPOP takes the only copy of the head, and nothing else.
LEMMA TailOnce ==
  ASSUME NEW S, NEW q \in Seq(S), q # <<>>, NEW m, Once(q, m)
  PROVE  /\ Once(Tail(q), m)
         /\ On(Tail(q), m) <=> On(q, m) /\ Head(q) # m
         /\ Head(q) = m => On(q, m)
<1>1. /\ Len(q) \in Nat \ {0}
      /\ DOMAIN q = 1 .. Len(q)
      /\ DOMAIN Tail(q) = 1 .. Len(q) - 1
      /\ \A i \in 1 .. Len(q) - 1 : Tail(q)[i] = q[i + 1]
      /\ Head(q) = q[1]
  BY HeadTailProperties, EmptySeq, LenProperties
<1>2. ASSUME NEW i \in DOMAIN Tail(q)
      PROVE  i \in Nat \ {0} /\ i + 1 \in DOMAIN q /\ i + 1 # 1 /\ Tail(q)[i] = q[i + 1]
  BY <1>1
<1>3. ASSUME NEW j \in DOMAIN q, j # 1
      PROVE  j - 1 \in DOMAIN Tail(q) /\ Tail(q)[j - 1] = q[j]
  <2>1. j \in Nat /\ j - 1 \in 1 .. Len(q) - 1 /\ (j - 1) + 1 = j
    BY <1>1, <1>3
  <2>2. Tail(q)[j - 1] = q[(j - 1) + 1]
    BY <1>1, <2>1
  <2> QED
    BY <1>1, <2>1, <2>2
<1>4. Once(Tail(q), m)
  <2> SUFFICES ASSUME NEW i \in DOMAIN Tail(q), NEW j \in DOMAIN Tail(q),
                      Tail(q)[i] = m, Tail(q)[j] = m
               PROVE  i = j
    BY DEF Once
  <2>1. i + 1 = j + 1
    BY <1>2 DEF Once
  <2> QED
    BY <1>2, <2>1
<1>5. 1 \in DOMAIN q
  BY <1>1
<1>6. On(Tail(q), m) => On(q, m) /\ Head(q) # m
  BY <1>1, <1>2, <1>5 DEF On, Once
<1>7. On(q, m) /\ Head(q) # m => On(Tail(q), m)
  BY <1>1, <1>3 DEF On
<1> QED
  BY <1>1, <1>4, <1>5, <1>6, <1>7 DEF On

LEMMA HeadOn ==
  ASSUME NEW S, NEW q \in Seq(S), q # <<>>
  PROVE  On(q, Head(q))
<1>1. Len(q) \in Nat \ {0} /\ DOMAIN q = 1 .. Len(q) /\ Head(q) = q[1]
  BY HeadTailProperties, EmptySeq, LenProperties
<1>2. 1 \in DOMAIN q
  BY <1>1
<1> QED
  BY <1>1, <1>2 DEF On

\* RPUSH adds a copy, at the end.
LEMMA AppendOnce ==
  ASSUME NEW S, NEW q \in Seq(S), NEW x \in S, NEW m, Once(q, m), m = x => ~ On(q, m)
  PROVE  /\ Once(Append(q, x), m)
         /\ On(Append(q, x), m) <=> On(q, m) \/ m = x
<1>1. /\ Len(q) \in Nat
      /\ DOMAIN q = 1 .. Len(q)
      /\ DOMAIN Append(q, x) = 1 .. Len(q) + 1
      /\ \A i \in 1 .. Len(q) : Append(q, x)[i] = q[i]
      /\ Append(q, x)[Len(q) + 1] = x
  BY AppendProperties, LenProperties
<1>2. ASSUME NEW i \in DOMAIN Append(q, x)
      PROVE  \/ i \in DOMAIN q /\ Append(q, x)[i] = q[i]
             \/ i = Len(q) + 1 /\ Append(q, x)[i] = x
  BY <1>1
<1>3. DOMAIN q \subseteq DOMAIN Append(q, x) /\ Len(q) + 1 \in DOMAIN Append(q, x)
  BY <1>1
<1>4. Once(Append(q, x), m)
  BY <1>2 DEF Once, On
<1>5. On(Append(q, x), m) <=> On(q, m) \/ m = x
  BY <1>1, <1>2, <1>3 DEF On
<1> QED
  BY <1>4, <1>5

-----------------------------------------------------------------------------
(* One place at a time *)

Waits(m) == On(queue[KeyOf[m]], m)
Held(m) == \E u \in Uid : hand[u] = m

\* A message that is waiting or held was pushed by its handler, and is neither
\* received nor lost; before its handler is done there is nothing of it.
Single(m) ==
  /\ Once(queue[KeyOf[m]], m)
  /\ \A u, v \in Uid : hand[u] = m /\ hand[v] = m => u = v
  /\ Waits(m) => ~ Held(m)
  /\ Waits(m) \/ Held(m) => pc[m] = "done" /\ received[m] = 0 /\ m \notin lost
  /\ received[m] # 0 \/ m \in lost => pc[m] = "done"

AllSingle == \A m \in Msg : Single(m)

\* What makes it inductive, proved before.
Founded == TypeOK /\ MapsOK /\ AccountsOK

\* A message is on the list of its own key only.
LEMMA OnOwnList ==
  ASSUME MapsOK, NEW k \in Key, NEW m, On(queue[k], m)
  PROVE  KeyOf[m] = k
BY DEF MapsOK, QueuedKeysAreMapped, Copies, On

\* A step that leaves the places of a message alone.
LEMMA SingleStays ==
  ASSUME NEW m \in Msg, Single(m), UNCHANGED <<queue, hand>>,
         received'[m] = received[m], m \in lost' <=> m \in lost,
         pc[m] = "done" => pc'[m] = "done"
  PROVE  Single(m)'
BY DEF Single, Waits, Held

\* The steps of a handler that Redis answers.
LEMMA HandlerCases ==
  ASSUME TypeOK, NEW m \in Msg, Handler(m), UNCHANGED faults
  PROVE  /\ \A n \in Msg : n # m => pc'[n] = pc[n]
         /\ pc[m] # "done"
         /\ Push(m) \/ (UNCHANGED queue /\ pc'[m] # "done")
<1>1. ~ PushError(m) /\ ~ RedisError(m)
  BY DEF PushError, RedisError, Fault, TypeOK
<1>2. \A n \in Msg : n # m => pc'[n] = pc[n]
  BY <1>1 DEF Handler, Arrive, HandlerStep, HandlerFault, Assign, Reassign, Retry,
     Lookup, PickForAssign, MapKey, ReadList, AppendKey, ZeroCount, CheckAccess,
     ReadAssigned, Probe, PickForReassign, ReadOldKeys, ReadNewKeys, DropFromOld,
     TakeCount, ForgetCount, Remap, AddToNew, CarryCount, ReadUpdated, RemoveUid,
     Increment, Push, Read, Goto, TypeOK
<1>3. pc[m] # "done"
  BY <1>1 DEF Handler, Arrive, HandlerStep, HandlerFault, Assign, Reassign, Retry,
     PickForAssign, MapKey, ReadList, AppendKey, ZeroCount, CheckAccess,
     ReadAssigned, Probe, PickForReassign, ReadOldKeys, ReadNewKeys, DropFromOld,
     TakeCount, ForgetCount, Remap, AddToNew, CarryCount, ReadUpdated, RemoveUid,
     Increment, Push
<1>4. Push(m) \/ (UNCHANGED queue /\ \E p \in Pcs \ {"done"} : Goto(m, p))
  BY <1>1 DEF Handler, Arrive, HandlerStep, HandlerFault, Assign, Reassign, Retry,
     Lookup, PickForAssign, MapKey, ReadList, AppendKey, ZeroCount, CheckAccess,
     ReadAssigned, Probe, PickForReassign, ReadOldKeys, ReadNewKeys, DropFromOld,
     TakeCount, ForgetCount, Remap, AddToNew, CarryCount, ReadUpdated, RemoveUid,
     Increment, Read, redis, Pcs, InFlightPcs, PayloadPcs, ReassignPcs
<1> QED
  BY <1>2, <1>3, <1>4 DEF Goto, TypeOK

LEMMA SingleHandler ==
  ASSUME Founded, AllSingle, NEW m \in Msg, Handler(m), UNCHANGED <<pluginVars, faults>>
  PROVE  AllSingle'
<1>1. TypeOK /\ KeyOf \in [Msg -> Key] /\ UNCHANGED <<hand, received, lost>>
  BY ShardingAssumption DEF Founded, pluginVars
<1>2. \A n \in Msg : pc[n] = "done" => pc'[n] = "done"
  BY <1>1, HandlerCases
<1>3. CASE UNCHANGED queue
  BY <1>1, <1>2, <1>3, SingleStays DEF AllSingle
<1>4. CASE Push(m)
  <2>1. /\ queue' = [queue EXCEPT ![KeyOf[m]] = Append(queue[KeyOf[m]], m)]
        /\ pc[m] = "push" /\ pc'[m] = "done"
    BY <1>1, <1>4 DEF Push, RPush, Goto, TypeOK
  <2>2. ~ Waits(m) /\ ~ Held(m) /\ received[m] = 0 /\ m \notin lost
    BY <2>1 DEF AllSingle, Single
  <2> SUFFICES ASSUME NEW n \in Msg
               PROVE  Single(n)'
    BY DEF AllSingle
  <2>3. /\ Single(n) /\ KeyOf[n] \in Key /\ queue[KeyOf[n]] \in Seq(Msg)
        /\ Once(queue[KeyOf[n]], n)
    BY <1>1 DEF AllSingle, TypeOK, Single
  <2>4. CASE KeyOf[n] = KeyOf[m]
    <3> DEFINE q == queue[KeyOf[n]]
    <3>1. queue'[KeyOf[n]] = Append(q, m)
      BY <1>1, <2>1, <2>3, <2>4 DEF TypeOK
    <3>2. n = m => ~ On(q, n)
      BY <2>2 DEF Waits
    <3>3. q \in Seq(Msg) /\ Once(q, n)
      BY <2>3
    <3>4. Once(Append(q, m), n) /\ (On(Append(q, m), n) <=> On(q, n) \/ n = m)
      <4> HIDE DEF q
      <4> QED
        BY <3>2, <3>3, AppendOnce
    <3>5. Once(queue'[KeyOf[n]], n) /\ (On(queue'[KeyOf[n]], n) <=> Waits(n) \/ n = m)
      BY <3>1, <3>4 DEF Waits
    <3> HIDE DEF q
    <3> QED
      BY <1>1, <1>2, <2>1, <2>2, <2>3, <3>5 DEF Single, Waits, Held
  <2>5. CASE KeyOf[n] # KeyOf[m]
    <3>1. queue'[KeyOf[n]] = queue[KeyOf[n]]
      BY <1>1, <2>1, <2>3, <2>5 DEF TypeOK
    <3> QED
      BY <1>1, <1>2, <2>3, <3>1 DEF Single, Waits, Held
  <2> QED
    BY <2>4, <2>5
<1> QED
  BY <1>1, <1>3, <1>4, HandlerCases

\* The steps of a plugin that Redis answers, by what they do to messages.
LEMMA PluginCases ==
  ASSUME TypeOK, NEW u \in Uid, Plugin(u), UNCHANGED faults
  PROVE  /\ UNCHANGED pc
         /\ \/ UNCHANGED <<queue, hand, received, lost>>
            \/ Pop(u) \/ Receive(u) \/ Die(u)
<1>1. ~ PopError(u)
  BY DEF PopError, Fault, TypeOK
<1> QED
  BY <1>1 DEF Plugin, PluginStep, Register, Fetch, Pop, Touch, ReadCount, WriteCount,
     Receive, Die, Age, shardingVars, redis, pluginVars

\* A plugin that pops has empty hands; one that drops or receives a message had
\* it in its hands.
LEMMA PopShape ==
  ASSUME Founded, NEW u \in Uid, Pop(u)
  PROVE  /\ hand[u] = NoMsg /\ UNCHANGED <<pc, received, lost>>
         /\ \/ UNCHANGED <<queue, hand>>
            \/ \E k \in Key : /\ queue[k] # <<>>
                              /\ queue' = [queue EXCEPT ![k] = Tail(queue[k])]
                              /\ hand' = [hand EXCEPT ![u] = Head(queue[k])]
BY DEF Pop, Popped, Founded, TypeOK, AccountsOK, Busy

LEMMA SinglePop ==
  ASSUME Founded, AllSingle, NEW u \in Uid, Pop(u)
  PROVE  AllSingle'
<1>1. /\ TypeOK /\ MapsOK /\ KeyOf \in [Msg -> Key] /\ NoMsg \notin Msg
      /\ hand[u] = NoMsg /\ UNCHANGED <<pc, received, lost>>
  BY PopShape, ShardingAssumption, TransportAssumption DEF Founded
<1>2. CASE UNCHANGED <<queue, hand>>
  BY <1>1, <1>2, SingleStays DEF AllSingle
<1>3. ASSUME NEW k \in Key, queue[k] # <<>>,
             queue' = [queue EXCEPT ![k] = Tail(queue[k])],
             hand' = [hand EXCEPT ![u] = Head(queue[k])]
      PROVE  AllSingle'
  <2> DEFINE q == queue[k]
             h == Head(q)
  <2> SUFFICES ASSUME NEW n \in Msg
               PROVE  Single(n)'
    BY DEF AllSingle
  <2>1. /\ q \in Seq(Msg) /\ q # <<>> /\ queue'[k] = Tail(q)
        /\ \A j \in Key : j # k => queue'[j] = queue[j]
        /\ hand'[u] = h /\ \A v \in Uid : v # u => hand'[v] = hand[v]
    BY <1>1, <1>3 DEF TypeOK
  <2>2. Single(n) /\ KeyOf[n] \in Key
    BY <1>1 DEF AllSingle
  <2>3. CASE KeyOf[n] = k
    <3>1. Once(q, n) /\ (On(q, n) <=> Waits(n))
      BY <2>2, <2>3 DEF Single, Waits
    <3>2. /\ Once(Tail(q), n)
          /\ On(Tail(q), n) <=> On(q, n) /\ h # n
          /\ h = n => On(q, n)
      <4> HIDE DEF q
      <4> QED
        BY <2>1, <3>1, TailOnce
    <3>3. /\ Once(queue'[KeyOf[n]], n)
          /\ On(queue'[KeyOf[n]], n) <=> Waits(n) /\ h # n
          /\ h = n => Waits(n)
      BY <2>1, <2>3, <3>1, <3>2
    <3> HIDE DEF q, h
    <3>4. CASE h = n
      BY <1>1, <2>1, <2>2, <3>3, <3>4 DEF Single, Waits, Held
    <3>5. CASE h # n
      BY <1>1, <2>1, <2>2, <3>3, <3>5 DEF Single, Waits, Held
    <3> QED
      BY <3>4, <3>5
  <2>4. CASE KeyOf[n] # k
    <3>1. queue'[KeyOf[n]] = queue[KeyOf[n]]
      BY <2>1, <2>2, <2>4
    <3>2. h # n
      <4>1. On(q, h)
        BY <2>1, HeadOn
      <4> QED
        BY <1>1, <2>4, <4>1, OnOwnList
    <3> HIDE DEF q, h
    <3> QED
      BY <1>1, <2>1, <2>2, <3>1, <3>2 DEF Single, Waits, Held
  <2> QED
    BY <2>3, <2>4
<1> QED
  BY <1>2, <1>3, PopShape

LEMMA SinglePlugin ==
  ASSUME Founded, AllSingle, NEW u \in Uid, Plugin(u), UNCHANGED faults
  PROVE  AllSingle'
<1>1. TypeOK /\ NoMsg \notin Msg
  BY TransportAssumption DEF Founded
<1>2. CASE UNCHANGED <<queue, hand, received, lost>>
  BY <1>1, <1>2, PluginCases, SingleStays DEF AllSingle
<1>3. CASE Pop(u)
  BY <1>3, SinglePop
<1>4. CASE Receive(u) \/ Die(u)
  <2> SUFFICES ASSUME NEW n \in Msg
               PROVE  Single(n)'
    BY DEF AllSingle
  <2>1. /\ hand'[u] = NoMsg /\ \A v \in Uid : v # u => hand'[v] = hand[v]
        /\ UNCHANGED <<queue, pc>>
        /\ hand[u] # n => received'[n] = received[n] /\ (n \in lost' <=> n \in lost)
    <3>1. CASE Receive(u)
      BY <1>1, <3>1 DEF Receive, TypeOK, shardingVars, redis
    <3>2. CASE Die(u)
      BY <1>1, <3>2 DEF Die, TypeOK, shardingVars, redis
    <3> QED
      BY <1>4, <3>1, <3>2
  <2>2. Single(n)
    BY DEF AllSingle
  <2>3. CASE hand[u] = n
    <3>1. ~ Waits(n) /\ pc[n] = "done" /\ \A v \in Uid : v # u => hand[v] # n
      BY <2>2, <2>3 DEF Single, Held
    <3>2. ~ Held(n)'
      BY <1>1, <2>1, <3>1 DEF Held
    <3>3. Waits(n)' <=> Waits(n)
      BY <2>1 DEF Waits
    <3> QED
      BY <2>1, <2>2, <3>1, <3>2, <3>3 DEF Single, Held
  <2>4. CASE hand[u] # n
    <3>1. Held(n)' => Held(n)
      BY <1>1, <2>1 DEF Held
    <3>2. Waits(n)' <=> Waits(n)
      BY <2>1 DEF Waits
    <3>3. \A v, w \in Uid : hand'[v] = n /\ hand'[w] = n => v = w
      BY <1>1, <2>1, <2>2 DEF Single
    <3> QED
      BY <2>1, <2>2, <2>4, <3>1, <3>2, <3>3 DEF Single
  <2> QED
    BY <2>3, <2>4
<1> QED
  BY <1>1, <1>2, <1>3, <1>4, PluginCases

LEMMA SingleStep ==
  ASSUME Founded, AllSingle, [Next]_vars, UNCHANGED faults
  PROVE  AllSingle'
<1>1. CASE UNCHANGED vars
  BY <1>1, SingleStays DEF vars, shardingVars, redis, pluginVars, AllSingle
<1> QED
  BY <1>1, SingleHandler, SinglePlugin DEF Next

LEMMA SingleInit == Init => AllSingle
<1> SUFFICES ASSUME Init, NEW m \in Msg
             PROVE  Single(m)
  BY DEF AllSingle
<1>1. queue[KeyOf[m]] = <<>> /\ \A u \in Uid : hand[u] # m
  BY ShardingAssumption, TransportAssumption DEF Init, ShardingInit
<1> QED
  BY <1>1 DEF Init, ShardingInit, Single, Once, Waits, On, Held

LEMMA SingleInvariant ==
  ASSUME MaxFaults = 0
  PROVE  Spec => [](Founded /\ NoFault /\ AllSingle)
<1>1. Spec => []Founded
  BY TypeCorrect, MapsInvariant, AccountsInvariant, PTL DEF Founded
<1>2. NoFault /\ NoFault' => UNCHANGED faults
  BY DEF NoFault
<1>3. Founded /\ AllSingle /\ NoFault /\ NoFault' /\ [Next]_vars => AllSingle'
  BY <1>2, SingleStep
<1> QED
  BY <1>1, <1>3, SingleInit, NeverFaults, PTL DEF Spec

-----------------------------------------------------------------------------
(* The refinement *)

Accepted == {m \in Msg : pc[m] = "done"}

\* A message in the hands of a plugin is open, and leaves them in a step of the
\* contract.
LEMMA HeldIsOpen ==
  ASSUME AllSingle, NEW u \in Uid, hand[u] \in Msg
  PROVE  Contract!Open(hand[u])
<1>1. Held(hand[u]) /\ Single(hand[u])
  BY DEF AllSingle, Held
<1> QED
  BY <1>1 DEF Single, Contract!Open

LEMMA HandlerImplements ==
  ASSUME TypeOK, NEW m \in Msg, Handler(m), UNCHANGED <<pluginVars, faults>>
  PROVE  [Contract!Next]_(Contract!cvars)
<1>1. UNCHANGED <<received, lost>>
  BY DEF pluginVars
<1>2. /\ \A n \in Msg : n # m => pc'[n] = pc[n]
      /\ pc[m] # "done"
  BY HandlerCases
<1>3. CASE pc'[m] = "done"
  <2>1. m \notin Accepted /\ Accepted' = Accepted \union {m}
    BY <1>2, <1>3 DEF Accepted
  <2>2. Contract!Accept(m)
    BY <1>1, <2>1 DEF Accepted, Contract!Accept
  <2> QED
    BY <2>2 DEF Contract!Next
<1>4. CASE pc'[m] # "done"
  <2>1. Accepted' = Accepted
    BY <1>2, <1>4 DEF Accepted
  <2> QED
    BY <1>1, <2>1 DEF Accepted, Contract!cvars
<1> QED
  BY <1>3, <1>4

LEMMA PluginImplements ==
  ASSUME TypeOK, AllSingle, NEW u \in Uid, Plugin(u), UNCHANGED faults
  PROVE  [Contract!Next]_(Contract!cvars)
<1>1. UNCHANGED pc /\ Accepted' = Accepted
  BY PluginCases DEF Accepted
<1>2. CASE UNCHANGED <<received, lost>>
  BY <1>1, <1>2 DEF Accepted, Contract!cvars
<1>3. CASE Receive(u)
  <2>1. hand[u] \in Msg
    BY <1>3 DEF Receive, TypeOK, Busy
  <2>2. Contract!Open(hand[u])
    BY <2>1, HeldIsOpen
  <2>3. received' = [received EXCEPT ![hand[u]] = 1] /\ UNCHANGED lost
    BY <1>3, <2>2 DEF Receive, Contract!Open
  <2>4. Contract!Deliver(hand[u])
    BY <1>1, <2>2, <2>3 DEF Accepted, Contract!Deliver
  <2> QED
    BY <2>1, <2>4 DEF Contract!Next
<1>4. CASE Die(u)
  <2>1. lost' = lost \union ({hand[u]} \ {NoMsg}) /\ UNCHANGED received
    BY <1>4 DEF Die
  <2>2. CASE hand[u] = NoMsg
    BY <1>2, <2>1, <2>2
  <2>3. CASE hand[u] # NoMsg
    <3>1. hand[u] \in Msg /\ lost' = lost \union {hand[u]}
      BY <2>1, <2>3 DEF TypeOK
    <3>2. Contract!Drop(hand[u])
      BY <1>1, <2>1, <3>1, HeldIsOpen DEF Accepted, Contract!Drop
    <3> QED
      BY <3>1, <3>2 DEF Contract!Next
  <2> QED
    BY <2>2, <2>3
<1>5. CASE Pop(u)
  BY <1>2, <1>5 DEF Pop
<1> QED
  BY <1>2, <1>3, <1>4, <1>5, PluginCases

\* As long as Redis answers, an accepted message is handed to a session once at
\* most, and is dropped only in the hands of a plugin that stops: for any number
\* of handlers at work at the same time, and whatever plugins their keys are
\* moved to while the message waits.
THEOREM KeepsContract ==
  ASSUME MaxFaults = 0
  PROVE  Spec => ImplementsContract
<1> DEFINE Sound == Founded /\ NoFault /\ AllSingle
<1>1. Init => Contract!Init
  <2> SUFFICES ASSUME Init
               PROVE  Contract!Init
    OBVIOUS
  <2>1. \A m \in Msg : pc[m] # "done"
    BY DEF Init, ShardingInit
  <2> QED
    BY <2>1 DEF Init, Contract!Init
<1>2. Sound /\ Sound' /\ [Next]_vars => [Contract!Next]_(Contract!cvars)
  <2> SUFFICES ASSUME Sound, Sound', [Next]_vars
               PROVE  [Contract!Next]_(Contract!cvars)
    OBVIOUS
  <2>1. UNCHANGED faults /\ TypeOK /\ AllSingle
    BY DEF NoFault, Founded
  <2>2. CASE UNCHANGED vars
    BY <2>2 DEF vars, shardingVars, pluginVars, Contract!cvars
  <2> QED
    BY <2>1, <2>2, HandlerImplements, PluginImplements DEF Next
<1> HIDE DEF Sound
<1>3. Spec => []Sound
  BY SingleInvariant DEF Sound
<1> QED
  BY <1>1, <1>2, <1>3, PTL DEF Spec, ImplementsContract, Contract!Spec
=============================================================================
