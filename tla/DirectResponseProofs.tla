------------------------ MODULE DirectResponseProofs ------------------------
(* Theorems about DirectResponse, for every value of its constants. *)
EXTENDS DirectResponse, SequenceTheorems, TLAPS

-----------------------------------------------------------------------------
(* Lists of requests *)

\* Popping a list leaves its other elements.
LEMMA PopList ==
  ASSUME NEW s \in Seq(Txn), s # <<>>
  PROVE  /\ Head(s) \in Txn /\ Tail(s) \in Seq(Txn)
         /\ \A i \in DOMAIN Tail(s) : \E j \in DOMAIN s : Tail(s)[i] = s[j]
         /\ \E j \in DOMAIN s : s[j] = Head(s)
         /\ \A j \in DOMAIN s : s[j] = Head(s) \/ \E i \in DOMAIN Tail(s) : Tail(s)[i] = s[j]
<1>1. /\ Len(s) \in Nat \ {0}
      /\ DOMAIN s = 1 .. Len(s)
      /\ DOMAIN Tail(s) = 1 .. Len(s) - 1
      /\ \A i \in 1 .. Len(s) - 1 : Tail(s)[i] = s[i + 1]
      /\ Head(s) = s[1]
  BY HeadTailProperties, EmptySeq, LenProperties
<1>2. Head(s) \in Txn /\ Tail(s) \in Seq(Txn)
  BY HeadTailProperties
<1>3. \A i \in DOMAIN Tail(s) : i + 1 \in DOMAIN s
  BY <1>1
<1>4. \A j \in DOMAIN s : j = 1 \/ (j - 1 \in DOMAIN Tail(s) /\ Tail(s)[j - 1] = s[j])
  BY <1>1
<1>5. 1 \in DOMAIN s
  BY <1>1
<1> QED
  BY <1>1, <1>2, <1>3, <1>4, <1>5

\* Appending to a list keeps its elements and adds one.
LEMMA PushList ==
  ASSUME NEW s \in Seq(Txn), NEW t \in Txn
  PROVE  /\ Append(s, t) \in Seq(Txn)
         /\ \A i \in DOMAIN Append(s, t) :
              Append(s, t)[i] = t \/ \E j \in DOMAIN s : Append(s, t)[i] = s[j]
         /\ \A j \in DOMAIN s : \E i \in DOMAIN Append(s, t) : Append(s, t)[i] = s[j]
         /\ \E i \in DOMAIN Append(s, t) : Append(s, t)[i] = t
<1>1. /\ Len(s) \in Nat
      /\ DOMAIN s = 1 .. Len(s)
      /\ DOMAIN Append(s, t) = 1 .. Len(s) + 1
      /\ \A i \in 1 .. Len(s) : Append(s, t)[i] = s[i]
      /\ Append(s, t)[Len(s) + 1] = t
  BY AppendProperties, LenProperties
<1>2. Append(s, t) \in Seq(Txn)
  BY AppendProperties
<1>3. \A i \in DOMAIN Append(s, t) : i \in DOMAIN s \/ i = Len(s) + 1
  BY <1>1
<1>4. \A j \in DOMAIN s : j \in DOMAIN Append(s, t)
  BY <1>1
<1>5. Len(s) + 1 \in DOMAIN Append(s, t)
  BY <1>1
<1> QED
  BY <1>1, <1>2, <1>3, <1>4, <1>5

-----------------------------------------------------------------------------
(* Type correctness *)

LEMMA TypeStep ==
  ASSUME TypeOK, Next
  PROVE  TypeOK'
<1> USE DirectResponseAssumption
<1>1. ASSUME NEW t \in Txn, Post(t)
      PROVE  TypeOK'
  BY <1>1 DEF Post, Goto, Store, Entry, TypeOK, pluginVars
<1>2. ASSUME NEW t \in Txn, Connect(t)
      PROVE  TypeOK'
  BY <1>2 DEF Connect, Goto, Entry, TypeOK, pluginVars
<1>3. ASSUME NEW t \in Txn, Push(t)
      PROVE  TypeOK'
  BY <1>3, PushList DEF Push, Goto, Entry, TypeOK, pluginVars
<1>4. ASSUME NEW t \in Txn, PushError(t) \/ RouteError(t)
      PROVE  TypeOK'
  <2>1. CASE PushError(t)
    <3>0. inbound' = Append(inbound, t) \/ inbound' = inbound
      BY <2>1 DEF PushError
    <3>1. inbound' \in Seq(Txn)
      <4>1. inbound \in Seq(Txn)
        BY DEF TypeOK
      <4>2. Append(inbound, t) \in Seq(Txn)
        BY <4>1, PushList
      <4> QED
        BY <3>0, <4>1, <4>2
    <3>2. faults' \in Nat
      BY <2>1 DEF PushError, Fault, TypeOK
    <3>3. UNCHANGED <<client, map, plugin, session, responded, responses, lost, kills>>
      BY <2>1 DEF PushError, relayVars, pluginVars
    <3> QED
      BY <3>1, <3>2, <3>3 DEF Entry, TypeOK
  <2>2. CASE RouteError(t)
    BY <2>2 DEF RouteError, Fault, Goto, Entry, TypeOK, pluginVars
  <2> QED
    BY <1>4, <2>1, <2>2
<1>5. ASSUME NEW t \in Txn, Look(t)
      PROVE  TypeOK'
  BY <1>5 DEF Look, Found, Answer, Goto, Entry, TypeOK, pluginVars
<1>6. ASSUME NEW r \in Relay, Kill(r)
      PROVE  TypeOK'
  <2>1. /\ client' \in [Txn -> {"new", "push", "look", "answered", "empty", "failed"}]
        /\ map' \in [Handler -> [Txn -> {"absent", "request", "response"}]]
        /\ kills' \in Nat /\ lost' \subseteq Txn
    BY <1>6 DEF Kill, TypeOK
  <2>2. \A t \in Txn : client'[t] \in {"push", "look"} => map'[HandledBy[t]][t] # "absent"
    BY <1>6 DEF Kill, TypeOK, Entry
  <2> QED
    BY <1>6, <2>1, <2>2 DEF Kill, TypeOK, Entry, pluginVars
<1>7. ASSUME NEW h \in Handler, Listen(h)
      PROVE  TypeOK'
  BY <1>7, PopList DEF Listen, Store, Entry, TypeOK, pluginVars
<1>8. CASE ListenError
  BY <1>8, PopList DEF ListenError, Fault, Entry, TypeOK, pluginVars, relayVars
<1>9. ASSUME NEW u \in Uid, Plugin(u)
      PROVE  TypeOK'
  <2>1. UNCHANGED <<client, map, kills>>
    BY <1>9 DEF Plugin, Start, Pop, Respond, RespondNothing, ParseError, RPush,
       RPushError, Stop, relayVars
  <2>2. CASE Pop(u)
    <3>1. Head(inbound) \in Txn /\ Tail(inbound) \in Seq(Txn)
      BY <2>2, PopList DEF Pop, TypeOK
    <3> QED
      BY <2>1, <2>2, <3>1 DEF Pop, Move, Take, Entry, TypeOK
  <2>3. CASE Start(u) \/ Respond(u) \/ RespondNothing(u) \/ ParseError(u)
    <3>1. UNCHANGED <<inbound, responses, lost, faults>> /\ responded' \subseteq Txn
      BY <2>3 DEF Start, Respond, RespondNothing, ParseError, TypeOK
    <3>2. \/ (Move(u, "pop") \/ Move(u, "ended")) /\ Take(u, NoTxn)
          \/ plugin[u] = "off" /\ Move(u, "pop") /\ UNCHANGED session
          \/ plugin[u] = "session" /\ Move(u, "rpush") /\ UNCHANGED session
      BY <2>3 DEF Start, Respond, RespondNothing, ParseError
    <3>3. /\ plugin' \in [Uid -> {"off", "pop", "session", "rpush", "ended"}]
          /\ session' \in [Uid -> Txn \union {NoTxn}]
          /\ \A v \in Uid : plugin'[v] \in {"session", "rpush"} => session'[v] \in Txn
      <4>1. CASE (Move(u, "pop") \/ Move(u, "ended")) /\ Take(u, NoTxn)
        BY <4>1 DEF Move, Take, TypeOK
      <4>2. CASE plugin[u] = "off" /\ Move(u, "pop") /\ UNCHANGED session
        BY <4>2 DEF Move, TypeOK
      <4>3. CASE plugin[u] = "session" /\ Move(u, "rpush") /\ UNCHANGED session
        BY <4>3 DEF Move, TypeOK
      <4> QED
        BY <3>2, <4>1, <4>2, <4>3
    <3> QED
      BY <2>1, <3>1, <3>3 DEF Entry, TypeOK
  <2>4. CASE RPush(u) \/ RPushError(u)
    <3>1. session[u] \in Txn /\ responses \in Seq(Txn)
      BY <2>4 DEF RPush, RPushError, TypeOK
    <3>2. Append(responses, session[u]) \in Seq(Txn)
      BY <3>1, PushList
    <3>3. responses' \in Seq(Txn) /\ lost' \subseteq Txn
      BY <2>4, <3>1, <3>2 DEF RPush, RPushError, TypeOK
    <3>4. faults' \in Nat
      BY <2>4 DEF RPush, RPushError, Fault, TypeOK
    <3>5. /\ UNCHANGED <<inbound, responded>>
          /\ Take(u, NoTxn) /\ (Move(u, "pop") \/ Move(u, "ended"))
      BY <2>4 DEF RPush, RPushError
    <3>6. /\ plugin' \in [Uid -> {"off", "pop", "session", "rpush", "ended"}]
          /\ session' \in [Uid -> Txn \union {NoTxn}]
          /\ \A v \in Uid : plugin'[v] \in {"session", "rpush"} => session'[v] \in Txn
      BY <3>5 DEF Move, Take, TypeOK
    <3> QED
      BY <2>1, <3>3, <3>4, <3>5, <3>6 DEF Entry, TypeOK
  <2>5. CASE Stop(u)
    <3>1. lost' \subseteq Txn
      BY <2>5 DEF Stop, TypeOK
    <3> QED
      BY <2>1, <2>5, <3>1 DEF Stop, Move, Take, Entry, TypeOK
  <2> QED
    BY <1>9, <2>2, <2>3, <2>4, <2>5 DEF Plugin
<1> QED
  BY <1>1, <1>2, <1>3, <1>4, <1>5, <1>6, <1>7, <1>8, <1>9 DEF Next, Handling

\* The types hold of every behaviour; in particular a request that waits finds
\* an entry in the map of its handler, so that its timeout cannot run out.
THEOREM TypeCorrect == Spec => []TypeOK
<1>1. Init => TypeOK
  BY DirectResponseAssumption, EmptySeq DEF Init, TypeOK, Entry
<1>2. TypeOK /\ [Next]_vars => TypeOK'
  <2>1. CASE UNCHANGED vars
    BY <2>1 DEF vars, relayVars, pluginVars, TypeOK, Entry
  <2> QED
    BY <2>1, TypeStep
<1> QED
  BY <1>1, <1>2, PTL DEF Spec

-----------------------------------------------------------------------------
(* What the clients get *)

\* Everything on its way back to a client was given by the session, and
\* everything it gave is on its way: the inductive invariant.
OnItsWay ==
  /\ \A u \in Uid : plugin[u] = "rpush" => session[u] \in responded
  /\ \A i \in DOMAIN responses : responses[i] \in responded
  /\ \A h \in Handler, t \in Txn : map[h][t] = "response" => t \in responded

LEMMA OnItsWayStep ==
  ASSUME TypeOK, Next, OnItsWay
  PROVE  OnItsWay'
<1>1. ASSUME NEW t \in Txn, Post(t)
      PROVE  OnItsWay'
  BY <1>1 DEF Post, Store, OnItsWay, TypeOK, pluginVars
<1>2. ASSUME NEW h \in Handler, Listen(h)
      PROVE  OnItsWay'
  <2>1. Head(responses) \in Txn /\ Head(responses) \in responded
    BY <1>2, PopList DEF Listen, OnItsWay, TypeOK
  <2>2. \A i \in DOMAIN responses' : responses'[i] \in responded
    BY <1>2, PopList DEF Listen, OnItsWay, TypeOK
  <2> QED
    BY <1>2, <2>1, <2>2 DEF Listen, Store, OnItsWay, TypeOK, pluginVars
<1>3. CASE ListenError
  <2>1. \A i \in DOMAIN responses' : responses'[i] \in responded
    BY <1>3, PopList DEF ListenError, OnItsWay, TypeOK
  <2> QED
    BY <1>3, <2>1 DEF ListenError, OnItsWay, relayVars, pluginVars
<1>4. ASSUME NEW u \in Uid, RPush(u) \/ RPushError(u)
      PROVE  OnItsWay'
  <2>1. session[u] \in Txn /\ session[u] \in responded
    BY <1>4 DEF RPush, RPushError, OnItsWay, TypeOK
  <2>2. responses' = Append(responses, session[u]) \/ responses' = responses
    BY <1>4 DEF RPush, RPushError
  <2>3. \A i \in DOMAIN responses' : responses'[i] \in responded
    <3>1. CASE responses' = Append(responses, session[u])
      BY <2>1, <3>1, PushList DEF OnItsWay, TypeOK
    <3>2. CASE responses' = responses
      BY <3>2 DEF OnItsWay
    <3> QED
      BY <2>2, <3>1, <3>2
  <2>4. /\ UNCHANGED <<map, responded>>
        /\ Take(u, NoTxn) /\ (Move(u, "pop") \/ Move(u, "ended"))
    BY <1>4 DEF RPush, RPushError, relayVars
  <2> QED
    BY <2>3, <2>4 DEF OnItsWay, Move, Take, TypeOK
<1>5. ASSUME NEW u \in Uid,
             Start(u) \/ Pop(u) \/ Respond(u) \/ RespondNothing(u) \/ ParseError(u) \/ Stop(u)
      PROVE  OnItsWay'
  BY <1>5 DEF Start, Pop, Respond, RespondNothing, ParseError, Stop, Move, Take,
     OnItsWay, TypeOK, relayVars
<1>6. ASSUME NEW r \in Relay, Kill(r)
      PROVE  OnItsWay'
  BY <1>6 DEF Kill, OnItsWay, TypeOK, pluginVars
<1>7. ASSUME NEW t \in Txn,
             Connect(t) \/ Push(t) \/ PushError(t) \/ RouteError(t) \/ Look(t)
      PROVE  OnItsWay'
  BY <1>7 DEF Connect, Push, PushError, RouteError, Look, OnItsWay, relayVars, pluginVars
<1> QED
  BY <1>1, <1>2, <1>3, <1>4, <1>5, <1>6, <1>7 DEF Next, Handling, Plugin

\* A client is only ever answered with what the session gave for its message,
\* whatever handler popped the response and whatever was sent twice.
THEOREM AnsweredResponded == Spec => []AnsweredMeansResponded
<1>1. Init => OnItsWay /\ AnsweredMeansResponded
  BY EmptySeq DEF Init, OnItsWay, AnsweredMeansResponded
<1>2. TypeOK /\ OnItsWay /\ AnsweredMeansResponded /\ [Next]_vars
        => OnItsWay' /\ AnsweredMeansResponded'
  <2>1. CASE UNCHANGED vars
    BY <2>1 DEF vars, relayVars, pluginVars, OnItsWay, AnsweredMeansResponded
  <2>2. ASSUME TypeOK, OnItsWay, AnsweredMeansResponded, Next
        PROVE  AnsweredMeansResponded'
    <3>1. responded \subseteq responded'
      BY <2>2 DEF Next, Handling, Plugin, Post, Connect, Push, PushError, RouteError,
         Look, Kill, Listen, ListenError, Start, Pop, Respond, RespondNothing,
         ParseError, RPush, RPushError, Stop, pluginVars
    <3>2. ASSUME NEW t \in Txn, client'[t] = "answered", client[t] # "answered"
          PROVE  Look(t) /\ Entry(t) = "response"
      <4>1. CASE \E v \in Txn : Handling(v) \/ PushError(v) \/ RouteError(v)
        BY <2>2, <3>2, <4>1 DEF Handling, Post, Connect, Push, PushError, RouteError,
           Look, Answer, relayVars, Goto, TypeOK
      <4>2. CASE \E r \in Relay : Kill(r)
        BY <3>2, <4>2 DEF Kill
      <4>3. CASE UNCHANGED client
        BY <3>2, <4>3
      <4> QED
        BY <2>2, <4>1, <4>2, <4>3 DEF Next, Plugin, Listen, ListenError, Start, Pop,
           Respond, RespondNothing, ParseError, RPush, RPushError, Stop, relayVars
    <3>3. \A t \in Txn : client'[t] = "answered" => t \in responded
      BY <2>2, <3>2, DirectResponseAssumption DEF OnItsWay, AnsweredMeansResponded, Entry
    <3> QED
      BY <3>1, <3>3 DEF AnsweredMeansResponded
  <2> QED
    BY <2>1, <2>2, OnItsWayStep
<1> QED
  BY <1>1, <1>2, TypeCorrect, PTL DEF Spec

\* A request that has not come yet has left no trace: txn_id is fresh.
Fresh ==
  \A t \in Txn : client[t] = "new" =>
    /\ t \notin responded
    /\ \A u \in Uid : session[u] # t
    /\ \A i \in DOMAIN inbound : inbound[i] # t

LEMMA FreshStep ==
  ASSUME TypeOK, Next, Fresh
  PROVE  Fresh'
<1>1. ASSUME NEW t \in Txn, Post(t) \/ Connect(t) \/ Look(t) \/ RouteError(t)
      PROVE  Fresh'
  <2>1. /\ UNCHANGED <<inbound, plugin, session, responded>>
        /\ \A v \in Txn : client'[v] = "new" => client[v] = "new"
    BY <1>1 DEF Post, Connect, Look, Answer, RouteError, Goto, TypeOK, pluginVars
  <2> QED
    BY <2>1 DEF Fresh
<1>2. ASSUME NEW t \in Txn, Push(t) \/ PushError(t)
      PROVE  Fresh'
  <2>1. /\ UNCHANGED <<session, responded>>
        /\ inbound' = Append(inbound, t) \/ inbound' = inbound
        /\ \A v \in Txn : client'[v] = "new" => client[v] = "new" /\ v # t
    BY <1>2 DEF Push, PushError, Goto, TypeOK, pluginVars, relayVars
  <2>2. \A i \in DOMAIN inbound' : inbound'[i] = t \/ \E j \in DOMAIN inbound : inbound'[i] = inbound[j]
    <3>1. CASE inbound' = Append(inbound, t)
      <4>1. inbound \in Seq(Txn)
        BY DEF TypeOK
      <4> QED
        BY <3>1, <4>1, PushList
    <3>2. CASE inbound' = inbound
      BY <3>2
    <3> QED
      BY <2>1, <3>1, <3>2
  <2> QED
    BY <2>1, <2>2 DEF Fresh
<1>3. ASSUME NEW r \in Relay, Kill(r)
      PROVE  Fresh'
  <2>1. /\ UNCHANGED <<inbound, session, responded>>
        /\ \A v \in Txn : client'[v] = "new" => client[v] = "new"
    BY <1>3 DEF Kill, pluginVars
  <2> QED
    BY <2>1 DEF Fresh
<1>4. ASSUME NEW u \in Uid, Pop(u)
      PROVE  Fresh'
  <2>1. /\ UNCHANGED <<client, responded>>
        /\ session' = [session EXCEPT ![u] = Head(inbound)]
        /\ \E j \in DOMAIN inbound : inbound[j] = Head(inbound)
        /\ \A i \in DOMAIN inbound' : \E j \in DOMAIN inbound : inbound'[i] = inbound[j]
    BY <1>4, PopList DEF Pop, Take, TypeOK, relayVars
  <2> QED
    BY <2>1 DEF Fresh, TypeOK
<1>5. ASSUME NEW u \in Uid, Respond(u)
      PROVE  Fresh'
  BY <1>5 DEF Respond, Fresh, relayVars
<1>6. ASSUME NEW u \in Uid,
             Start(u) \/ RespondNothing(u) \/ ParseError(u) \/ RPush(u) \/ RPushError(u) \/ Stop(u)
      PROVE  Fresh'
  <2>1. /\ UNCHANGED <<client, inbound, responded>>
        /\ session' = session \/ session' = [session EXCEPT ![u] = NoTxn]
    BY <1>6 DEF Start, RespondNothing, ParseError, RPush, RPushError, Stop, Take, relayVars
  <2> QED
    BY <2>1, DirectResponseAssumption DEF Fresh, TypeOK
<1>7. CASE UNCHANGED <<client, inbound, pluginVars>>
  BY <1>7 DEF Fresh, pluginVars
<1> QED
  BY <1>1, <1>2, <1>3, <1>4, <1>5, <1>6, <1>7
  DEF Next, Handling, Plugin, Listen, ListenError, relayVars

\* Where a response may be.
Held(t) == \E u \in Uid : plugin[u] = "rpush" /\ session[u] = t
Kept(t) ==
  \/ Held(t)
  \/ Listed(t)
  \/ \E h \in Handler : map[h][t] = "response"
  \/ t \in lost

LEMMA KeptStep ==
  ASSUME TypeOK, Next, Fresh, ResponsesKept
  PROVE  ResponsesKept'
<1>1. \A t \in responded : t \in Txn /\ Kept(t)
  BY DEF ResponsesKept, TypeOK, Kept, Held
<1>2. SUFFICES ASSUME NEW v \in responded'
               PROVE  Kept(v)'
  BY DEF ResponsesKept, Kept, Held
<1>3. ASSUME NEW t \in Txn, Post(t)
      PROVE  Kept(v)'
  <2>1. v \in responded /\ v # t
    BY <1>3 DEF Post, Fresh, pluginVars
  <2>2. \A h \in Handler : map'[h][v] = map[h][v]
    BY <1>1, <1>3, <2>1, DirectResponseAssumption DEF Post, Store, TypeOK
  <2>3. UNCHANGED <<plugin, session, responses, lost>>
    BY <1>3 DEF Post, pluginVars
  <2> QED
    BY <1>1, <2>1, <2>2, <2>3 DEF Kept, Held, Listed
<1>4. ASSUME NEW h \in Handler, Listen(h)
      PROVE  Kept(v)'
  <2>1. v \in responded /\ v \in Txn
    BY <1>1, <1>4 DEF Listen, pluginVars
  <2>2. Listed(v) => v = Head(responses) \/ Listed(v)'
    BY <1>4, PopList DEF Listen, Listed, TypeOK
  <2>3. \A g \in Handler : map[g][v] = "response" => map'[g][v] = "response"
    BY <1>4, <2>1 DEF Listen, Store, TypeOK
  <2>4. v = Head(responses) => map'[h][v] = "response"
    BY <1>4, <2>1 DEF Listen, Store, TypeOK
  <2>5. UNCHANGED <<plugin, session, lost>>
    BY <1>4 DEF Listen, pluginVars
  <2> QED
    BY <1>1, <2>1, <2>2, <2>3, <2>4, <2>5 DEF Kept, Held
<1>5. CASE ListenError
  <2>1. Listed(v) => v = Head(responses) \/ Listed(v)'
    <3>1. responses \in Seq(Txn) /\ responses # <<>> /\ responses' = Tail(responses)
      BY <1>5 DEF ListenError, TypeOK
    <3>2. \A j \in DOMAIN responses :
            responses[j] = Head(responses) \/ \E i \in DOMAIN responses' : responses'[i] = responses[j]
      BY <3>1, PopList
    <3> QED
      BY <3>2 DEF Listed
  <2>2. UNCHANGED <<map, plugin, session, responded>> /\ lost' = lost \union {Head(responses)}
    BY <1>5 DEF ListenError, relayVars, pluginVars
  <2> QED
    BY <1>1, <2>1, <2>2 DEF Kept, Held
<1>6. ASSUME NEW u \in Uid, RPush(u) \/ RPushError(u)
      PROVE  Kept(v)'
  <2>1. /\ UNCHANGED <<map, responded>>
        /\ \/ responses' = Append(responses, session[u]) /\ lost' = lost
           \/ lost' = lost \union {session[u]} /\ responses' = responses
    BY <1>6 DEF RPush, RPushError, relayVars
  <2>2. Held(v) => Held(v)' \/ v = session[u]
    <3>1. \A w \in Uid \ {u} : plugin'[w] = plugin[w] /\ session'[w] = session[w]
      BY <1>6 DEF RPush, RPushError, Move, Take, TypeOK
    <3> QED
      BY <3>1 DEF Held
  <2>3. CASE responses' = Append(responses, session[u]) /\ lost' = lost
    <3>1. session[u] \in Txn /\ responses \in Seq(Txn)
      BY <1>6 DEF RPush, RPushError, TypeOK
    <3>2. /\ \A j \in DOMAIN responses : \E i \in DOMAIN responses' : responses'[i] = responses[j]
          /\ \E i \in DOMAIN responses' : responses'[i] = session[u]
      BY <2>3, <3>1, PushList
    <3>3. Listed(v) \/ v = session[u] => Listed(v)'
      BY <3>2 DEF Listed
    <3> QED
      BY <1>1, <2>1, <2>2, <2>3, <3>3 DEF Kept
  <2>4. CASE lost' = lost \union {session[u]} /\ responses' = responses
    BY <1>1, <2>1, <2>2, <2>4 DEF Kept, Listed
  <2> QED
    BY <2>1, <2>3, <2>4
<1>7. ASSUME NEW u \in Uid, Respond(u)
      PROVE  Kept(v)'
  <2>1. UNCHANGED <<map, responses, lost, session>> /\ responded' = responded \union {session[u]}
    BY <1>7 DEF Respond, relayVars
  <2>2. plugin'[u] = "rpush" /\ \A w \in Uid : plugin[w] = "rpush" => plugin'[w] = "rpush"
    BY <1>7 DEF Respond, Move, TypeOK
  <2> QED
    BY <1>1, <2>1, <2>2 DEF Kept, Held, Listed
<1>8. ASSUME NEW u \in Uid,
             Start(u) \/ Pop(u) \/ RespondNothing(u) \/ ParseError(u) \/ Stop(u)
      PROVE  Kept(v)'
  <2>1. UNCHANGED <<map, responses, responded>> /\ lost \subseteq lost'
    BY <1>8 DEF Start, Pop, RespondNothing, ParseError, Stop, relayVars
  <2>2. Held(v) => Held(v)' \/ v \in lost'
    BY <1>8 DEF Start, Pop, RespondNothing, ParseError, Stop, Move, Take, Held, TypeOK
  <2> QED
    BY <1>1, <2>1, <2>2 DEF Kept, Listed
<1>9. ASSUME NEW r \in Relay, Kill(r)
      PROVE  Kept(v)'
  <2>1. UNCHANGED <<plugin, session, responded, responses>> /\ lost \subseteq lost'
    BY <1>9 DEF Kill, pluginVars
  <2>2. ASSUME NEW h \in Handler, map[h][v] = "response"
        PROVE  map'[h][v] = "response" \/ v \in lost'
    BY <1>1, <1>9, <2>1, <2>2 DEF Kill
  <2> QED
    BY <1>1, <2>1, <2>2 DEF Kept, Held, Listed
<1>10. CASE UNCHANGED <<map, pluginVars, responses, lost>>
  BY <1>1, <1>10 DEF Kept, Held, Listed, pluginVars
<1> QED
  BY <1>3, <1>4, <1>5, <1>6, <1>7, <1>8, <1>9, <1>10
  DEF Next, Handling, Plugin, Connect, Push, PushError, RouteError, Look, relayVars

\* No response vanishes on its way, other than with a Redis error, a plugin that
\* is killed before its RPUSH or a relay that is killed with its map: whatever
\* the number of handlers that pop the list and of requests sent twice.
THEOREM ResponsesAccounted == Spec => []ResponsesKept
<1>1. Init => Fresh /\ ResponsesKept
  BY DirectResponseAssumption, EmptySeq DEF Init, Fresh, ResponsesKept
<1>2. TypeOK /\ Fresh /\ ResponsesKept /\ [Next]_vars => Fresh' /\ ResponsesKept'
  <2>1. CASE UNCHANGED vars
    BY <2>1 DEF vars, relayVars, pluginVars, Fresh, ResponsesKept, Listed
  <2> QED
    BY <2>1, FreshStep, KeptStep
<1> QED
  BY <1>1, <1>2, TypeCorrect, PTL DEF Spec
=============================================================================
