--------------------------- MODULE DeliveryProofs ---------------------------
(* What Deliverer keeps as long as Redis answers: a message is in one place at *)
(* a time, waits there for its time, is not lost, and is attempted as the      *)
(* contract says.                                                              *)
EXTENDS DelivererProofs

-----------------------------------------------------------------------------
(* Where a message is, place by place *)

InList(b) == {i \in DOMAIN outbound : outbound[i].body = b}
InSet(b) == {e \in Envelope : e.body = b /\ retry[e] # "absent"}
InMsg(b) == {d \in Process : msg[d] # NoEnvelope /\ msg[d].body = b}
InRow(b) == {d \in Process : row[d] # NoEnvelope /\ row[d].body = b}

\* Four places, and not more than one thing in them together.
AtMostOne(L, S, M, R) ==
  /\ \A p, q \in L : p = q
  /\ \A p, q \in S : p = q
  /\ \A p, q \in M : p = q
  /\ \A p, q \in R : p = q
  /\ L # {} => S = {} /\ M = {} /\ R = {}
  /\ S # {} => M = {} /\ R = {}
  /\ M # {} => R = {}

AllEmpty(L, S, M, R) == L = {} /\ S = {} /\ M = {} /\ R = {}

Alone(b) == AtMostOne(InList(b), InSet(b), InMsg(b), InRow(b))
Nowhere(b) == AllEmpty(InList(b), InSet(b), InMsg(b), InRow(b))

\* A message is open, and then in one place at most, or nowhere.
OneCopy ==
  \A b \in Body : Alone(b) /\ (outcome[b] # "open" => Nowhere(b))

\* Places, of what is in each of the four.
AllPlaces(L, S, M, R) ==
  {<<"list", i>> : i \in L} \union {<<"set", e.retries>> : e \in S}
  \union {<<"msg", d>> : d \in M} \union {<<"row", d>> : d \in R}

LEMMA NoPlaces ==
  ASSUME NEW L, NEW S, NEW M, NEW R
  PROVE  AllPlaces(L, S, M, R) = {} <=> AllEmpty(L, S, M, R)
BY DEF AllPlaces, AllEmpty

LEMMA NowhereIsNoPlace ==
  ASSUME NEW b \in Body
  PROVE  /\ Places(b) = {} <=> Nowhere(b)
         /\ Places(b)' = {} <=> Nowhere(b)'
<1>1. Places(b) = AllPlaces(InList(b), InSet(b), InMsg(b), InRow(b))
  BY Zenon DEF Places, AllPlaces, InList, InSet, InMsg, InRow
<1>2. Places(b)' = AllPlaces(InList(b)', InSet(b)', InMsg(b)', InRow(b)')
  BY Zenon DEF Places, AllPlaces, InList, InSet, InMsg, InRow
<1> QED
  BY <1>1, <1>2, NoPlaces DEF Nowhere

LEMMA OneCopyIsSingleCopy ==
  ASSUME OneCopy
  PROVE  SingleCopy
<1> SUFFICES ASSUME NEW b \in Body
             PROVE  /\ \A p, q \in Places(b) : p = q
                    /\ Places(b) # {} => outcome[b] = "open"
  BY DEF SingleCopy
<1>1. Alone(b) /\ (outcome[b] # "open" => Nowhere(b))
  BY DEF OneCopy
<1>2. ASSUME NEW p \in Places(b)
      PROVE  \/ \E i \in InList(b) : p = <<"list", i>>
             \/ \E e \in InSet(b) : p = <<"set", e.retries>>
             \/ \E d \in InMsg(b) : p = <<"msg", d>>
             \/ \E d \in InRow(b) : p = <<"row", d>>
  BY <1>2 DEF Places, InList, InSet, InMsg, InRow
<1>3. ASSUME NEW p \in Places(b), NEW q \in Places(b)
      PROVE  p = q
  BY <1>1, <1>2 DEF Alone, AtMostOne
<1> QED
  BY <1>1, <1>3, NowhereIsNoPlace

-----------------------------------------------------------------------------
(* How copies move *)

LEMMA PopShape ==
  ASSUME outbound \in Seq(Envelope), outbound # <<>>, outbound' = Tail(outbound)
  PROVE  /\ 1 \in DOMAIN outbound /\ Head(outbound) = outbound[1]
         /\ DOMAIN outbound \subseteq Nat \ {0}
         /\ \A i \in DOMAIN outbound' :
              i \in Nat \ {0} /\ i + 1 \in DOMAIN outbound /\ outbound'[i] = outbound[i + 1]
         /\ \A j \in DOMAIN outbound \ {1} :
              j - 1 \in DOMAIN outbound' /\ outbound'[j - 1] = outbound[j]
<1>1. /\ Len(outbound) \in Nat \ {0}
      /\ DOMAIN outbound = 1 .. Len(outbound)
      /\ DOMAIN outbound' = 1 .. Len(outbound) - 1
      /\ \A i \in 1 .. Len(outbound) - 1 : outbound'[i] = outbound[i + 1]
      /\ Head(outbound) = outbound[1]
  BY HeadTailProperties, EmptySeq, LenProperties
<1>2. \A i \in 1 .. Len(outbound) - 1 :
        i \in Nat \ {0} /\ i + 1 \in 1 .. Len(outbound)
  BY <1>1
<1>3. ASSUME NEW j \in DOMAIN outbound \ {1}
      PROVE  j - 1 \in DOMAIN outbound' /\ outbound'[j - 1] = outbound[j]
  <2>1. j \in Nat /\ j - 1 \in 1 .. Len(outbound) - 1 /\ (j - 1) + 1 = j
    BY <1>1
  <2>2. outbound'[j - 1] = outbound[(j - 1) + 1]
    BY <1>1, <2>1
  <2> QED
    BY <1>1, <2>1, <2>2
<1>4. 1 \in 1 .. Len(outbound) /\ 1 .. Len(outbound) \subseteq Nat \ {0}
  BY <1>1
<1> QED
  BY <1>1, <1>2, <1>3, <1>4

LEMMA PushShape ==
  ASSUME outbound \in Seq(Envelope), NEW e \in Envelope, outbound' = Append(outbound, e)
  PROVE  /\ Len(outbound) + 1 \notin DOMAIN outbound
         /\ DOMAIN outbound' = DOMAIN outbound \union {Len(outbound) + 1}
         /\ \A i \in DOMAIN outbound : outbound'[i] = outbound[i]
         /\ outbound'[Len(outbound) + 1] = e
<1>1. /\ Len(outbound) \in Nat
      /\ DOMAIN outbound = 1 .. Len(outbound)
      /\ DOMAIN outbound' = 1 .. Len(outbound) + 1
      /\ \A i \in 1 .. Len(outbound) : outbound'[i] = outbound[i]
      /\ outbound'[Len(outbound) + 1] = e
  BY AppendProperties, LenProperties
<1> QED
  BY <1>1

\* What a step that moves messages does to one of them.
Kept(b) ==
  /\ Alone(b) => Alone(b)'
  /\ Nowhere(b)' <=> Nowhere(b)

\* From the head of the list to process_delivery.
LEMMA PollMoves ==
  ASSUME TypeOK, NEW d \in Process, Poll(d), NEW b \in Body
  PROVE  Kept(b)
<1>1. /\ outbound \in Seq(Envelope) /\ outbound # <<>> /\ outbound' = Tail(outbound)
      /\ msg \in [Process -> Envelope \union {NoEnvelope}]
      /\ msg' = [msg EXCEPT ![d] = Head(outbound)]
      /\ UNCHANGED <<retry, row>>
      /\ msg[d] = NoEnvelope
  BY DEF Poll, TypeOK, Coherent
<1>2. /\ 1 \in DOMAIN outbound /\ Head(outbound) = outbound[1]
      /\ DOMAIN outbound \subseteq Nat \ {0}
      /\ \A i \in DOMAIN outbound' :
           i \in Nat \ {0} /\ i + 1 \in DOMAIN outbound /\ outbound'[i] = outbound[i + 1]
      /\ \A j \in DOMAIN outbound \ {1} :
           j - 1 \in DOMAIN outbound' /\ outbound'[j - 1] = outbound[j]
  BY <1>1, PopShape
<1>3. outbound[1] # NoEnvelope
  BY <1>1, <1>2, PopType, DelivererAssumption
<1>4. InSet(b)' = InSet(b) /\ InRow(b)' = InRow(b)
  BY <1>1 DEF InSet, InRow
<1>5. /\ InMsg(b)' = IF 1 \in InList(b) THEN InMsg(b) \union {d} ELSE InMsg(b)
      /\ d \notin InMsg(b)
  BY <1>1, <1>2, <1>3 DEF InMsg, InList
<1>6. /\ \A i \in InList(b)' : i \in Nat \ {0} /\ i + 1 \in InList(b)
      /\ \A j \in InList(b) \ {1} : j - 1 \in InList(b)'
      /\ InList(b) \subseteq Nat \ {0}
  BY <1>2 DEF InList
<1>7. Nowhere(b)' <=> Nowhere(b)
  BY <1>4, <1>5, <1>6 DEF Nowhere, AllEmpty
<1>8. ASSUME Alone(b)
      PROVE  Alone(b)'
  <2>1. \A p, q \in InList(b)' : p = q
    BY <1>6, <1>8 DEF Alone, AtMostOne
  <2>2. InList(b)' # {} => InList(b) # {} /\ 1 \notin InList(b)
    BY <1>6, <1>8 DEF Alone, AtMostOne
  <2> QED
    BY <1>4, <1>5, <1>8, <2>1, <2>2 DEF Alone, AtMostOne
<1> QED
  BY <1>7, <1>8 DEF Kept

\* From process_delivery to the retry set.
LEMMA AddRetryMoves ==
  ASSUME TypeOK, NEW d \in Process, AddRetry(d), NEW b \in Body
  PROVE  Kept(b)
<1>1. /\ msg[d] \in Envelope /\ MayRetry(msg[d])
      /\ retry \in [Envelope -> {"absent", "waiting", "due"}]
      /\ msg \in [Process -> Envelope \union {NoEnvelope}]
      /\ retry' = [retry EXCEPT ![Retried(msg[d])] = "waiting"]
      /\ msg' = [msg EXCEPT ![d] = NoEnvelope]
      /\ UNCHANGED <<outbound, row>>
  BY DEF AddRetry, Finish, TypeOK, Coherent, MayRetry
<1>2. PICK e \in Envelope : e = Retried(msg[d]) /\ e.body = msg[d].body
  BY <1>1, EnvelopeType
<1>3. InList(b)' = InList(b) /\ InRow(b)' = InRow(b)
  BY <1>1 DEF InList, InRow
<1>4. /\ InSet(b)' = IF e.body = b THEN InSet(b) \union {e} ELSE InSet(b)
      /\ InMsg(b)' = IF e.body = b THEN InMsg(b) \ {d} ELSE InMsg(b)
      /\ e.body = b => d \in InMsg(b)
  BY <1>1, <1>2, DelivererAssumption DEF InSet, InMsg
<1> QED
  BY <1>3, <1>4 DEF Kept, Alone, Nowhere, AtMostOne, AllEmpty

\* From the retry set to process_retries.
LEMMA TakeMoves ==
  ASSUME TypeOK, NEW d \in Process, Take(d), NEW b \in Body
  PROVE  Kept(b)
<1>1. PICK e \in rows[d] :
        /\ retry[e] # "absent"
        /\ retry' = [retry EXCEPT ![e] = "absent"]
        /\ row' = [row EXCEPT ![d] = e]
  BY DEF Take, Removed
<1>2. /\ e \in Envelope /\ e # NoEnvelope
      /\ retry \in [Envelope -> {"absent", "waiting", "due"}]
      /\ row \in [Process -> Envelope \union {NoEnvelope}]
      /\ row[d] = NoEnvelope
      /\ UNCHANGED <<outbound, msg>>
  BY DelivererAssumption DEF Take, TypeOK, Coherent
<1>3. InList(b)' = InList(b) /\ InMsg(b)' = InMsg(b)
  BY <1>2 DEF InList, InMsg
<1>4. /\ InSet(b)' = IF e.body = b THEN InSet(b) \ {e} ELSE InSet(b)
      /\ InRow(b)' = IF e.body = b THEN InRow(b) \union {d} ELSE InRow(b)
      /\ e.body = b => e \in InSet(b)
  BY <1>1, <1>2 DEF InSet, InRow
<1> QED
  BY <1>3, <1>4 DEF Kept, Alone, Nowhere, AtMostOne, AllEmpty

\* From process_retries to the end of the list.
LEMMA PushBackMoves ==
  ASSUME TypeOK, NEW d \in Process, PushBack(d), NEW b \in Body
  PROVE  Kept(b)
<1>1. /\ row[d] \in Envelope
      /\ outbound \in Seq(Envelope)
      /\ row \in [Process -> Envelope \union {NoEnvelope}]
      /\ outbound' = Append(outbound, row[d])
      /\ row' = [row EXCEPT ![d] = NoEnvelope]
      /\ UNCHANGED <<retry, msg>>
  BY DEF PushBack, TypeOK, Coherent
<1>2. /\ Len(outbound) + 1 \notin DOMAIN outbound
      /\ DOMAIN outbound' = DOMAIN outbound \union {Len(outbound) + 1}
      /\ \A i \in DOMAIN outbound : outbound'[i] = outbound[i]
      /\ outbound'[Len(outbound) + 1] = row[d]
  BY <1>1, PushShape
<1>3. InSet(b)' = InSet(b) /\ InMsg(b)' = InMsg(b)
  BY <1>1 DEF InSet, InMsg
<1>4. /\ InList(b)' = IF row[d].body = b THEN InList(b) \union {Len(outbound) + 1}
                      ELSE InList(b)
      /\ InRow(b)' = IF row[d].body = b THEN InRow(b) \ {d} ELSE InRow(b)
      /\ row[d].body = b => d \in InRow(b)
  BY <1>1, <1>2, DelivererAssumption DEF InList, InRow
<1> QED
  BY <1>3, <1>4 DEF Kept, Alone, Nowhere, AtMostOne, AllEmpty

\* A step that moves no message.
LEMMA StaysPut ==
  ASSUME UNCHANGED <<outbound, msg, row>>, NEW b \in Body,
         \A e \in Envelope : retry'[e] = "absent" <=> retry[e] = "absent"
  PROVE  /\ Kept(b)
         /\ InList(b)' = InList(b) /\ InSet(b)' = InSet(b)
         /\ InMsg(b)' = InMsg(b) /\ InRow(b)' = InRow(b)
BY DEF Kept, Alone, Nowhere, InList, InSet, InMsg, InRow

\* Processes that let go of what they hold.
LEMMA LetsGo ==
  ASSUME UNCHANGED <<outbound, retry>>, NEW b \in Body,
         \A d \in Process : /\ msg'[d] \in {msg[d], NoEnvelope}
                            /\ row'[d] \in {row[d], NoEnvelope}
  PROVE  /\ Alone(b) => Alone(b)'
         /\ Nowhere(b) => Nowhere(b)'
         /\ InList(b)' = InList(b) /\ InSet(b)' = InSet(b)
         /\ InMsg(b)' \subseteq InMsg(b) /\ InRow(b)' \subseteq InRow(b)
         /\ \A d \in InMsg(b)' : msg'[d] = msg[d]
         /\ \A d \in InRow(b)' : row'[d] = row[d]
<1>1. /\ InList(b)' = InList(b) /\ InSet(b)' = InSet(b)
      /\ InMsg(b)' \subseteq InMsg(b) /\ InRow(b)' \subseteq InRow(b)
      /\ \A d \in InMsg(b)' : msg'[d] = msg[d]
      /\ \A d \in InRow(b)' : row'[d] = row[d]
  BY DEF InList, InSet, InMsg, InRow
<1> QED
  BY <1>1 DEF Alone, Nowhere, AtMostOne, AllEmpty

\* process_delivery lets go of its message and no other.
LEMMA LetsGoOf ==
  ASSUME TypeOK, NEW d \in Process, msg[d] \in Envelope,
         msg' = [msg EXCEPT ![d] = NoEnvelope],
         UNCHANGED <<outbound, retry, row>>, NEW b \in Body
  PROVE  /\ msg[d].body # b => Kept(b)
         /\ msg[d].body = b /\ Alone(b) => Nowhere(b)'
<1>1. /\ InList(b)' = InList(b) /\ InSet(b)' = InSet(b) /\ InRow(b)' = InRow(b)
      /\ InMsg(b)' = InMsg(b) \ {d}
      /\ d \in InMsg(b) <=> msg[d].body = b
  BY DelivererAssumption DEF InList, InSet, InMsg, InRow, TypeOK
<1> QED
  BY <1>1 DEF Kept, Alone, Nowhere, AtMostOne, AllEmpty

\* The agent pushes a message.
LEMMA SubmitMoves ==
  ASSUME TypeOK, NEW c \in Body, Submit(c), NEW b \in Body
  PROVE  /\ b # c => Kept(b)
         /\ b = c => ~Nowhere(b)' /\ (Nowhere(b) => Alone(b)')
<1> DEFINE e == [body |-> c, retries |-> 0]
<1>1. /\ outbound \in Seq(Envelope)
      /\ e \in Envelope
      /\ outbound' = Append(outbound, e)
      /\ UNCHANGED <<retry, msg, row>>
  BY EnvelopeType DEF Submit, Pushed, perProcess, TypeOK
<1> HIDE DEF e
<1>2. /\ Len(outbound) + 1 \notin DOMAIN outbound
      /\ DOMAIN outbound' = DOMAIN outbound \union {Len(outbound) + 1}
      /\ \A i \in DOMAIN outbound : outbound'[i] = outbound[i]
      /\ outbound'[Len(outbound) + 1] = e
  BY <1>1, PushShape
<1>3. InSet(b)' = InSet(b) /\ InMsg(b)' = InMsg(b) /\ InRow(b)' = InRow(b)
  BY <1>1 DEF InSet, InMsg, InRow
<1>4. e.body = c
  BY DEF e
<1>5. InList(b)' = IF c = b THEN InList(b) \union {Len(outbound) + 1} ELSE InList(b)
  BY <1>2, <1>4 DEF InList
<1> QED
  BY <1>2, <1>3, <1>5 DEF Kept, Alone, Nowhere, AtMostOne, AllEmpty, InList

-----------------------------------------------------------------------------
(* One copy *)

\* A step in which no Redis answer is lost.
QuietStep ==
  \/ \E d \in Process : DeliveryStep(d) \/ RetriesStep(d) \/ Crash(d) \/ Restart(d)
  \/ \E e \in Envelope : Ripen(e)
  \/ \E b \in Body : Submit(b) \/ SubmitError(b)
  \/ UNCHANGED vars

LEMMA QuietSoFar ==
  ASSUME TypeOK, [Next]_vars, faults' = 0
  PROVE  faults = 0 /\ QuietStep
<1>1. ~ \E d \in Process : LostAnswer(d)
  BY DEF LostAnswer, PollError, AddRetryError, TakeError, PushBackError, Fault, TypeOK
<1>2. QuietStep
  BY <1>1 DEF Next, Service, QuietStep
<1>3. faults' = faults
  BY <1>2 DEF QuietStep, DeliveryStep, RetriesStep, Poll, Deliver, PostFails, Uncaught,
     Unsupported, AddRetry, Scan, Skip, Take, PushBack, Crash, Restart, Ripen,
     Submit, SubmitError, vars
<1> QED
  BY <1>2, <1>3

\* The steps that move no message and settle none.
Standing(d) ==
  \/ Scan(d) \/ Skip(d) \/ Restart(d)
  \/ PostFails(d) /\ MayRetry(msg[d])

LEMMA StandingStays ==
  ASSUME TypeOK, NEW d \in Process, Standing(d)
  PROVE  /\ UNCHANGED <<outbound, retry, msg, row, outcome, crashes>>
         /\ \A b \in Body : Kept(b)
<1>1. UNCHANGED <<outbound, retry, msg, row, outcome, crashes>>
  BY DEF Standing, Scan, Skip, Restart, PostFails
<1> QED
  BY <1>1, StaysPut

LEMMA RipenStays ==
  ASSUME TypeOK, NEW e \in Envelope, Ripen(e)
  PROVE  /\ UNCHANGED <<outbound, msg, row, rows, delivery, attempts, outcome, crashes>>
         /\ retry[e] = "waiting" /\ retry' = [retry EXCEPT ![e] = "due"]
         /\ \A b \in Body : Kept(b)
<1>1. /\ UNCHANGED <<outbound, msg, row, rows, delivery, attempts, outcome, crashes>>
      /\ retry[e] = "waiting" /\ retry' = [retry EXCEPT ![e] = "due"]
  BY DEF Ripen, perProcess
<1>2. \A f \in Envelope : retry'[f] = "absent" <=> retry[f] = "absent"
  BY <1>1 DEF TypeOK
<1> QED
  BY <1>1, <1>2, StaysPut

\* The steps that move a message from one place to another.
Moving(d) == Poll(d) \/ AddRetry(d) \/ Take(d) \/ PushBack(d)

LEMMA MovingMoves ==
  ASSUME TypeOK, NEW d \in Process, Moving(d)
  PROVE  /\ UNCHANGED <<attempts, outcome, crashes>>
         /\ \A b \in Body : Kept(b)
<1>1. UNCHANGED <<attempts, outcome, crashes>>
  BY DEF Moving, Poll, AddRetry, Take, PushBack
<1> QED
  BY <1>1, PollMoves, AddRetryMoves, TakeMoves, PushBackMoves DEF Moving

\* The steps with which process_delivery has done with a message.
Ending(d) ==
  \/ Deliver(d) \/ Uncaught(d) \/ Unsupported(d)
  \/ PostFails(d) /\ ~MayRetry(msg[d])

LEMMA EndingEnds ==
  ASSUME TypeOK, NEW d \in Process, Ending(d)
  PROVE  /\ delivery[d] = "send"
         /\ msg[d] \in Envelope /\ msg[d].body \in Body
         /\ msg' = [msg EXCEPT ![d] = NoEnvelope]
         /\ delivery' \in {[delivery EXCEPT ![d] = "poll"], [delivery EXCEPT ![d] = "dead"]}
         /\ UNCHANGED <<outbound, retry, crashes>>
         /\ \A c \in Process : row'[c] \in {row[c], NoEnvelope} /\ rows'[c] \subseteq rows[c]
         /\ Status \/ ~Uncaught(d) => UNCHANGED <<row, rows>>
         /\ attempts' = attempts \/ attempts' = [attempts EXCEPT ![msg[d].body] = @ + 1]
         /\ \/ outcome' = outcome
            \/ \E o \in {"sent", "givenUp"} : outcome' = [outcome EXCEPT ![msg[d].body] = o]
<1>1. delivery[d] = "send"
  BY DEF Ending, Deliver, Uncaught, Unsupported, PostFails, Sending
<1>2. msg[d] \in Envelope /\ msg[d].body \in Body
  BY <1>1, InHand
<1>3. /\ msg' = [msg EXCEPT ![d] = NoEnvelope]
      /\ delivery' \in {[delivery EXCEPT ![d] = "poll"], [delivery EXCEPT ![d] = "dead"]}
      /\ UNCHANGED <<outbound, retry, crashes>>
  BY DEF Ending, Deliver, Uncaught, Unsupported, PostFails, Finish, StopDelivery
<1>4. CASE Uncaught(d)
  <2>1. UNCHANGED <<row, rows>> \/ StopRetries(d)
    BY <1>4 DEF Uncaught, EndMain
  <2>2. Status => UNCHANGED <<row, rows>>
    BY <1>4 DEF Uncaught, EndMain
  <2>3. \A c \in Process : row'[c] \in {row[c], NoEnvelope} /\ rows'[c] \subseteq rows[c]
    BY <2>1 DEF StopRetries, TypeOK
  <2>4. outcome' = outcome /\ attempts' = [attempts EXCEPT ![msg[d].body] = @ + 1]
    BY <1>4 DEF Uncaught, Attempt
  <2> QED
    BY <1>1, <1>2, <1>3, <1>4, <2>2, <2>3, <2>4
<1>5. CASE ~Uncaught(d)
  <2>1. UNCHANGED <<row, rows>>
    BY <1>5 DEF Ending, Deliver, Unsupported, PostFails
  <2>2. attempts' = attempts \/ attempts' = [attempts EXCEPT ![msg[d].body] = @ + 1]
    BY <1>5 DEF Ending, Deliver, Unsupported, PostFails, Attempt
  <2>3. \/ outcome' = outcome
        \/ \E o \in {"sent", "givenUp"} : outcome' = [outcome EXCEPT ![msg[d].body] = o]
    BY <1>5 DEF Ending, Deliver, Unsupported, PostFails, Log
  <2> QED
    BY <1>1, <1>2, <1>3, <2>1, <2>2, <2>3
<1> QED
  BY <1>4, <1>5

\* What a QuietStep may be.
LEMMA QuietCases ==
  ASSUME QuietStep
  PROVE  \/ \E d \in Process : Standing(d) \/ Moving(d) \/ Ending(d) \/ Crash(d)
         \/ \E e \in Envelope : Ripen(e)
         \/ \E b \in Body : Submit(b) \/ SubmitError(b)
         \/ UNCHANGED vars
BY DEF QuietStep, DeliveryStep, RetriesStep, Standing, Moving, Ending

LEMMA CrashLetsGo ==
  ASSUME TypeOK, NEW d \in Process, Crash(d)
  PROVE  /\ UNCHANGED <<outbound, retry, attempts, outcome>>
         /\ msg' = [msg EXCEPT ![d] = NoEnvelope]
         /\ delivery' = [delivery EXCEPT ![d] = "dead"]
         /\ \A c \in Process : /\ msg'[c] \in {msg[c], NoEnvelope}
                               /\ row'[c] \in {row[c], NoEnvelope}
                               /\ rows'[c] \subseteq rows[c]
BY DEF Crash, StopDelivery, StopRetries, TypeOK

LEMMA OneCopyStep ==
  ASSUME TypeOK, OneCopy, QuietStep
  PROVE  OneCopy'
<1> SUFFICES ASSUME NEW b \in Body
             PROVE  Alone(b)' /\ (outcome'[b] # "open" => Nowhere(b)')
  BY DEF OneCopy
<1>1. /\ Alone(b) /\ (outcome[b] # "open" => Nowhere(b))
      /\ outcome \in [Body -> {"new", "open", "dropped", "sent", "givenUp"}]
  BY DEF OneCopy, TypeOK
<1>2. ASSUME Kept(b), outcome'[b] = outcome[b]
      PROVE  Alone(b)' /\ (outcome'[b] # "open" => Nowhere(b)')
  BY <1>1, <1>2 DEF Kept
<1>3. ASSUME NEW d \in Process, Standing(d) \/ Moving(d)
      PROVE  Alone(b)' /\ (outcome'[b] # "open" => Nowhere(b)')
  BY <1>2, <1>3, StandingStays, MovingMoves
<1>4. ASSUME NEW d \in Process, Ending(d)
      PROVE  Alone(b)' /\ (outcome'[b] # "open" => Nowhere(b)')
  <2>1. /\ Alone(b)'
        /\ Nowhere(b) => Nowhere(b)'
    <3>1. \A c \in Process : msg'[c] \in {msg[c], NoEnvelope}
      BY <1>4, EndingEnds DEF TypeOK
    <3> QED
      BY <1>1, <1>4, <3>1, EndingEnds, LetsGo
  <2>2. CASE outcome'[b] = outcome[b]
    BY <1>1, <2>1, <2>2
  <2>3. CASE outcome'[b] # outcome[b]
    <3>1. ~Uncaught(d) /\ b = msg[d].body
      <4>1. ~Uncaught(d)
        BY <2>3 DEF Uncaught
      <4> QED
        BY <1>1, <1>4, <2>3, <4>1, EndingEnds
    <3> QED
      BY <1>1, <1>4, <2>1, <3>1, EndingEnds, LetsGoOf
  <2> QED
    BY <2>2, <2>3
<1>5. ASSUME NEW d \in Process, Crash(d)
      PROVE  Alone(b)' /\ (outcome'[b] # "open" => Nowhere(b)')
  BY <1>1, <1>5, CrashLetsGo, LetsGo
<1>6. ASSUME NEW e \in Envelope, Ripen(e)
      PROVE  Alone(b)' /\ (outcome'[b] # "open" => Nowhere(b)')
  BY <1>2, <1>6, RipenStays
<1>7. ASSUME NEW c \in Body, Submit(c)
      PROVE  Alone(b)' /\ (outcome'[b] # "open" => Nowhere(b)')
  <2>1. outcome[c] = "new" /\ outcome' = [outcome EXCEPT ![c] = "open"]
    BY <1>7 DEF Submit, Opened
  <2> QED
    BY <1>1, <1>2, <1>7, <2>1, SubmitMoves
<1>8. ASSUME NEW c \in Body, SubmitError(c)
      PROVE  Alone(b)' /\ (outcome'[b] # "open" => Nowhere(b)')
  <2>1. /\ outcome[c] = "new" /\ outcome' = [outcome EXCEPT ![c] = "dropped"]
        /\ UNCHANGED <<outbound, msg, row, retry>>
    BY <1>8 DEF SubmitError, perProcess
  <2>2. Kept(b)
    BY <2>1, StaysPut
  <2> QED
    BY <1>1, <2>1, <2>2 DEF Kept
<1>9. CASE UNCHANGED vars
  BY <1>2, <1>9, StaysPut DEF vars, perProcess
<1> QED
  BY <1>3, <1>4, <1>5, <1>6, <1>7, <1>8, <1>9, QuietCases

LEMMA InitOneCopy == Init => OneCopy
BY EmptySeq DEF Init, OneCopy, Alone, Nowhere, AtMostOne, AllEmpty, InList, InSet,
   InMsg, InRow

\* As long as Redis answers, a message is in one place while it is open and in
\* none once it is settled, for any number of processes, kills and restarts:
\* ZREM gives a due message to one process only.
THEOREM OneCopyOfEach == Spec => [](faults = 0 => SingleCopy)
<1> DEFINE IInv == faults = 0 => OneCopy
<1>1. Init => IInv
  BY InitOneCopy
<1>2. TypeOK /\ IInv /\ [Next]_vars => IInv'
  BY OneCopyStep, QuietSoFar
<1>3. IInv => (faults = 0 => SingleCopy)
  BY OneCopyIsSingleCopy
<1> HIDE DEF IInv
<1> QED
  BY <1>1, <1>2, <1>3, TypeCorrect, PTL DEF Spec

-----------------------------------------------------------------------------
(* Nothing is lost *)

NothingLostStill ==
  crashes = 0 => \A b \in Body \ NullHeader :
    Scheme[b] = "http" /\ outcome[b] = "open" => ~Nowhere(b)

LEMMA NothingLostStep ==
  ASSUME TypeOK, Status, NothingLostStill, QuietStep
  PROVE  NothingLostStill'
<1> SUFFICES ASSUME crashes' = 0, NEW b \in Body, b \notin NullHeader,
                    Scheme[b] = "http", outcome'[b] = "open"
             PROVE  ~Nowhere(b)'
  BY DEF NothingLostStill
<1>1. ASSUME crashes = 0, outcome[b] = "open", Kept(b)
      PROVE  ~Nowhere(b)'
  BY <1>1 DEF NothingLostStill, Kept
<1>2. ASSUME NEW d \in Process, Standing(d) \/ Moving(d)
      PROVE  ~Nowhere(b)'
  BY <1>1, <1>2, StandingStays, MovingMoves
<1>3. ASSUME NEW d \in Process, Ending(d)
      PROVE  ~Nowhere(b)'
  <2>1. /\ msg[d] \in Envelope /\ msg' = [msg EXCEPT ![d] = NoEnvelope]
        /\ UNCHANGED <<outbound, retry, row, crashes>>
        /\ outcome \in [Body -> {"new", "open", "dropped", "sent", "givenUp"}]
    BY <1>3, EndingEnds DEF TypeOK
  <2>2. CASE msg[d].body = b
    <3>1. ~Uncaught(d) /\ ~Unsupported(d)
      BY <2>2 DEF Uncaught, Unsupported, Sending
    <3>2. \E o \in {"sent", "givenUp"} : outcome' = [outcome EXCEPT ![b] = o]
      BY <1>3, <2>2, <3>1 DEF Ending, Deliver, PostFails, Log
    <3> QED
      BY <2>1, <3>2
  <2>3. CASE msg[d].body # b
    <3>1. outcome'[b] = outcome[b]
      BY <1>3, <2>1, <2>3, EndingEnds
    <3> QED
      BY <1>1, <2>1, <2>3, <3>1, LetsGoOf
  <2> QED
    BY <2>2, <2>3
<1>4. ASSUME NEW d \in Process, Crash(d)
      PROVE  FALSE
  BY <1>4 DEF Crash, TypeOK
<1>5. ASSUME NEW e \in Envelope, Ripen(e)
      PROVE  ~Nowhere(b)'
  BY <1>1, <1>5, RipenStays
<1>6. ASSUME NEW c \in Body, Submit(c)
      PROVE  ~Nowhere(b)'
  <2>1. outcome' = [outcome EXCEPT ![c] = "open"] /\ crashes' = crashes
    BY <1>6 DEF Submit, Opened
  <2> QED
    BY <1>1, <1>6, <2>1, SubmitMoves DEF TypeOK
<1>7. ASSUME NEW c \in Body, SubmitError(c)
      PROVE  ~Nowhere(b)'
  <2>1. /\ outcome' = [outcome EXCEPT ![c] = "dropped"]
        /\ UNCHANGED <<outbound, msg, row, retry, crashes>>
    BY <1>7 DEF SubmitError, perProcess
  <2>2. Kept(b)
    BY <2>1, StaysPut
  <2> QED
    BY <1>1, <2>1, <2>2 DEF TypeOK
<1>8. CASE UNCHANGED vars
  BY <1>1, <1>8, StaysPut DEF vars, perProcess
<1> QED
  BY <1>2, <1>3, <1>4, <1>5, <1>6, <1>7, <1>8, QuietCases

\* With the status endpoints served, as long as Redis answers and no process is
\* killed, an open message for an http endpoint is always in the list, in the
\* retry set or with a coroutine, although other messages end coroutines.
THEOREM NoMessageLost == Spec => [](Status /\ faults = 0 => NothingLost)
<1> DEFINE IInv == Status /\ faults = 0 => NothingLostStill
<1>1. Init => IInv
  BY DEF Init, NothingLostStill
<1>2. TypeOK /\ IInv /\ [Next]_vars => IInv'
  BY NothingLostStep, QuietSoFar
<1>3. IInv => (Status /\ faults = 0 => NothingLost)
  BY NowhereIsNoPlace DEF NothingLostStill, NothingLost
<1> HIDE DEF IInv
<1> QED
  BY <1>1, <1>2, <1>3, TypeCorrect, PTL DEF Spec

-----------------------------------------------------------------------------
(* Envelopes count the attempts *)

\* Each copy of a message knows how many attempts were made.
Counted(b) ==
  /\ \A i \in InList(b) : outbound[i].retries = attempts[b]
  /\ \A e \in InSet(b) : e.retries = attempts[b]
  /\ \A d \in InMsg(b) :
       attempts[b] = IF delivery[d] = "zadd" THEN msg[d].retries + 1 ELSE msg[d].retries
  /\ \A d \in InRow(b) : row[d].retries = attempts[b]
  /\ outcome[b] \in {"new", "dropped"} => attempts[b] = 0

\* The rows a process scanned are not in the retry set for a later attempt, and
\* no coroutine is about to put them there again.
Scanned(b) ==
  \A d \in Process : \A e \in rows[d] : e.body = b =>
    /\ retry[e] # "waiting"
    /\ e.retries <= attempts[b]
    /\ \A c \in InMsg(b) : delivery[c] = "zadd" => e.retries < attempts[b]

\* The inductive invariant behind RetriesWaitTheirTime and ImplementsContract.
Exact == OneCopy /\ \A b \in Body : Counted(b) /\ Scanned(b)

\* Nothing about b changes but that copies or scanned rows may be gone.
LEMMA ExactFrame ==
  ASSUME NEW b \in Body, Counted(b), Scanned(b),
         UNCHANGED outbound, attempts'[b] = attempts[b],
         outcome'[b] \in {"new", "dropped"} =>
           outcome[b] \in {"new", "dropped"} \/ attempts[b] = 0,
         InList(b)' = InList(b), InSet(b)' \subseteq InSet(b),
         InMsg(b)' \subseteq InMsg(b), InRow(b)' \subseteq InRow(b),
         \A d \in InMsg(b)' : msg'[d] = msg[d] /\ delivery'[d] = delivery[d],
         \A d \in InRow(b)' : row'[d] = row[d],
         \A d \in Process : rows'[d] \subseteq rows[d],
         \A e \in Envelope : retry'[e] = "waiting" => retry[e] = "waiting",
         TypeOK
  PROVE  Counted(b)' /\ Scanned(b)'
<1>1. Counted(b)'
  BY DEF Counted
<1>2. Scanned(b)'
  BY DEF Scanned, TypeOK
<1> QED
  BY <1>1, <1>2

LEMMA ExactStanding ==
  ASSUME TypeOK, Exact, NEW d \in Process, Standing(d), NEW b \in Body
  PROVE  Counted(b)' /\ Scanned(b)'
<1>1. /\ Counted(b) /\ Scanned(b) /\ Alone(b) /\ (outcome[b] # "open" => Nowhere(b))
      /\ UNCHANGED <<outbound, retry, msg, row, outcome>>
      /\ InList(b)' = InList(b) /\ InSet(b)' = InSet(b)
      /\ InMsg(b)' = InMsg(b) /\ InRow(b)' = InRow(b)
  <2>1. UNCHANGED <<outbound, retry, msg, row, outcome>>
    BY StandingStays
  <2> QED
    BY <2>1, StaysPut DEF Exact, OneCopy
<1>2. CASE Scan(d)
  <2>1. PICK found \in SUBSET Due : rows' = [rows EXCEPT ![d] = found]
    BY <1>2 DEF Scan
  <2>2. UNCHANGED <<attempts, delivery>>
    BY <1>2 DEF Scan
  <2>3. Counted(b)'
    BY <1>1, <2>2 DEF Counted
  <2>4. ASSUME NEW e \in found, e.body = b
        PROVE  e \in Envelope /\ retry[e] = "due" /\ e.retries = attempts[b] /\ InMsg(b) = {}
    <3>1. e \in Envelope /\ retry[e] = "due" /\ e \in InSet(b)
      BY <2>4 DEF Due, InSet
    <3> QED
      BY <1>1, <3>1 DEF Counted, Alone, AtMostOne
  <2>5. ASSUME NEW e \in Envelope, e.retries = attempts[b]
        PROVE  e.retries <= attempts[b]
    BY <2>5 DEF Envelope
  <2>6. ASSUME NEW c \in Process, NEW e \in rows'[c], e.body = b
        PROVE  /\ retry'[e] # "waiting"
               /\ e.retries <= attempts'[b]
               /\ \A a \in InMsg(b)' : delivery'[a] = "zadd" => e.retries < attempts'[b]
    <3>1. CASE c = d
      <4>1. e \in found
        BY <2>1, <2>6, <3>1 DEF TypeOK
      <4> QED
        BY <1>1, <2>2, <2>4, <2>5, <2>6, <4>1
    <3>2. CASE c # d
      <4>1. e \in rows[c]
        BY <2>1, <2>6, <3>2 DEF TypeOK
      <4> QED
        BY <1>1, <2>2, <2>6, <4>1 DEF Scanned
    <3> QED
      BY <3>1, <3>2
  <2>7. Scanned(b)'
    BY <2>6 DEF Scanned
  <2> QED
    BY <2>3, <2>7
<1>3. CASE Skip(d) \/ Restart(d)
  <2>1. UNCHANGED attempts /\ \A c \in Process : rows'[c] \subseteq rows[c]
    BY <1>3 DEF Skip, NextRow, Restart, TypeOK
  <2>2. \A c \in InMsg(b)' : delivery'[c] = delivery[c]
    BY <1>1, <1>3 DEF Skip, Restart, Up, TypeOK, Coherent, InMsg
  <2> QED
    BY <1>1, <2>1, <2>2, ExactFrame
<1>4. CASE PostFails(d) /\ MayRetry(msg[d])
  <2>1. /\ delivery[d] = "send" /\ msg[d] \in Envelope /\ msg[d].body \in Body
        /\ delivery' = [delivery EXCEPT ![d] = "zadd"]
        /\ attempts' = [attempts EXCEPT ![msg[d].body] = @ + 1]
        /\ UNCHANGED rows
    BY <1>4, InHand DEF PostFails, Sending, Attempt
  <2>2. CASE msg[d].body = b
    <3>1. d \in InMsg(b)
      BY <2>1, <2>2, DelivererAssumption DEF InMsg
    <3>2. InMsg(b) = {d} /\ InList(b) = {} /\ InSet(b) = {} /\ InRow(b) = {} /\ outcome[b] = "open"
      BY <1>1, <3>1 DEF Alone, AtMostOne, Nowhere, AllEmpty
    <3>3. attempts[b] \in Nat /\ attempts'[b] = attempts[b] + 1 /\ delivery'[d] = "zadd"
      BY <2>1, <2>2 DEF TypeOK
    <3>4. attempts[b] = msg[d].retries
      BY <1>1, <2>1, <3>1 DEF Counted
    <3>5. Counted(b)'
      BY <1>1, <3>2, <3>3, <3>4 DEF Counted
    <3>6. ASSUME NEW c \in Process, NEW e \in rows[c], e.body = b
          PROVE  retry[e] # "waiting" /\ e.retries < attempts'[b] /\ e.retries <= attempts'[b]
      <4>1. e.retries \in Nat
        BY <3>6 DEF TypeOK, Envelope
      <4> QED
        BY <1>1, <3>3, <3>6, <4>1 DEF Scanned
    <3>7. Scanned(b)'
      BY <1>1, <2>1, <3>6 DEF Scanned
    <3> QED
      BY <3>5, <3>7
  <2>3. CASE msg[d].body # b
    <3>1. attempts'[b] = attempts[b] /\ \A c \in InMsg(b) : delivery'[c] = delivery[c]
      BY <2>1, <2>3 DEF TypeOK, InMsg
    <3> QED
      BY <1>1, <2>1, <3>1, ExactFrame
  <2> QED
    BY <2>2, <2>3
<1> QED
  BY <1>2, <1>3, <1>4 DEF Standing

LEMMA ExactPoll ==
  ASSUME TypeOK, Exact, NEW d \in Process, Poll(d), NEW b \in Body
  PROVE  Counted(b)' /\ Scanned(b)'
<1>1. /\ Counted(b) /\ Scanned(b)
      /\ outbound \in Seq(Envelope) /\ outbound # <<>> /\ outbound' = Tail(outbound)
      /\ msg \in [Process -> Envelope \union {NoEnvelope}]
      /\ msg' = [msg EXCEPT ![d] = Head(outbound)]
      /\ delivery \in [Process -> {"poll", "send", "zadd", "dead"}]
      /\ delivery' = [delivery EXCEPT ![d] = "send"]
      /\ UNCHANGED <<retry, row, rows, attempts, outcome>>
  BY DEF Poll, TypeOK, Exact
<1>2. /\ 1 \in DOMAIN outbound /\ Head(outbound) = outbound[1]
      /\ \A i \in DOMAIN outbound' : i + 1 \in DOMAIN outbound /\ outbound'[i] = outbound[i + 1]
  BY <1>1, PopShape
<1>3. \A i \in InList(b)' : outbound'[i].retries = attempts[b]
  BY <1>1, <1>2 DEF InList, Counted
<1>4. \A c \in InMsg(b)' :
        \/ c = d /\ delivery'[c] # "zadd" /\ msg'[c].retries = attempts[b]
        \/ c \in InMsg(b) /\ msg'[c] = msg[c] /\ delivery'[c] = delivery[c]
  <2> TAKE c \in InMsg(b)'
  <2>1. CASE c = d
    <3>1. msg'[d] = outbound[1] /\ delivery'[d] = "send"
      BY <1>1, <1>2
    <3>2. 1 \in InList(b)
      BY <1>2, <2>1, <3>1 DEF InList, InMsg
    <3> QED
      BY <1>1, <2>1, <3>1, <3>2 DEF Counted
  <2>2. CASE c # d
    <3>1. msg'[c] = msg[c] /\ delivery'[c] = delivery[c]
      BY <1>1, <2>2 DEF InMsg
    <3> QED
      BY <3>1 DEF InMsg
  <2> QED
    BY <2>1, <2>2
<1>5. InSet(b)' = InSet(b) /\ InRow(b)' = InRow(b)
  BY <1>1 DEF InSet, InRow
<1>6. Counted(b)'
  <2>1. \A e \in InSet(b)' : e.retries = attempts'[b]
    BY <1>1, <1>5 DEF Counted
  <2>2. \A c \in InMsg(b)' : attempts'[b] = IF delivery'[c] = "zadd" THEN msg'[c].retries + 1
                                                                 ELSE msg'[c].retries
    BY <1>1, <1>4 DEF Counted
  <2>3. /\ \A c \in InRow(b)' : row'[c].retries = attempts'[b]
        /\ outcome'[b] \in {"new", "dropped"} => attempts'[b] = 0
    BY <1>1, <1>5 DEF Counted
  <2> QED
    BY <1>1, <1>3, <2>1, <2>2, <2>3 DEF Counted
<1>7. Scanned(b)'
  BY <1>1, <1>4 DEF Scanned
<1> QED
  BY <1>6, <1>7

LEMMA ExactAddRetry ==
  ASSUME TypeOK, Exact, NEW d \in Process, AddRetry(d), NEW b \in Body
  PROVE  Counted(b)' /\ Scanned(b)'
<1>1. /\ Counted(b) /\ Scanned(b)
      /\ msg[d] \in Envelope /\ MayRetry(msg[d]) /\ delivery[d] = "zadd"
      /\ retry \in [Envelope -> {"absent", "waiting", "due"}]
      /\ msg \in [Process -> Envelope \union {NoEnvelope}]
      /\ rows \in [Process -> SUBSET Envelope]
      /\ retry' = [retry EXCEPT ![Retried(msg[d])] = "waiting"]
      /\ msg' = [msg EXCEPT ![d] = NoEnvelope]
      /\ delivery' = [delivery EXCEPT ![d] = "poll"]
      /\ UNCHANGED <<outbound, row, rows, attempts, outcome>>
  BY DEF AddRetry, Finish, TypeOK, Coherent, MayRetry, Exact
<1>2. PICK e \in Envelope :
        e = Retried(msg[d]) /\ e.body = msg[d].body /\ e.retries = msg[d].retries + 1
  BY <1>1, EnvelopeType
<1>3. InList(b)' = InList(b) /\ InRow(b)' = InRow(b)
  BY <1>1 DEF InList, InRow
<1>4. \A c \in InMsg(b)' : c \in InMsg(b) /\ msg'[c] = msg[c] /\ delivery'[c] = delivery[c]
  BY <1>1 DEF InMsg, TypeOK
<1>5. e.body = b => d \in InMsg(b)
  BY <1>1, <1>2, DelivererAssumption DEF InMsg
<1>6. e.body = b => e.retries = attempts[b]
  BY <1>1, <1>2, <1>5 DEF Counted
<1>7. \A f \in InSet(b)' : f.retries = attempts[b]
  BY <1>1, <1>2, <1>6 DEF InSet, Counted
<1>8. Counted(b)'
  BY <1>1, <1>3, <1>4, <1>7 DEF Counted
<1>9. ASSUME NEW c \in Process, NEW f \in rows[c], f.body = b
      PROVE  retry'[f] # "waiting"
  <2>1. f \in Envelope /\ f.retries \in Nat
    BY <1>1, <1>9 DEF Envelope
  <2>2. f # e
    <3>1. SUFFICES ASSUME f = e PROVE FALSE
      OBVIOUS
    <3>2. f.retries < attempts[b] /\ f.retries = attempts[b]
      BY <1>1, <1>5, <1>6, <1>9, <3>1 DEF Scanned
    <3> QED
      BY <2>1, <3>2
  <2> QED
    BY <1>1, <1>2, <1>9, <2>1, <2>2 DEF Scanned
<1>10. Scanned(b)'
  BY <1>1, <1>4, <1>9 DEF Scanned
<1> QED
  BY <1>8, <1>10

LEMMA ExactTake ==
  ASSUME TypeOK, Exact, NEW d \in Process, Take(d), NEW b \in Body
  PROVE  Counted(b)' /\ Scanned(b)'
<1>1. PICK e \in rows[d] :
        /\ retry[e] # "absent"
        /\ retry' = [retry EXCEPT ![e] = "absent"]
        /\ rows' = [rows EXCEPT ![d] = @ \ {e}]
        /\ row' = [row EXCEPT ![d] = e]
  BY DEF Take, Removed
<1>2. /\ Counted(b) /\ Scanned(b)
      /\ e \in Envelope
      /\ retry \in [Envelope -> {"absent", "waiting", "due"}]
      /\ row \in [Process -> Envelope \union {NoEnvelope}]
      /\ rows \in [Process -> SUBSET Envelope]
      /\ UNCHANGED <<outbound, msg, delivery, attempts, outcome>>
  BY DEF Take, TypeOK, Exact
<1>3. InList(b)' = InList(b) /\ InMsg(b)' = InMsg(b)
  BY <1>2 DEF InList, InMsg
<1>4. InSet(b)' \subseteq InSet(b)
  BY <1>1, <1>2 DEF InSet
<1>5. \A c \in InRow(b)' :
        \/ c \in InRow(b) /\ row'[c] = row[c]
        \/ row'[c].retries = attempts[b]
  BY <1>1, <1>2 DEF InRow, InSet, Counted
<1>6. Counted(b)'
  BY <1>2, <1>3, <1>4, <1>5 DEF Counted
<1>7. /\ \A c \in Process : rows'[c] \subseteq rows[c]
      /\ \A f \in Envelope : retry'[f] = "waiting" => retry[f] = "waiting"
  BY <1>1, <1>2
<1>8. Scanned(b)'
  BY <1>2, <1>3, <1>7 DEF Scanned
<1> QED
  BY <1>6, <1>8

LEMMA ExactPushBack ==
  ASSUME TypeOK, Exact, NEW d \in Process, PushBack(d), NEW b \in Body
  PROVE  Counted(b)' /\ Scanned(b)'
<1>1. /\ Counted(b) /\ Scanned(b)
      /\ row[d] \in Envelope
      /\ outbound \in Seq(Envelope)
      /\ row \in [Process -> Envelope \union {NoEnvelope}]
      /\ outbound' = Append(outbound, row[d])
      /\ row' = [row EXCEPT ![d] = NoEnvelope]
      /\ \A c \in Process : rows'[c] \subseteq rows[c]
      /\ UNCHANGED <<retry, msg, delivery, attempts, outcome>>
  BY DEF PushBack, NextRow, TypeOK, Coherent, Exact
<1>2. /\ DOMAIN outbound' = DOMAIN outbound \union {Len(outbound) + 1}
      /\ \A i \in DOMAIN outbound : outbound'[i] = outbound[i]
      /\ outbound'[Len(outbound) + 1] = row[d]
  BY <1>1, PushShape
<1>3. InSet(b)' = InSet(b) /\ InMsg(b)' = InMsg(b)
  BY <1>1 DEF InSet, InMsg
<1>4. row[d].body = b => d \in InRow(b)
  BY <1>1, DelivererAssumption DEF InRow
<1>5. \A i \in InList(b)' : outbound'[i].retries = attempts[b]
  BY <1>1, <1>2, <1>4 DEF InList, Counted
<1>6. \A c \in InRow(b)' : c \in InRow(b) /\ row'[c] = row[c]
  BY <1>1 DEF InRow
<1>7. Counted(b)'
  BY <1>1, <1>3, <1>5, <1>6 DEF Counted
<1>8. Scanned(b)'
  BY <1>1, <1>3 DEF Scanned
<1> QED
  BY <1>7, <1>8

LEMMA ExactEnding ==
  ASSUME TypeOK, Exact, NEW d \in Process, Ending(d), NEW b \in Body
  PROVE  Counted(b)' /\ Scanned(b)'
<1>1. /\ Counted(b) /\ Scanned(b) /\ Alone(b) /\ (outcome[b] # "open" => Nowhere(b))
  BY DEF Exact, OneCopy
<1>2. /\ msg[d] \in Envelope /\ msg' = [msg EXCEPT ![d] = NoEnvelope]
      /\ UNCHANGED <<outbound, retry>>
      /\ \A c \in Process : /\ msg'[c] \in {msg[c], NoEnvelope}
                            /\ row'[c] \in {row[c], NoEnvelope}
                            /\ rows'[c] \subseteq rows[c]
                            /\ c # d => delivery'[c] = delivery[c]
      /\ d \notin InMsg(b)'
  <2>1. /\ msg[d] \in Envelope /\ msg' = [msg EXCEPT ![d] = NoEnvelope]
        /\ UNCHANGED <<outbound, retry>>
        /\ \A c \in Process : row'[c] \in {row[c], NoEnvelope} /\ rows'[c] \subseteq rows[c]
    BY EndingEnds
  <2>2. \A c \in Process : c # d => delivery'[c] = delivery[c]
    <3>1. delivery' \in {[delivery EXCEPT ![d] = "poll"], [delivery EXCEPT ![d] = "dead"]}
      BY EndingEnds
    <3> QED
      BY <3>1 DEF TypeOK
  <2>3. \A c \in Process : msg'[c] \in {msg[c], NoEnvelope}
    BY <2>1 DEF TypeOK
  <2>4. d \notin InMsg(b)'
    BY <2>1 DEF TypeOK, InMsg
  <2> QED
    BY <2>1, <2>2, <2>3, <2>4
<1>3. /\ InList(b)' = InList(b) /\ InSet(b)' = InSet(b)
      /\ InMsg(b)' \subseteq InMsg(b) /\ InRow(b)' \subseteq InRow(b)
      /\ \A c \in InMsg(b)' : msg'[c] = msg[c]
      /\ \A c \in InRow(b)' : row'[c] = row[c]
  BY <1>2, LetsGo
<1>4. CASE msg[d].body = b
  <2>1. d \in InMsg(b)
    BY <1>2, <1>4, DelivererAssumption DEF InMsg
  <2>2. /\ InMsg(b)' = {} /\ InList(b)' = {} /\ InSet(b)' = {} /\ InRow(b)' = {}
        /\ outcome[b] = "open"
    BY <1>1, <1>2, <1>3, <2>1 DEF Alone, AtMostOne, Nowhere, AllEmpty
  <2>3. /\ attempts[b] \in Nat
        /\ attempts'[b] \in {attempts[b], attempts[b] + 1}
        /\ outcome'[b] \notin {"new", "dropped"}
    BY <1>4, <2>2, EndingEnds DEF TypeOK
  <2>4. Counted(b)'
    BY <2>2, <2>3 DEF Counted
  <2>5. ASSUME NEW c \in Process, NEW e \in rows'[c], e.body = b
        PROVE  retry'[e] # "waiting" /\ e.retries <= attempts'[b]
    <3>1. e \in rows[c] /\ e.retries \in Nat
      BY <1>2, <2>5 DEF TypeOK, Envelope
    <3>2. retry[e] # "waiting" /\ e.retries <= attempts[b]
      BY <1>1, <2>5, <3>1 DEF Scanned
    <3> QED
      BY <1>2, <2>3, <3>1, <3>2
  <2>6. Scanned(b)'
    BY <2>2, <2>5 DEF Scanned
  <2> QED
    BY <2>4, <2>6
<1>5. CASE msg[d].body # b
  <2>1. attempts'[b] = attempts[b] /\ outcome'[b] = outcome[b]
    <3>1. attempts' = attempts \/ attempts' = [attempts EXCEPT ![msg[d].body] = @ + 1]
      BY EndingEnds
    <3>2. \/ outcome' = outcome
          \/ \E o \in {"sent", "givenUp"} : outcome' = [outcome EXCEPT ![msg[d].body] = o]
      BY EndingEnds
    <3>3. attempts'[b] = attempts[b]
      BY <1>5, <3>1 DEF TypeOK
    <3>4. outcome'[b] = outcome[b]
      BY <1>5, <3>2 DEF TypeOK
    <3> QED
      BY <3>3, <3>4
  <2>2. \A c \in InMsg(b)' : delivery'[c] = delivery[c]
    BY <1>2 DEF InMsg
  <2> QED
    BY <1>1, <1>2, <1>3, <2>1, <2>2, ExactFrame
<1> QED
  BY <1>4, <1>5

LEMMA ExactStep ==
  ASSUME TypeOK, Exact, QuietStep
  PROVE  Exact'
<1>1. OneCopy'
  BY OneCopyStep DEF Exact
<1> SUFFICES ASSUME NEW b \in Body
             PROVE  Counted(b)' /\ Scanned(b)'
  BY <1>1 DEF Exact
<1>2. Counted(b) /\ Scanned(b) /\ (outcome[b] # "open" => Nowhere(b))
  BY DEF Exact, OneCopy
<1>3. ASSUME NEW d \in Process, Standing(d) \/ Moving(d) \/ Ending(d)
      PROVE  Counted(b)' /\ Scanned(b)'
  BY <1>3, ExactStanding, ExactPoll, ExactAddRetry, ExactTake, ExactPushBack,
     ExactEnding DEF Moving
<1>4. ASSUME NEW d \in Process, Crash(d)
      PROVE  Counted(b)' /\ Scanned(b)'
  <2>1. /\ UNCHANGED <<outbound, retry, attempts, outcome>>
        /\ msg' = [msg EXCEPT ![d] = NoEnvelope]
        /\ delivery' = [delivery EXCEPT ![d] = "dead"]
        /\ \A c \in Process : /\ msg'[c] \in {msg[c], NoEnvelope}
                              /\ row'[c] \in {row[c], NoEnvelope}
                              /\ rows'[c] \subseteq rows[c]
    BY <1>4, CrashLetsGo
  <2>2. \A c \in InMsg(b)' : delivery'[c] = delivery[c]
    BY <2>1 DEF InMsg, TypeOK
  <2> QED
    BY <1>2, <2>1, <2>2, LetsGo, ExactFrame
<1>5. ASSUME NEW e \in Envelope, Ripen(e)
      PROVE  Counted(b)' /\ Scanned(b)'
  <2>1. /\ UNCHANGED <<outbound, msg, row, rows, delivery, attempts, outcome>>
        /\ retry' = [retry EXCEPT ![e] = "due"] /\ retry[e] = "waiting"
        /\ retry \in [Envelope -> {"absent", "waiting", "due"}]
    BY <1>5, RipenStays DEF TypeOK
  <2>2. \A f \in Envelope : /\ retry'[f] = "absent" <=> retry[f] = "absent"
                            /\ retry'[f] = "waiting" => retry[f] = "waiting"
    BY <2>1
  <2> QED
    BY <1>2, <2>1, <2>2, StaysPut, ExactFrame
<1>6. ASSUME NEW c \in Body, SubmitError(c)
      PROVE  Counted(b)' /\ Scanned(b)'
  <2>1. /\ UNCHANGED <<outbound, msg, row, rows, delivery, attempts, retry>>
        /\ outcome[c] = "new" /\ outcome' = [outcome EXCEPT ![c] = "dropped"]
    BY <1>6 DEF SubmitError, perProcess
  <2>2. outcome'[b] \in {"new", "dropped"} => outcome[b] \in {"new", "dropped"}
    BY <2>1 DEF TypeOK
  <2> QED
    BY <1>2, <2>1, <2>2, StaysPut, ExactFrame
<1>7. ASSUME NEW c \in Body, Submit(c)
      PROVE  Counted(b)' /\ Scanned(b)'
  <2>1. PICK e \in Envelope :
          e.body = c /\ e.retries = 0 /\ outbound' = Append(outbound, e)
    BY <1>7, EnvelopeType DEF Submit, Pushed
  <2>2. /\ UNCHANGED <<msg, row, rows, delivery, attempts, retry>>
        /\ outcome[c] = "new" /\ outcome' = [outcome EXCEPT ![c] = "open"]
    BY <1>7 DEF Submit, Opened, perProcess
  <2>3. /\ DOMAIN outbound' = DOMAIN outbound \union {Len(outbound) + 1}
        /\ \A i \in DOMAIN outbound : outbound'[i] = outbound[i]
        /\ outbound'[Len(outbound) + 1] = e
    BY <2>1, PushShape DEF TypeOK
  <2>4. InSet(b)' = InSet(b) /\ InMsg(b)' = InMsg(b) /\ InRow(b)' = InRow(b)
    BY <2>2 DEF InSet, InMsg, InRow
  <2>5. c = b => attempts[b] = 0
    BY <1>2, <2>2 DEF Counted
  <2>6. \A i \in InList(b)' : outbound'[i].retries = attempts[b]
    BY <1>2, <2>1, <2>3, <2>5 DEF InList, Counted
  <2>7. outcome'[b] \in {"new", "dropped"} => outcome[b] \in {"new", "dropped"}
    BY <2>2 DEF TypeOK
  <2>8. Counted(b)'
    BY <1>2, <2>2, <2>4, <2>6, <2>7 DEF Counted
  <2>9. Scanned(b)'
    BY <1>2, <2>2, <2>4 DEF Scanned
  <2> QED
    BY <2>8, <2>9
<1>8. CASE UNCHANGED vars
  BY <1>2, <1>8, StaysPut, ExactFrame DEF vars, perProcess
<1> QED
  BY <1>3, <1>4, <1>5, <1>6, <1>7, <1>8, QuietCases

LEMMA InitExact == Init => Exact
<1>1. ASSUME Init, NEW b \in Body
      PROVE  Counted(b) /\ Scanned(b)
  BY <1>1, EmptySeq DEF Init, Counted, Scanned, InList, InSet, InMsg, InRow
<1> QED
  BY <1>1, InitOneCopy DEF Exact

LEMMA ExactAlways == Spec => [](TypeOK /\ (faults = 0 => Exact))
<1>1. Init => (faults = 0 => Exact)
  BY InitExact
<1>2. TypeOK /\ (faults = 0 => Exact) /\ [Next]_vars => (faults = 0 => Exact)'
  BY ExactStep, QuietSoFar
<1> QED
  BY <1>1, <1>2, TypeCorrect, PTL DEF Spec

\* No more answers are lost than the bound allows.
Bounded == faults <= MaxFaults

LEMMA FaultsBounded == Spec => []Bounded
<1>1. Init => Bounded
  BY DelivererAssumption DEF Init, Bounded
<1>2. TypeOK /\ Bounded /\ [Next]_vars => Bounded'
  <2> USE DEF Bounded
  <2> SUFFICES ASSUME TypeOK, faults <= MaxFaults, [Next]_vars
               PROVE  faults' <= MaxFaults
    OBVIOUS
  <2>1. ASSUME NEW d \in Process, LostAnswer(d)
        PROVE  faults' <= MaxFaults
    BY <2>1, DelivererAssumption DEF LostAnswer, PollError, AddRetryError, TakeError,
       PushBackError, Fault, TypeOK
  <2>2. CASE faults' = faults
    BY <2>2
  <2> QED
    BY <2>1, <2>2 DEF Next, Service, DeliveryStep, RetriesStep, Poll, Deliver, PostFails,
       Uncaught, Unsupported, AddRetry, Scan, Skip, Take, PushBack, Crash, Restart,
       Ripen, Submit, SubmitError, vars
<1> QED
  BY <1>1, <1>2, TypeCorrect, PTL DEF Spec

\* A message that waits for its next attempt is not taken before its time.
LEMMA WaitingStays ==
  ASSUME TypeOK, Exact, QuietStep, NEW e \in Envelope, retry[e] = "waiting"
  PROVE  retry'[e] # "absent"
<1>1. ASSUME NEW d \in Process, Take(d)
      PROVE  retry'[e] # "absent"
  <2>1. PICK f \in rows[d] : retry' = [retry EXCEPT ![f] = "absent"]
    BY <1>1 DEF Take
  <2>2. f \in Envelope /\ f.body \in Body
    BY DEF TypeOK, Envelope
  <2>3. retry[f] # "waiting"
    BY <2>2 DEF Exact, Scanned
  <2> QED
    BY <2>1, <2>3
<1>2. ASSUME NEW d \in Process, AddRetry(d)
      PROVE  retry'[e] # "absent"
  BY <1>2 DEF AddRetry, TypeOK
<1>3. ASSUME NEW f \in Envelope, Ripen(f)
      PROVE  retry'[e] # "absent"
  BY <1>3 DEF Ripen, TypeOK
<1>4. CASE UNCHANGED retry
  BY <1>4
<1> QED
  BY <1>1, <1>2, <1>3, <1>4 DEF QuietStep, DeliveryStep, RetriesStep, Poll, Deliver,
     PostFails, Uncaught, Unsupported, Scan, Skip, PushBack, Crash, Restart, Submit,
     SubmitError, vars

\* As long as Redis answers, no message leaves the retry set before its time,
\* although every process removes rows it read some steps ago: those that were
\* sent again since have more retries, and are other members.
THEOREM NoEarlyRetry ==
  ASSUME MaxFaults = 0
  PROVE  Spec => RetriesWaitTheirTime
<1> DEFINE Waits == \A e \in Envelope : retry[e] = "waiting" => retry'[e] # "absent"
           Quiet == TypeOK /\ (faults = 0 => Exact) /\ Bounded
<1>1. Quiet /\ Quiet' /\ [Next]_vars => [Waits]_vars
  <2>1. Quiet => TypeOK /\ faults = 0 /\ Exact
    BY DEF TypeOK, Bounded
  <2>2. Quiet' => faults' = 0
    BY DEF TypeOK, Bounded
  <2> QED
    BY <2>1, <2>2, WaitingStays, QuietSoFar
<1>2. TypeOK /\ (faults = 0 => Exact) /\ Bounded => Quiet
  OBVIOUS
<1>3. Spec => []Quiet
  <2> HIDE DEF Quiet
  <2> QED
    BY <1>2, ExactAlways, FaultsBounded, PTL
<1> HIDE DEF Quiet
<1> QED
  BY <1>1, <1>3, PTL DEF Spec, RetriesWaitTheirTime

-----------------------------------------------------------------------------
(* The contract *)

\* What has become of one message.
FateOf(b) == IF outcome[b] = "open" /\ Nowhere(b) THEN "lost" ELSE outcome[b]

LEMMA FateShape ==
  /\ Fate = [b \in Body |-> FateOf(b)]
  /\ Fate' = [b \in Body |-> FateOf(b)']
<1>1. Fate = [b \in Body |-> FateOf(b)]
  BY NowhereIsNoPlace DEF Fate, FateOf
<1>2. Fate' = [b \in Body |-> FateOf(b)']
  BY NowhereIsNoPlace DEF Fate, FateOf
<1> QED
  BY <1>1, <1>2

\* What is nowhere and what is not, and what the log says, is all that counts.
LEMMA FateStays ==
  ASSUME NEW b \in Body, Kept(b), outcome'[b] = outcome[b]
  PROVE  FateOf(b)' = FateOf(b)
BY DEF Kept, FateOf

\* A message in hand is open, and its attempts are those its envelope counts.
LEMMA InHandIsOpen ==
  ASSUME TypeOK, Exact, NEW d \in Process, delivery[d] = "send"
  PROVE  /\ msg[d] \in Envelope /\ msg[d].body \in Body
         /\ FateOf(msg[d].body) = "open"
         /\ outcome[msg[d].body] = "open"
         /\ Alone(msg[d].body)
         /\ attempts[msg[d].body] = msg[d].retries
<1>1. msg[d] \in Envelope /\ msg[d].body \in Body
  BY InHand
<1>2. d \in InMsg(msg[d].body)
  BY <1>1, DelivererAssumption DEF InMsg
<1>3. ~Nowhere(msg[d].body)
  BY <1>2 DEF Nowhere, AllEmpty
<1>4. outcome[msg[d].body] = "open" /\ Alone(msg[d].body)
  BY <1>1, <1>3 DEF Exact, OneCopy
<1>5. attempts[msg[d].body] = msg[d].retries
  BY <1>1, <1>2 DEF Exact, Counted
<1> QED
  BY <1>1, <1>3, <1>4, <1>5 DEF FateOf

\* A step that settles the message in hand changes the fate of no other.
LEMMA FateSettled ==
  ASSUME TypeOK, Exact, NEW d \in Process, Ending(d), UNCHANGED row,
         NEW o \in {"sent", "givenUp"},
         outcome' = [outcome EXCEPT ![msg[d].body] = o]
  PROVE  Fate' = [Fate EXCEPT ![msg[d].body] = o]
<1>1. /\ delivery[d] = "send" /\ msg[d] \in Envelope /\ msg[d].body \in Body
      /\ msg' = [msg EXCEPT ![d] = NoEnvelope]
      /\ UNCHANGED <<outbound, retry>>
  BY EndingEnds
<1>2. ASSUME NEW b \in Body, b = msg[d].body
      PROVE  FateOf(b)' = o
  BY <1>2 DEF FateOf, TypeOK
<1>3. ASSUME NEW b \in Body, b # msg[d].body
      PROVE  FateOf(b)' = FateOf(b)
  <2>1. Kept(b)
    BY <1>1, <1>3, LetsGoOf
  <2>2. outcome'[b] = outcome[b]
    BY <1>3 DEF TypeOK
  <2> QED
    BY <2>1, <2>2, FateStays
<1> QED
  BY <1>1, <1>2, <1>3, FateShape

\* A step that only lets go of messages loses those it leaves nowhere.
LEMMA FateLost ==
  ASSUME TypeOK, UNCHANGED <<outbound, retry, outcome>>,
         \A d \in Process : /\ msg'[d] \in {msg[d], NoEnvelope}
                            /\ row'[d] \in {row[d], NoEnvelope},
         NEW gone,
         gone = {c \in Body : outcome[c] = "open" /\ ~Nowhere(c) /\ Nowhere(c)'}
  PROVE  /\ gone \in SUBSET {c \in Body : Fate[c] = "open"}
         /\ Fate' = [c \in Body |-> IF c \in gone THEN "lost" ELSE Fate[c]]
<1>1. ASSUME NEW b \in Body
      PROVE  /\ b \in gone => FateOf(b) = "open"
             /\ FateOf(b)' = IF b \in gone THEN "lost" ELSE FateOf(b)
  <2>1. Nowhere(b) => Nowhere(b)'
    BY LetsGo
  <2> QED
    BY <2>1 DEF FateOf
<1> QED
  BY <1>1, FateShape

LEMMA LoseStep ==
  ASSUME NEW gone, gone \in SUBSET {c \in Body : Fate[c] = "open"},
         Fate' = [c \in Body |-> IF c \in gone THEN "lost" ELSE Fate[c]],
         \/ UNCHANGED attempts
         \/ \E c \in gone : attempts' = [attempts EXCEPT ![c] = @ + 1]
  PROVE  [Contract!Next]_(Contract!dvars)
<1>1. CASE gone = {}
  <2>1. Fate' = Fate
    <3>1. Fate = [c \in Body |-> FateOf(c)]
      BY FateShape
    <3> QED
      BY <1>1, <3>1
  <2> QED
    BY <1>1, <2>1 DEF Contract!dvars
<1>2. ASSUME NEW b \in gone
      PROVE  [Contract!Next]_(Contract!dvars)
  <2>1. b \in Body
    OBVIOUS
  <2>2. Contract!Lose(b)
    BY <2>1 DEF Contract!Lose, Contract!Attempt
  <2> QED
    BY <2>1, <2>2 DEF Contract!Next, Contract!Settle
<1> QED
  BY <1>1, <1>2

LEMMA StandingImplements ==
  ASSUME TypeOK, Exact, NEW d \in Process, Standing(d)
  PROVE  [Contract!Next]_(Contract!dvars)
<1>1. Fate' = Fate
  <2>1. \A b \in Body : FateOf(b)' = FateOf(b)
    BY StandingStays, FateStays
  <2> QED
    BY <2>1, FateShape
<1>2. CASE Scan(d) \/ Skip(d) \/ Restart(d)
  <2>1. UNCHANGED attempts
    BY <1>2 DEF Scan, Skip, Restart
  <2> QED
    BY <1>1, <2>1 DEF Contract!dvars
<1>3. CASE PostFails(d) /\ MayRetry(msg[d])
  <2>1. /\ delivery[d] = "send"
        /\ attempts' = [attempts EXCEPT ![msg[d].body] = @ + 1]
    BY <1>3 DEF PostFails, Sending, Attempt
  <2>2. /\ msg[d].body \in Body /\ Fate[msg[d].body] = "open"
        /\ attempts[msg[d].body] + 1 < MaxRetries + 1
    <3>1. /\ msg[d].body \in Body /\ FateOf(msg[d].body) = "open"
          /\ attempts[msg[d].body] = msg[d].retries
      BY <2>1, InHandIsOpen
    <3>2. msg[d].retries \in Nat /\ msg[d].retries < MaxRetries
      BY <1>3, <2>1, InHand DEF MayRetry
    <3> QED
      BY <3>1, <3>2, FateShape DEF MaxRetries
  <2>3. Contract!Fail(msg[d].body)
    BY <1>1, <2>1, <2>2 DEF Contract!Fail, Contract!Attempt
  <2> QED
    BY <2>2, <2>3 DEF Contract!Next, Contract!Settle
<1> QED
  BY <1>2, <1>3 DEF Standing

LEMMA MovingImplements ==
  ASSUME TypeOK, NEW d \in Process, Moving(d)
  PROVE  [Contract!Next]_(Contract!dvars)
<1>1. \A b \in Body : FateOf(b)' = FateOf(b)
  BY MovingMoves, FateStays
<1>2. Fate' = Fate
  BY <1>1, FateShape
<1> QED
  BY <1>2, MovingMoves DEF Contract!dvars

LEMMA EndingImplements ==
  ASSUME TypeOK, Exact, NEW d \in Process, Ending(d)
  PROVE  [Contract!Next]_(Contract!dvars)
<1>0. PICK b \in Body : b = msg[d].body
  BY EndingEnds
<1>1. /\ delivery[d] = "send" /\ msg[d] \in Envelope
      /\ FateOf(b) = "open" /\ outcome[b] = "open" /\ Alone(b)
      /\ attempts[b] = msg[d].retries
      /\ msg' = [msg EXCEPT ![d] = NoEnvelope]
      /\ UNCHANGED <<outbound, retry>>
  BY <1>0, EndingEnds, InHandIsOpen
<1>2. Fate[b] = "open"
  BY <1>1, FateShape
<1>3. CASE Deliver(d)
  <2>1. /\ UNCHANGED row
        /\ outcome' = [outcome EXCEPT ![b] = "sent"]
        /\ attempts' = [attempts EXCEPT ![b] = @ + 1]
    BY <1>0, <1>3 DEF Deliver, Log, Attempt
  <2>2. Fate' = [Fate EXCEPT ![b] = "sent"]
    BY <1>0, <2>1, FateSettled
  <2>3. Contract!Succeed(b)
    BY <1>2, <2>1, <2>2 DEF Contract!Succeed, Contract!Become, Contract!Attempt
  <2> QED
    BY <1>1, <2>3 DEF Contract!Next, Contract!Settle
<1>4. CASE PostFails(d) /\ ~MayRetry(msg[d])
  <2>1. /\ UNCHANGED row
        /\ outcome' = [outcome EXCEPT ![b] = "givenUp"]
        /\ attempts' = [attempts EXCEPT ![b] = @ + 1]
    BY <1>0, <1>4 DEF PostFails, Log, Attempt
  <2>2. Fate' = [Fate EXCEPT ![b] = "givenUp"]
    BY <1>0, <2>1, FateSettled
  <2>3. ~(attempts[b] + 1 < MaxRetries + 1)
    BY <1>0, <1>1, <1>4, InHand DEF MayRetry, MaxRetries
  <2>4. Contract!Fail(b)
    BY <1>2, <2>1, <2>2, <2>3 DEF Contract!Fail, Contract!Become, Contract!Attempt
  <2> QED
    BY <1>1, <2>4 DEF Contract!Next, Contract!Settle
<1>5. CASE Uncaught(d) \/ Unsupported(d)
  <2> DEFINE gone == {c \in Body : outcome[c] = "open" /\ ~Nowhere(c) /\ Nowhere(c)'}
  <2>1. /\ UNCHANGED outcome
        /\ UNCHANGED attempts \/ attempts' = [attempts EXCEPT ![b] = @ + 1]
    BY <1>0, <1>5 DEF Uncaught, Unsupported, Attempt
  <2>2. \A c \in Process : /\ msg'[c] \in {msg[c], NoEnvelope}
                           /\ row'[c] \in {row[c], NoEnvelope}
    BY <1>1, EndingEnds DEF TypeOK
  <2>3. b \in gone
    <3>1. ~Nowhere(b)
      BY <1>1 DEF FateOf
    <3>2. Nowhere(b)'
      <4>1. d \in InMsg(b)
        BY <1>0, <1>1, DelivererAssumption DEF InMsg
      <4>2. InList(b) = {} /\ InSet(b) = {} /\ InRow(b) = {} /\ InMsg(b) = {d}
        BY <1>1, <4>1 DEF Alone, AtMostOne
      <4>3. /\ InList(b)' = InList(b) /\ InSet(b)' = InSet(b)
            /\ InMsg(b)' \subseteq InMsg(b) /\ InRow(b)' \subseteq InRow(b)
        BY <1>1, <2>2, LetsGo
      <4>4. d \notin InMsg(b)'
        BY <1>1 DEF InMsg, TypeOK
      <4> QED
        BY <4>2, <4>3, <4>4 DEF Nowhere, AllEmpty
    <3> QED
      BY <1>1, <3>1, <3>2
  <2>4. /\ gone \in SUBSET {c \in Body : Fate[c] = "open"}
        /\ Fate' = [c \in Body |-> IF c \in gone THEN "lost" ELSE Fate[c]]
    BY <1>1, <2>1, <2>2, FateLost
  <2> HIDE DEF gone
  <2>5. \/ UNCHANGED attempts
        \/ \E c \in gone : attempts' = [attempts EXCEPT ![c] = @ + 1]
    BY <2>1, <2>3
  <2> QED
    BY <2>4, <2>5, LoseStep
<1> QED
  BY <1>3, <1>4, <1>5 DEF Ending

LEMMA CrashImplements ==
  ASSUME TypeOK, NEW d \in Process, Crash(d)
  PROVE  [Contract!Next]_(Contract!dvars)
<1> DEFINE gone == {c \in Body : outcome[c] = "open" /\ ~Nowhere(c) /\ Nowhere(c)'}
<1>1. UNCHANGED attempts
  BY CrashLetsGo
<1>2. /\ gone \in SUBSET {c \in Body : Fate[c] = "open"}
      /\ Fate' = [c \in Body |-> IF c \in gone THEN "lost" ELSE Fate[c]]
  BY CrashLetsGo, FateLost
<1> HIDE DEF gone
<1> QED
  BY <1>1, <1>2, LoseStep

LEMMA SubmitImplements ==
  ASSUME TypeOK, NEW c \in Body, Submit(c) \/ SubmitError(c)
  PROVE  [Contract!Next]_(Contract!dvars)
<1>1. outcome[c] = "new" /\ UNCHANGED attempts
  BY DEF Submit, SubmitError
<1>2. FateOf(c) = "new"
  BY <1>1 DEF FateOf
<1>3. CASE Submit(c)
  <2>1. outcome' = [outcome EXCEPT ![c] = "open"]
    BY <1>3 DEF Submit, Opened
  <2>2. FateOf(c)' = "open"
    BY <1>3, <2>1, SubmitMoves DEF FateOf, TypeOK
  <2>3. \A b \in Body \ {c} : FateOf(b)' = FateOf(b)
    BY <1>3, <2>1, SubmitMoves, FateStays DEF TypeOK
  <2>4. Fate[c] = "new" /\ Fate' = [Fate EXCEPT ![c] = "open"]
    BY <1>2, <2>2, <2>3, FateShape
  <2>5. Contract!Submit(c)
    BY <1>1, <2>4 DEF Contract!Submit, Contract!Become
  <2> QED
    BY <2>5 DEF Contract!Next
<1>4. CASE SubmitError(c)
  <2>1. /\ outcome' = [outcome EXCEPT ![c] = "dropped"]
        /\ UNCHANGED <<outbound, msg, row, retry>>
    BY <1>4 DEF SubmitError, perProcess
  <2>2. FateOf(c)' = "dropped"
    BY <2>1 DEF FateOf, TypeOK
  <2>3. \A b \in Body \ {c} : FateOf(b)' = FateOf(b)
    BY <2>1, StaysPut, FateStays DEF TypeOK
  <2>4. Fate[c] = "new" /\ Fate' = [Fate EXCEPT ![c] = "dropped"]
    BY <1>2, <2>2, <2>3, FateShape
  <2>5. Contract!Submit(c)
    BY <1>1, <2>4 DEF Contract!Submit, Contract!Become
  <2> QED
    BY <2>5 DEF Contract!Next
<1> QED
  BY <1>3, <1>4

LEMMA StepImplements ==
  ASSUME TypeOK, Exact, QuietStep
  PROVE  [Contract!Next]_(Contract!dvars)
<1>1. ASSUME NEW e \in Envelope, Ripen(e)
      PROVE  [Contract!Next]_(Contract!dvars)
  <2>1. \A b \in Body : FateOf(b)' = FateOf(b)
    BY <1>1, RipenStays, FateStays
  <2>2. Fate' = Fate /\ UNCHANGED attempts
    BY <1>1, <2>1, FateShape, RipenStays
  <2> QED
    BY <2>2 DEF Contract!dvars
<1>2. CASE UNCHANGED vars
  <2>1. \A b \in Body : FateOf(b)' = FateOf(b)
    BY <1>2, StaysPut, FateStays DEF vars, perProcess
  <2>2. Fate' = Fate /\ UNCHANGED attempts
    BY <1>2, <2>1, FateShape DEF vars
  <2> QED
    BY <2>2 DEF Contract!dvars
<1> QED
  BY <1>1, <1>2, QuietCases, StandingImplements, MovingImplements, EndingImplements,
     CrashImplements, SubmitImplements

\* As long as Redis answers, the service keeps its contract: each message is
\* attempted one time after another, six at most, and never again once it is
\* sent, given up or lost with a process, for any number of processes and kills.
THEOREM KeepsContract ==
  ASSUME MaxFaults = 0
  PROVE  Spec => ImplementsContract
<1> DEFINE Quiet == TypeOK /\ (faults = 0 => Exact) /\ Bounded
<1>1. Init => Contract!Init
  <2> SUFFICES ASSUME Init PROVE Contract!Init
    OBVIOUS
  <2>1. outcome = [b \in Body |-> "new"] /\ attempts = [b \in Body |-> 0]
    BY DEF Init
  <2>2. \A b \in Body : FateOf(b) = "new"
    BY <2>1 DEF FateOf
  <2> QED
    BY <2>1, <2>2, FateShape DEF Contract!Init
<1>2. Quiet /\ Quiet' /\ [Next]_vars => [Contract!Next]_(Contract!dvars)
  <2>1. Quiet => TypeOK /\ faults = 0 /\ Exact
    BY DEF TypeOK, Bounded
  <2>2. Quiet' => faults' = 0
    BY DEF TypeOK, Bounded
  <2> QED
    BY <2>1, <2>2, StepImplements, QuietSoFar
<1>3. TypeOK /\ (faults = 0 => Exact) /\ Bounded => Quiet
  OBVIOUS
<1>4. Spec => []Quiet
  <2> HIDE DEF Quiet
  <2> QED
    BY <1>3, ExactAlways, FaultsBounded, PTL
<1> HIDE DEF Quiet
<1> QED
  BY <1>1, <1>2, <1>4, PTL DEF Spec, ImplementsContract, Contract!Spec
=============================================================================
