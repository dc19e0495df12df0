--------------------------- MODULE DelivererProofs ---------------------------
(* Theorems about Deliverer, for every value of its constants. *)
EXTENDS Deliverer, SequenceTheorems, TLAPS

-----------------------------------------------------------------------------
(* Type correctness *)

LEMMA PopType ==
  ASSUME outbound \in Seq(Envelope), outbound # <<>>, outbound' = Tail(outbound)
  PROVE  /\ outbound' \in Seq(Envelope)
         /\ Head(outbound) \in Envelope
         /\ \A i \in DOMAIN outbound' : \E j \in DOMAIN outbound : outbound'[i] = outbound[j]
         /\ \E j \in DOMAIN outbound : Head(outbound) = outbound[j]
<1>1. /\ Len(outbound) \in Nat \ {0}
      /\ DOMAIN outbound = 1 .. Len(outbound)
      /\ DOMAIN outbound' = 1 .. Len(outbound) - 1
      /\ \A i \in 1 .. Len(outbound) - 1 : outbound'[i] = outbound[i + 1]
      /\ Head(outbound) = outbound[1]
  BY HeadTailProperties, EmptySeq, LenProperties
<1>2. \A i \in DOMAIN outbound' : i + 1 \in DOMAIN outbound
  BY <1>1
<1>3. 1 \in DOMAIN outbound
  BY <1>1
<1>4. outbound' \in Seq(Envelope) /\ Head(outbound) \in Envelope
  BY HeadTailProperties
<1> QED
  BY <1>1, <1>2, <1>3, <1>4

LEMMA PushType ==
  ASSUME outbound \in Seq(Envelope), NEW e \in Envelope, outbound' = Append(outbound, e)
  PROVE  /\ outbound' \in Seq(Envelope)
         /\ \A i \in DOMAIN outbound' :
              outbound'[i] = e \/ \E j \in DOMAIN outbound : outbound'[i] = outbound[j]
<1>1. /\ Len(outbound) \in Nat
      /\ DOMAIN outbound = 1 .. Len(outbound)
      /\ DOMAIN outbound' = 1 .. Len(outbound) + 1
      /\ \A i \in 1 .. Len(outbound) : outbound'[i] = outbound[i]
      /\ outbound'[Len(outbound) + 1] = e
  BY AppendProperties, LenProperties
<1>2. \A i \in DOMAIN outbound' : i \in DOMAIN outbound \/ i = Len(outbound) + 1
  BY <1>1
<1>3. outbound' \in Seq(Envelope)
  BY AppendProperties
<1> QED
  BY <1>1, <1>2, <1>3

\* A fresh envelope, and one that may be tried again.
LEMMA EnvelopeType ==
  /\ \A b \in Body : [body |-> b, retries |-> 0] \in Envelope
  /\ \A e \in Envelope : MayRetry(e) =>
       Retried(e) \in Envelope /\ Retried(e).body = e.body
         /\ Retried(e).retries = e.retries + 1
BY DEF Envelope, MayRetry, MaxRetries, Retried

\* What process_delivery holds when it is about to send or to retry.
LEMMA InHand ==
  ASSUME TypeOK, NEW d \in Process, delivery[d] \in {"send", "zadd"}
  PROVE  msg[d] \in Envelope /\ msg[d].body \in Body /\ msg[d].retries \in Nat
BY DEF TypeOK, Coherent, Envelope

\* What the environment of the service may do: put a message on the list, as
\* often as it likes, or nothing that the service sees.
Enqueue(b) ==
  /\ Pushed(b) /\ Opened(b)
  /\ faults' \in Nat /\ crashes' \in Nat
  /\ UNCHANGED <<retry, perProcess, attempts>>

Aside ==
  /\ \/ UNCHANGED outcome
     \/ \E b \in Body : outcome' = [outcome EXCEPT ![b] = "dropped"]
  /\ faults' \in Nat /\ crashes' \in Nat
  /\ UNCHANGED <<outbound, retry, perProcess, attempts>>

AnyStep == Service \/ Aside \/ \E b \in Body : Enqueue(b)

LEMMA NextIsAnyStep ==
  ASSUME TypeOK, [Next]_vars
  PROVE  AnyStep
<1>1. CASE UNCHANGED vars
  BY <1>1 DEF vars, AnyStep, Aside, TypeOK
<1>2. ASSUME NEW b \in Body, Submit(b)
      PROVE  AnyStep
  BY <1>2 DEF Submit, AnyStep, Enqueue, TypeOK
<1>3. ASSUME NEW b \in Body, SubmitError(b)
      PROVE  AnyStep
  BY <1>3 DEF SubmitError, AnyStep, Aside, TypeOK
<1> QED
  BY <1>1, <1>2, <1>3 DEF Next, AnyStep

LEMMA TypeStep ==
  ASSUME TypeOK, AnyStep
  PROVE  TypeOK'
<1> USE DelivererAssumption
<1>1. ASSUME NEW b \in Body, Enqueue(b)
      PROVE  TypeOK'
  <2>1. [body |-> b, retries |-> 0] \in Envelope
    BY EnvelopeType
  <2>2. outbound' \in Seq(Envelope)
    BY <1>1, <2>1, PushType DEF Enqueue, Pushed, TypeOK
  <2>3. outcome' \in [Body -> {"new", "open", "dropped", "sent", "givenUp"}]
    BY <1>1 DEF Enqueue, Opened, TypeOK
  <2>4. faults' \in Nat /\ crashes' \in Nat /\ UNCHANGED <<retry, perProcess, attempts>>
    BY <1>1 DEF Enqueue
  <2> QED
    BY <2>2, <2>3, <2>4 DEF TypeOK, Coherent, MayRetry, perProcess
<1>15. CASE Aside
  <2>1. outcome' \in [Body -> {"new", "open", "dropped", "sent", "givenUp"}]
    BY <1>15 DEF Aside, TypeOK
  <2> QED
    BY <1>15, <2>1 DEF Aside, TypeOK, Coherent, perProcess
<1>2. ASSUME NEW d \in Process, Poll(d)
      PROVE  TypeOK'
  <2>1. outbound' \in Seq(Envelope) /\ Head(outbound) \in Envelope
    BY <1>2, PopType DEF Poll, TypeOK, Coherent
  <2> QED
    BY <1>2, <2>1 DEF Poll, TypeOK, Coherent
<1>3. ASSUME NEW d \in Process, PollError(d)
      PROVE  TypeOK'
  <2>1. outbound' \in Seq(Envelope)
    BY <1>3, PopType DEF PollError, TypeOK, Coherent
  <2> QED
    BY <1>3, <2>1 DEF PollError, Fault, TypeOK, Coherent, perProcess
<1>4. ASSUME NEW d \in Process, Deliver(d)
      PROVE  TypeOK'
  <2>1. msg[d].body \in Body
    BY <1>4, InHand DEF Deliver, Sending
  <2> QED
    <3>1. /\ UNCHANGED <<outbound, retry, retries, rows, row, faults, crashes>>
          /\ delivery' = [delivery EXCEPT ![d] = "poll"]
          /\ msg' = [msg EXCEPT ![d] = NoEnvelope]
          /\ retries[d] # "dead"
      BY <1>4 DEF Deliver, Sending, Finish, TypeOK, Coherent
    <3>2. /\ attempts' \in [Body -> Nat]
          /\ outcome' \in [Body -> {"new", "open", "dropped", "sent", "givenUp"}]
      BY <1>4, <2>1 DEF Deliver, Attempt, Log, TypeOK
    <3> QED
      BY <3>1, <3>2 DEF TypeOK, Coherent, MayRetry
<1>5. ASSUME NEW d \in Process, PostFails(d)
      PROVE  TypeOK'
  <2>1. msg[d] \in Envelope /\ msg[d].body \in Body
    BY <1>5, InHand DEF PostFails, Sending
  <2>2. attempts' \in [Body -> Nat]
    BY <1>5, <2>1 DEF PostFails, Attempt, TypeOK, Coherent
  <2>3. CASE MayRetry(msg[d])
    <3>1. /\ UNCHANGED <<outbound, retry, msg, retries, rows, row, outcome, faults, crashes>>
          /\ delivery' = [delivery EXCEPT ![d] = "zadd"]
      BY <1>5, <2>3 DEF PostFails
    <3> QED
      BY <2>1, <2>2, <2>3, <3>1 DEF TypeOK, Coherent, MayRetry
  <2>4. CASE ~MayRetry(msg[d])
    <3>1. /\ UNCHANGED <<outbound, retry, retries, rows, row, faults, crashes>>
          /\ delivery' = [delivery EXCEPT ![d] = "poll"]
          /\ msg' = [msg EXCEPT ![d] = NoEnvelope]
          /\ outcome' = [outcome EXCEPT ![msg[d].body] = "givenUp"]
      BY <1>5, <2>4 DEF PostFails, Log, Finish
    <3> QED
      BY <2>1, <2>2, <3>1 DEF TypeOK, Coherent, MayRetry
  <2> QED
    BY <2>3, <2>4
<1>6. ASSUME NEW d \in Process, Uncaught(d)
      PROVE  TypeOK'
  <2>1. msg[d].body \in Body
    BY <1>6, InHand DEF Uncaught, Sending
  <2>2. attempts' \in [Body -> Nat]
    BY <1>6, <2>1 DEF Uncaught, Attempt, TypeOK
  <2>3. /\ UNCHANGED <<outbound, retry, outcome, faults, crashes>>
        /\ delivery' = [delivery EXCEPT ![d] = "dead"]
        /\ msg' = [msg EXCEPT ![d] = NoEnvelope]
    BY <1>6 DEF Uncaught, StopDelivery
  <2>4. CASE Status
    BY <1>6, <2>2, <2>3, <2>4 DEF Uncaught, EndMain, TypeOK, Coherent, MayRetry
  <2>5. CASE ~Status
    <3>1. /\ retries' = [retries EXCEPT ![d] = "dead"]
          /\ rows' = [rows EXCEPT ![d] = {}]
          /\ row' = [row EXCEPT ![d] = NoEnvelope]
      BY <1>6, <2>5 DEF Uncaught, EndMain, StopRetries
    <3> QED
      BY <2>2, <2>3, <3>1 DEF TypeOK, Coherent, MayRetry
  <2> QED
    BY <2>4, <2>5
<1>7. ASSUME NEW d \in Process, Unsupported(d)
      PROVE  TypeOK'
  <2>1. /\ UNCHANGED <<outbound, retry, retries, rows, row, attempts, outcome, faults, crashes>>
        /\ delivery' = [delivery EXCEPT ![d] = "poll"]
        /\ msg' = [msg EXCEPT ![d] = NoEnvelope]
        /\ retries[d] # "dead"
    BY <1>7 DEF Unsupported, Sending, Finish, TypeOK, Coherent
  <2> QED
    BY <2>1 DEF TypeOK, Coherent, MayRetry
<1>8. ASSUME NEW d \in Process, AddRetry(d) \/ AddRetryError(d)
      PROVE  TypeOK'
  <2>1. retry' \in [Envelope -> {"absent", "waiting", "due"}]
    BY <1>8 DEF AddRetry, AddRetryError, TypeOK, Coherent
  <2>2. CASE AddRetry(d)
    BY <2>1, <2>2 DEF AddRetry, Finish, TypeOK, Coherent, MayRetry
  <2>3. CASE AddRetryError(d)
    BY <2>1, <2>3 DEF AddRetryError, Fault, TypeOK, Coherent, MayRetry, perProcess
  <2> QED
    BY <1>8, <2>2, <2>3
<1>9. ASSUME NEW d \in Process, Scan(d)
      PROVE  TypeOK'
  BY <1>9 DEF Scan, Due, TypeOK, Coherent
<1>10. ASSUME NEW d \in Process, Skip(d)
      PROVE  TypeOK'
  BY <1>10 DEF Skip, NextRow, TypeOK, Coherent
<1>11. ASSUME NEW d \in Process, Take(d) \/ TakeError(d)
      PROVE  TypeOK'
  <2>1. CASE Take(d)
    BY <2>1 DEF Take, TypeOK, Coherent
  <2>2. CASE TakeError(d)
    BY <2>2 DEF TakeError, Fault, TypeOK, Coherent, perProcess
  <2> QED
    BY <1>11, <2>1, <2>2
<1>12. ASSUME NEW d \in Process, PushBack(d) \/ PushBackError(d)
      PROVE  TypeOK'
  <2>1. row[d] \in Envelope
    BY <1>12 DEF PushBack, PushBackError, TypeOK, Coherent
  <2>2. outbound' \in Seq(Envelope)
    BY <1>12, <2>1, PushType DEF PushBack, PushBackError, TypeOK, Coherent
  <2>3. CASE PushBack(d)
    BY <2>2, <2>3 DEF PushBack, NextRow, TypeOK, Coherent
  <2>4. CASE PushBackError(d)
    BY <2>2, <2>4 DEF PushBackError, Fault, TypeOK, Coherent, perProcess
  <2> QED
    BY <1>12, <2>3, <2>4
<1>13. ASSUME NEW d \in Process, Crash(d) \/ Restart(d)
      PROVE  TypeOK'
  <2>1. CASE Crash(d)
    BY <2>1 DEF Crash, StopDelivery, StopRetries, TypeOK, Coherent, MayRetry
  <2>2. CASE Restart(d)
    <3>1. msg[d] \notin Envelope /\ row[d] \notin Envelope
      BY <2>2 DEF Restart, Up, TypeOK, Coherent
    <3> QED
      BY <2>2, <3>1 DEF Restart, TypeOK, Coherent, MayRetry
  <2> QED
    BY <1>13, <2>1, <2>2
<1>14. ASSUME NEW e \in Envelope, Ripen(e)
      PROVE  TypeOK'
  BY <1>14 DEF Ripen, TypeOK, Coherent, perProcess
<1> QED
  BY <1>1, <1>2, <1>3, <1>4, <1>5, <1>6, <1>7, <1>8, <1>9, <1>10, <1>11, <1>12,
     <1>13, <1>14, <1>15 DEF AnyStep, Service, DeliveryStep, RetriesStep,
     LostAnswer
\* The types hold of every behaviour: in particular a coroutine that sends,
\* retries or pushes holds an envelope, and none beyond the fifth retry exists.
THEOREM TypeCorrect == Spec => []TypeOK
<1>1. Init => TypeOK
  BY DelivererAssumption DEF Init, TypeOK, Coherent
<1>2. TypeOK /\ [Next]_vars => TypeOK'
  BY TypeStep, NextIsAnyStep
<1> QED
  BY <1>1, <1>2, PTL DEF Spec

-----------------------------------------------------------------------------
(* No message is given up early *)

\* An envelope's retries never exceed the attempts made for its message.
Backed(e, made) == e.retries <= made[e.body]

ListBacked == \A i \in DOMAIN outbound : Backed(outbound[i], attempts)
SetBacked == \A e \in Envelope : retry[e] # "absent" => Backed(e, attempts)
RowsBacked == \A d \in Process : row[d] \in Envelope => Backed(row[d], attempts)

\* The attempt that failed comes on top of those the envelope counts.
HandsBacked ==
  \A d \in Process :
    /\ delivery[d] = "send" => Backed(msg[d], attempts)
    /\ delivery[d] = "zadd" => msg[d].retries + 1 <= attempts[msg[d].body]

\* The inductive invariant behind GivenUpAfterAllAttempts.
AttemptsBack ==
  ListBacked /\ SetBacked /\ RowsBacked /\ HandsBacked /\ GivenUpAfterAllAttempts

\* Attempts are only ever added: what is backed stays backed.
LEMMA AttemptsGrow ==
  ASSUME TypeOK, AnyStep
  PROVE  /\ \A b \in Body : attempts[b] \in Nat /\ attempts'[b] \in Nat
         /\ \A b \in Body : attempts[b] <= attempts'[b]
         /\ \A e \in Envelope : Backed(e, attempts) => Backed(e, attempts')
<1>1. \A b \in Body : attempts[b] \in Nat /\ attempts'[b] \in Nat
  BY TypeStep DEF TypeOK
<1>2. ASSUME NEW d \in Process, Deliver(d) \/ PostFails(d) \/ Uncaught(d)
      PROVE  \A b \in Body : attempts[b] <= attempts'[b]
  <2>1. attempts' = [attempts EXCEPT ![msg[d].body] = @ + 1]
    BY <1>2 DEF Deliver, PostFails, Uncaught, Attempt
  <2> QED
    BY <1>1, <2>1 DEF TypeOK
<1>3. CASE UNCHANGED attempts
  BY <1>1, <1>3
<1>4. \A b \in Body : attempts[b] <= attempts'[b]
  BY <1>2, <1>3 DEF AnyStep, Service, DeliveryStep, RetriesStep,
     LostAnswer, Enqueue, Aside, Poll, PollError, Unsupported, AddRetry, AddRetryError, Scan,
     Skip, Take, TakeError, PushBack, PushBackError, Crash, Restart, Ripen
<1>5. ASSUME NEW e \in Envelope, Backed(e, attempts)
      PROVE  Backed(e, attempts')
  <2>1. e.body \in Body /\ e.retries \in Nat
    BY DEF Envelope
  <2> QED
    BY <1>1, <1>4, <1>5, <2>1 DEF Backed
<1> QED
  BY <1>1, <1>4, <1>5

LEMMA ListBackedStep ==
  ASSUME TypeOK, AnyStep, AttemptsBack
  PROVE  ListBacked'
<1>1. \A i \in DOMAIN outbound : outbound[i] \in Envelope /\ Backed(outbound[i], attempts')
  BY AttemptsGrow, ElementOfSeq, LenProperties DEF AttemptsBack, ListBacked, TypeOK
<1>2. CASE UNCHANGED outbound
  BY <1>1, <1>2 DEF ListBacked, Backed
<1>3. ASSUME outbound # <<>>, outbound' = Tail(outbound)
      PROVE  ListBacked'
  BY <1>1, <1>3, PopType DEF ListBacked, TypeOK
<1>4. ASSUME NEW e \in Envelope, Backed(e, attempts'), outbound' = Append(outbound, e)
      PROVE  ListBacked'
  BY <1>1, <1>4, PushType DEF ListBacked, TypeOK
<1>5. ASSUME NEW b \in Body, Enqueue(b)
      PROVE  ListBacked'
  <2>1. /\ [body |-> b, retries |-> 0] \in Envelope
        /\ Backed([body |-> b, retries |-> 0], attempts')
    BY AttemptsGrow, EnvelopeType DEF Backed
  <2> QED
    BY <1>2, <1>4, <1>5, <2>1 DEF Enqueue, Pushed
<1>6. ASSUME NEW d \in Process, PushBack(d) \/ PushBackError(d)
      PROVE  ListBacked'
  <2>1. row[d] \in Envelope /\ Backed(row[d], attempts)
    BY <1>6 DEF PushBack, PushBackError, TypeOK, Coherent, AttemptsBack, RowsBacked
  <2>2. Backed(row[d], attempts')
    BY <2>1, AttemptsGrow
  <2>3. PICK e \in Envelope : e = row[d]
    BY <2>1
  <2>4. Backed(e, attempts')
    BY <2>2, <2>3
  <2>5. outbound' = Append(outbound, e)
    BY <1>6, <2>3 DEF PushBack, PushBackError
  <2> QED
    BY <1>4, <2>4, <2>5
<1> QED
  BY <1>2, <1>3, <1>5, <1>6 DEF AnyStep, Service, DeliveryStep, RetriesStep,
     LostAnswer, Aside, Poll, PollError, Deliver, PostFails, Uncaught, Unsupported, AddRetry,
     AddRetryError, Scan, Skip, Take, TakeError, Crash, Restart, Ripen

LEMMA SetBackedStep ==
  ASSUME TypeOK, AnyStep, AttemptsBack
  PROVE  SetBacked'
<1>1. \A e \in Envelope : retry[e] # "absent" => Backed(e, attempts')
  BY AttemptsGrow DEF AttemptsBack, SetBacked
<1>2. ASSUME NEW d \in Process, AddRetry(d) \/ AddRetryError(d)
      PROVE  SetBacked'
  <2>1. /\ msg[d] \in Envelope /\ MayRetry(msg[d])
        /\ msg[d].body \in Body /\ msg[d].retries + 1 <= attempts[msg[d].body]
    BY <1>2, InHand DEF AddRetry, AddRetryError, TypeOK, Coherent, MayRetry, AttemptsBack, HandsBacked
  <2>2. PICK e \in Envelope : e = Retried(msg[d])
    BY <2>1, EnvelopeType
  <2>3. e.body = msg[d].body /\ e.retries = msg[d].retries + 1
    BY <2>1, <2>2, EnvelopeType
  <2>4. Backed(e, attempts')
    BY <2>1, <2>3, AttemptsGrow DEF Backed
  <2>5. retry' = [retry EXCEPT ![e] = "waiting"]
    BY <1>2, <2>2 DEF AddRetry, AddRetryError
  <2> QED
    BY <1>1, <2>4, <2>5 DEF SetBacked, TypeOK, Backed
<1>3. ASSUME \A e \in Envelope : retry'[e] # "absent" => retry[e] # "absent"
      PROVE  SetBacked'
  BY <1>1, <1>3 DEF SetBacked, Backed
<1>4. ASSUME NEW d \in Process, Take(d) \/ TakeError(d)
      PROVE  SetBacked'
  <2>1. PICK e \in rows[d] : retry' = [retry EXCEPT ![e] = "absent"]
    BY <1>4 DEF Take, TakeError
  <2> QED
    BY <1>3, <2>1 DEF TypeOK
<1>5. ASSUME NEW e \in Envelope, Ripen(e)
      PROVE  SetBacked'
  BY <1>3, <1>5 DEF Ripen, TypeOK
<1>6. CASE UNCHANGED retry
  BY <1>3, <1>6
<1> QED
  BY <1>2, <1>4, <1>5, <1>6 DEF AnyStep, Service, DeliveryStep, RetriesStep,
     LostAnswer, Enqueue, Aside, Poll, PollError, Deliver, PostFails, Uncaught,
     Unsupported, Scan, Skip, PushBack, PushBackError, Crash, Restart

LEMMA RowsBackedStep ==
  ASSUME TypeOK, AnyStep, AttemptsBack
  PROVE  RowsBacked'
<1>1. \A d \in Process : row[d] \in Envelope => Backed(row[d], attempts')
  BY AttemptsGrow DEF AttemptsBack, RowsBacked
<1>2. ASSUME \A d \in Process : row'[d] \in Envelope => row'[d] = row[d]
      PROVE  RowsBacked'
  BY <1>1, <1>2 DEF RowsBacked
<1>3. CASE UNCHANGED row
  BY <1>2, <1>3
<1>4. ASSUME NEW d \in Process, row' = [row EXCEPT ![d] = NoEnvelope]
      PROVE  RowsBacked'
  BY <1>2, <1>4, DelivererAssumption DEF TypeOK
<1>5. ASSUME NEW d \in Process, Take(d)
      PROVE  RowsBacked'
  <2>1. PICK e \in rows[d] : retry[e] # "absent" /\ row' = [row EXCEPT ![d] = e]
    BY <1>5 DEF Take, Removed
  <2>2. Backed(e, attempts')
    BY <2>1, AttemptsGrow DEF AttemptsBack, SetBacked, TypeOK
  <2> QED
    BY <1>1, <2>1, <2>2 DEF RowsBacked, TypeOK
<1>6. ASSUME NEW d \in Process, Uncaught(d)
      PROVE  RowsBacked'
  BY <1>3, <1>4, <1>6 DEF Uncaught, EndMain, StopRetries
<1> QED
  BY <1>3, <1>4, <1>5, <1>6 DEF AnyStep, Service, DeliveryStep, RetriesStep,
     LostAnswer, Enqueue, Aside, Poll, PollError, Deliver, PostFails, Unsupported,
     AddRetry, AddRetryError, Scan, Skip, TakeError, PushBack, PushBackError,
     Crash, StopRetries, Restart, Ripen, perProcess

LEMMA HandsBackedStep ==
  ASSUME TypeOK, AnyStep, AttemptsBack
  PROVE  HandsBacked'
<1>1. \A d \in Process :
        /\ delivery[d] = "send" => Backed(msg[d], attempts')
        /\ delivery[d] = "zadd" => msg[d].retries + 1 <= attempts'[msg[d].body]
  <2>1. ASSUME NEW d \in Process, delivery[d] = "send"
        PROVE  Backed(msg[d], attempts')
    BY <2>1, InHand, AttemptsGrow DEF AttemptsBack, HandsBacked
  <2>2. ASSUME NEW d \in Process, delivery[d] = "zadd"
        PROVE  msg[d].retries + 1 <= attempts'[msg[d].body]
    <3>1. msg[d].retries + 1 <= attempts[msg[d].body]
      BY <2>2 DEF AttemptsBack, HandsBacked
    <3> QED
      BY <2>2, <3>1, InHand, AttemptsGrow
  <2> QED
    BY <2>1, <2>2
<1>2. ASSUME \A d \in Process : \/ delivery'[d] \notin {"send", "zadd"}
                                \/ delivery'[d] = delivery[d] /\ msg'[d] = msg[d]
      PROVE  HandsBacked'
  BY <1>1, <1>2 DEF HandsBacked
<1>3. CASE UNCHANGED <<delivery, msg>>
  BY <1>2, <1>3
<1>4. ASSUME NEW d \in Process, NEW s \in {"poll", "dead"},
             delivery' = [delivery EXCEPT ![d] = s],
             msg' = [msg EXCEPT ![d] = NoEnvelope]
      PROVE  HandsBacked'
  BY <1>2, <1>4 DEF TypeOK
<1>5. ASSUME NEW d \in Process, Poll(d)
      PROVE  HandsBacked'
  <2>1. PICK i \in DOMAIN outbound : Head(outbound) = outbound[i]
    BY <1>5, PopType DEF Poll, TypeOK
  <2>2. Head(outbound) \in Envelope /\ Backed(Head(outbound), attempts)
    BY <1>5, <2>1, PopType DEF Poll, TypeOK, AttemptsBack, ListBacked
  <2>3. Backed(Head(outbound), attempts')
    BY <2>2, AttemptsGrow
  <2> QED
    BY <1>1, <1>5, <2>3 DEF Poll, HandsBacked, TypeOK
<1>6. ASSUME NEW d \in Process, PostFails(d)
      PROVE  HandsBacked'
  <2>1. /\ delivery[d] = "send"
        /\ attempts' = [attempts EXCEPT ![msg[d].body] = @ + 1]
    BY <1>6 DEF PostFails, Sending, Attempt
  <2>2. CASE MayRetry(msg[d])
    <3>1. msg' = msg /\ delivery' = [delivery EXCEPT ![d] = "zadd"]
      BY <1>6, <2>2 DEF PostFails
    <3>2. msg[d].retries <= attempts[msg[d].body]
      BY <2>1 DEF AttemptsBack, HandsBacked, Backed
    <3>3. msg[d].retries + 1 <= attempts'[msg[d].body]
      BY <2>1, <3>2, InHand DEF TypeOK
    <3> QED
      BY <1>1, <3>1, <3>3 DEF HandsBacked, TypeOK
  <2>3. CASE ~MayRetry(msg[d])
    BY <1>4, <1>6, <2>3 DEF PostFails, Finish
  <2> QED
    BY <2>2, <2>3
<1>7. ASSUME NEW d \in Process, Restart(d)
      PROVE  HandsBacked'
  BY <1>2, <1>7 DEF Restart, TypeOK
<1>8. ASSUME NEW d \in Process,
             Deliver(d) \/ Uncaught(d) \/ Unsupported(d) \/ AddRetry(d) \/ Crash(d)
      PROVE  HandsBacked'
  BY <1>4, <1>8 DEF Deliver, Uncaught, Unsupported, AddRetry, Crash, Finish,
     StopDelivery
<1> QED
  BY <1>3, <1>5, <1>6, <1>7, <1>8 DEF AnyStep, Service, DeliveryStep, RetriesStep,
     LostAnswer, Enqueue, Aside, PollError, AddRetryError, Scan, Skip, Take, TakeError,
     PushBack, PushBackError, Ripen, perProcess

LEMMA GivenUpStep ==
  ASSUME TypeOK, AnyStep, AttemptsBack
  PROVE  GivenUpAfterAllAttempts'
<1>1. \A b \in Body : outcome[b] = "givenUp" => attempts'[b] >= MaxRetries + 1
  BY AttemptsGrow DEF AttemptsBack, GivenUpAfterAllAttempts, MaxRetries
<1>2. ASSUME \A b \in Body : outcome'[b] = "givenUp" => outcome[b] = "givenUp"
      PROVE  GivenUpAfterAllAttempts'
  BY <1>1, <1>2 DEF GivenUpAfterAllAttempts
<1>3. CASE UNCHANGED outcome
  BY <1>2, <1>3
<1>4. ASSUME NEW b \in Body, Enqueue(b)
      PROVE  GivenUpAfterAllAttempts'
  BY <1>2, <1>4 DEF Enqueue, Opened, TypeOK
<1>7. CASE Aside
  BY <1>2, <1>7 DEF Aside, TypeOK
<1>5. ASSUME NEW d \in Process, Deliver(d)
      PROVE  GivenUpAfterAllAttempts'
  BY <1>2, <1>5 DEF Deliver, Log, TypeOK
<1>6. ASSUME NEW d \in Process, PostFails(d)
      PROVE  GivenUpAfterAllAttempts'
  <2>1. CASE MayRetry(msg[d])
    BY <1>3, <1>6, <2>1 DEF PostFails
  <2>2. CASE ~MayRetry(msg[d])
    <3>1. /\ delivery[d] = "send"
          /\ attempts' = [attempts EXCEPT ![msg[d].body] = @ + 1]
          /\ outcome' = [outcome EXCEPT ![msg[d].body] = "givenUp"]
      BY <1>6, <2>2 DEF PostFails, Sending, Attempt, Log
    <3>2. msg[d].retries <= attempts[msg[d].body]
      BY <3>1 DEF AttemptsBack, HandsBacked, Backed
    <3>3. msg[d].retries >= MaxRetries
      BY <2>2, <3>1, InHand DEF MayRetry, MaxRetries
    <3>4. attempts'[msg[d].body] >= MaxRetries + 1
      BY <3>1, <3>2, <3>3, InHand DEF TypeOK, MaxRetries
    <3> QED
      BY <1>1, <3>1, <3>4 DEF GivenUpAfterAllAttempts, TypeOK
  <2> QED
    BY <2>1, <2>2
<1> QED
  BY <1>3, <1>4, <1>5, <1>6, <1>7 DEF AnyStep, Service, DeliveryStep, RetriesStep,
     LostAnswer, Poll, PollError, Uncaught, Unsupported, AddRetry, AddRetryError, Scan,
     Skip, Take, TakeError, PushBack, PushBackError, Crash, Restart, Ripen

LEMMA AttemptsBackStep ==
  ASSUME TypeOK, AnyStep, AttemptsBack
  PROVE  AttemptsBack'
BY ListBackedStep, SetBackedStep, RowsBackedStep, HandsBackedStep, GivenUpStep
   DEF AttemptsBack

\* A message is given up only after six attempts were made for it, whatever
\* Redis answers are lost, whatever processes are killed and however many copies
\* of its envelope that leaves.
THEOREM GivenUpLate == Spec => []GivenUpAfterAllAttempts
<1>1. Init => AttemptsBack
  BY DelivererAssumption, EmptySeq DEF Init, AttemptsBack, ListBacked, SetBacked,
     RowsBacked, HandsBacked, GivenUpAfterAllAttempts
<1>2. TypeOK /\ AttemptsBack /\ [Next]_vars => AttemptsBack'
  BY AttemptsBackStep, NextIsAnyStep
<1>3. AttemptsBack => GivenUpAfterAllAttempts
  BY DEF AttemptsBack
<1> QED
  BY <1>1, <1>2, <1>3, TypeCorrect, PTL DEF Spec
=============================================================================
