--------------------------- MODULE WebhooksProofs ---------------------------
(* Theorems about Webhooks, for every value of its constants.  The lemmas of *)
(* DelivererProofs hold of the composition because the agent does nothing to *)
(* the service that AnyStep does not allow.                                  *)
EXTENDS Webhooks, DeliveryProofs, FiniteSetTheorems

-----------------------------------------------------------------------------
(* Type correctness *)

LEMMA UrlsLength ==
  /\ Len(Urls) \in Nat
  /\ Endpoint = 1 .. Len(Urls)
  /\ Urls # <<>> => 0 < Len(Urls)
BY WebhooksAssumption, EmptySeq, LenProperties DEF Endpoint

\* What the actions of the agent leave to the service.
LEMMA MessageType ==
  ASSUME EventsTypeOK, NEW c \in Call, call[c] = "webhooks"
  PROVE  Message(c) \in Body /\ Turn(c) \in 1 .. Len(Urls)
<1>1. queued[c] \in Nat /\ queued[c] < Len(Urls)
  BY UrlsLength DEF EventsTypeOK, AgentOK, CallOK
<1>2. c[1] \in Event
  BY DEF Call
<1> QED
  BY <1>1, <1>2, UrlsLength, WebhooksAssumption DEF Message, Turn, Webhook

\* The service sees a message pushed, or nothing but a fault.
LEMMA EventsNextIsAnyStep ==
  ASSUME EventsTypeOK, [EventsNext]_allVars
  PROVE  AnyStep
<1> USE DEF AnyStep
<1>1. faults \in Nat /\ faults + 1 \in Nat /\ crashes \in Nat
  BY DEF EventsTypeOK, TypeOK
<1>2. ASSUME UNCHANGED vars
      PROVE  AnyStep
  BY <1>1, <1>2 DEF vars, Aside
<1>3. ASSUME UNCHANGED <<outbound, retry, perProcess, attempts, outcome, crashes>>,
             Fault
      PROVE  AnyStep
  BY <1>1, <1>3 DEF Aside, Fault
<1>4. CASE Startup
  BY <1>2, <1>4 DEF Startup
<1>5. ASSUME NEW c \in Call,
             HandleEvent(c) \/ Setup(c) \/ Reject(c) \/ PushEvent(c)
      PROVE  AnyStep
  BY <1>2, <1>5 DEF HandleEvent, Setup, Reject, PushEvent
<1>6. ASSUME NEW c \in Call, SetupError(c) \/ PushEventError(c)
      PROVE  AnyStep
  BY <1>3, <1>6 DEF SetupError, PushEventError
<1>7. ASSUME NEW c \in Call, PushWebhook(c) \/ PushWebhookError(c)
      PROVE  AnyStep
  <2>1. Message(c) \in Body
    BY <1>7, MessageType DEF PushWebhook, PushWebhookError
  <2>2. CASE PushWebhook(c)
    BY <1>1, <2>1, <2>2 DEF PushWebhook, Enqueue
  <2>3. CASE PushWebhookError(c)
    <3>1. faults' \in Nat /\ crashes' \in Nat /\ UNCHANGED <<retry, perProcess, attempts>>
      BY <1>1, <2>3 DEF PushWebhookError, Fault
    <3>2. CASE Pushed(Message(c)) /\ Opened(Message(c))
      BY <2>1, <3>1, <3>2 DEF Enqueue
    <3>3. CASE UNCHANGED <<outbound, outcome>>
      BY <3>1, <3>3 DEF Aside
    <3> QED
      BY <2>3, <3>2, <3>3 DEF PushWebhookError
  <2> QED
    BY <1>7, <2>2, <2>3
<1>8. CASE AgentStops
  BY <1>2, <1>8 DEF AgentStops
<1>9. CASE UNCHANGED allVars
  BY <1>2, <1>9 DEF allVars
<1> QED
  BY <1>4, <1>5, <1>6, <1>7, <1>8, <1>9 DEF EventsNext, Handling, HandlingFails

\* The calls for an event come one after the other.
LEMMA CallType ==
  ASSUME NEW c \in Call
  PROVE  /\ c = <<c[1], c[2]>> /\ c[1] \in Event /\ c[2] \in 1 .. 9
         /\ <<c[1], 1>> \in Call
         /\ \A n \in 1 .. c[2] - 1 : <<c[1], n>> \in Call
<1>1. c \in Event \X (1 .. 9) /\ c[2] <= Matches[c[1]]
  BY DEF Call
<1>2. Matches[c[1]] \in 1 .. 9
  BY <1>1, WebhooksAssumption
<1>3. ASSUME NEW n \in 1 .. 9, n <= c[2]
      PROVE  <<c[1], n>> \in Call
  <2>1. <<c[1], n>> \in Event \X (1 .. 9) /\ n <= Matches[c[1]]
    BY <1>1, <1>2, <1>3
  <2> QED
    BY <2>1 DEF Call
<1>4. 1 \in 1 .. 9 /\ 1 <= c[2] /\ \A n \in 1 .. c[2] - 1 : n \in 1 .. 9 /\ n <= c[2]
  BY <1>1
<1> QED
  BY <1>1, <1>3, <1>4

LEMMA AgentStep ==
  ASSUME EventsTypeOK, [EventsNext]_allVars
  PROVE  AgentOK'
<1>1. AgentOK /\ \A c \in Call : CallOK(c)
  BY DEF EventsTypeOK, AgentOK
<1>2. /\ Len(Urls) \in Nat
      /\ Urls # <<>> => 0 < Len(Urls)
  BY UrlsLength
<1>3. CASE UNCHANGED eventVars
  BY <1>1, <1>3 DEF AgentOK, CallOK, Ended, eventVars
<1>4. CASE Startup
  BY <1>1, <1>4 DEF AgentOK, CallOK, Ended, Startup
<1>5. ASSUME NEW c \in Call, NEW p \in {"setup", "event", "webhooks", "done", "failed"},
             Goto(c, p), ~Ended(c),
             \A n \in 1 .. c[2] - 1 : Ended(<<c[1], n>>)
      PROVE  /\ call' \in [Call -> {"idle", "setup", "event", "webhooks", "done", "failed"}]
             /\ \A b \in Call : call'[b] # "idle" =>
                  \A n \in 1 .. b[2] - 1 : Ended(<<b[1], n>>)'
  <2>1. call' = [call EXCEPT ![c] = p]
    BY <1>5 DEF Goto
  <2>2. \A b \in Call : Ended(b) => Ended(b)'
    BY <1>1, <1>5, <2>1 DEF AgentOK, Ended
  <2>3. ASSUME NEW b \in Call, call'[b] # "idle", NEW n \in 1 .. b[2] - 1
        PROVE  Ended(<<b[1], n>>)'
    <3>1. <<b[1], n>> \in Call
      BY <2>3, CallType
    <3>2. Ended(<<b[1], n>>)
      BY <1>1, <1>5, <2>1, <2>3 DEF AgentOK, CallOK
    <3> QED
      BY <2>2, <3>1, <3>2
  <2> QED
    BY <1>1, <2>1, <2>3 DEF AgentOK
<1>6. ASSUME NEW c \in Call, HandleEvent(c)
      PROVE  AgentOK'
  <2>1. \A n \in 1 .. c[2] - 1 : Ended(<<c[1], n>>)
    BY <1>6 DEF HandleEvent
  <2>2. ~Ended(c) /\ queued[c] = 0
    BY <1>1, <1>6 DEF HandleEvent, Ended, CallOK
  <2> QED
    BY <1>1, <1>5, <1>6, <2>1, <2>2 DEF HandleEvent, AgentOK, CallOK, Goto
<1>7. ASSUME NEW c \in Call, call[c] \in {"setup", "event", "webhooks"}
      PROVE  ~Ended(c) /\ \A n \in 1 .. c[2] - 1 : Ended(<<c[1], n>>)
  BY <1>1, <1>7 DEF CallOK, Ended
<1>8. ASSUME NEW c \in Call, Setup(c) \/ PushEvent(c)
      PROVE  AgentOK'
  <2>1. CASE Setup(c)
    BY <1>1, <1>5, <1>7, <2>1 DEF Setup, AgentOK, CallOK, Goto
  <2>2. CASE PushEvent(c)
    BY <1>1, <1>2, <1>5, <1>7, <2>2 DEF PushEvent, AgentOK, CallOK, Goto
  <2> QED
    BY <1>8, <2>1, <2>2
<1>9. ASSUME NEW c \in Call, PushWebhook(c)
      PROVE  AgentOK'
  <2> DEFINE p == IF Last(Turn(c)) THEN "done" ELSE "webhooks"
  <2>1. Turn(c) \in 1 .. Len(Urls)
    BY <1>9, MessageType DEF PushWebhook
  <2>2. /\ call[c] = "webhooks" /\ Goto(c, p)
        /\ queued' = [queued EXCEPT ![c] = Turn(c)]
        /\ UNCHANGED <<agent, deliver, recorded>>
    BY <1>9 DEF PushWebhook
  <2>3. p \in {"done", "webhooks"} /\ (p = "webhooks" => Turn(c) < Len(Urls))
    BY <1>2, <2>1 DEF Last
  <2> HIDE DEF p
  <2>4. /\ call' \in [Call -> {"idle", "setup", "event", "webhooks", "done", "failed"}]
        /\ \A b \in Call : call'[b] # "idle" =>
             \A n \in 1 .. b[2] - 1 : Ended(<<b[1], n>>)'
    BY <1>5, <1>7, <2>2, <2>3
  <2>5. queued' \in [Call -> 0 .. Len(Urls)]
    BY <1>1, <1>2, <2>1, <2>2 DEF AgentOK
  <2>6. ASSUME NEW b \in Call
        PROVE  CallOK(b)'
    <3>1. CASE b = c
      BY <1>1, <1>2, <2>1, <2>2, <2>3, <2>4, <3>1 DEF AgentOK, CallOK, Goto
    <3>2. CASE b # c
      BY <1>1, <2>2, <2>4, <3>2 DEF AgentOK, CallOK, Goto
    <3> QED
      BY <3>1, <3>2
  <2> QED
    BY <1>1, <2>2, <2>4, <2>5, <2>6 DEF AgentOK
<1>10. ASSUME NEW c \in Call, Reject(c) \/ HandlingFails(c)
      PROVE  AgentOK'
  <2>1. /\ Goto(c, "failed")
        /\ call[c] \in {"setup", "event", "webhooks"}
        /\ UNCHANGED <<agent, deliver, queued>>
        /\ recorded' \subseteq Call
    BY <1>1, <1>10 DEF HandlingFails, SetupError, Reject, PushEventError,
       PushWebhookError, OnError, AgentOK
  <2> QED
    BY <1>1, <1>5, <1>7, <2>1 DEF AgentOK, CallOK, Goto
<1>11. CASE AgentStops
  <2>1. /\ agent' = "starting"
        /\ call' = [c \in Call |->
                      IF call[c] = "done" \/ call[<<c[1], 1>>] = "idle"
                      THEN call[c] ELSE "failed"]
        /\ UNCHANGED <<deliver, queued, recorded>>
    BY <1>11 DEF AgentStops
  <2>2. ASSUME NEW c \in Call, call[<<c[1], 1>>] = "idle"
        PROVE  call[c] = "idle"
    <3>1. CASE c[2] = 1
      BY <2>2, <3>1, CallType
    <3>2. CASE c[2] # 1
      <4>1. 1 \in 1 .. c[2] - 1
        <5>1. c[2] \in 1 .. 9
          BY CallType
        <5> QED
          BY <3>2, <5>1
      <4> QED
        BY <1>1, <2>2, <4>1 DEF CallOK, Ended
    <3> QED
      BY <3>1, <3>2
  <2>3. \A c \in Call : call'[c] = IF call[c] = "done" THEN "done"
                                   ELSE IF call[<<c[1], 1>>] = "idle" THEN "idle"
                                   ELSE "failed"
    BY <2>1, <2>2
  <2>4. ASSUME NEW c \in Call, call'[c] # "idle", NEW n \in 1 .. c[2] - 1
        PROVE  Ended(<<c[1], n>>)'
    <3>1. <<c[1], n>> \in Call
      BY <2>4, CallType
    <3>2. CASE call[c] = "done"
      <4>1. Ended(<<c[1], n>>)
        BY <1>1, <3>2 DEF CallOK
      <4>2. call[<<c[1], n>>] = "done" \/ call[<<c[1], 1>>] # "idle"
        BY <2>2, <3>1, <4>1 DEF Ended
      <4> QED
        BY <2>3, <3>1, <4>1, <4>2 DEF Ended
    <3>3. CASE call[<<c[1], 1>>] # "idle"
      BY <2>3, <3>1, <3>3 DEF Ended
    <3> QED
      BY <2>3, <2>4, <3>2, <3>3
  <2>5. call' \in [Call -> {"idle", "setup", "event", "webhooks", "done", "failed"}]
    BY <1>1, <2>1 DEF AgentOK
  <2>6. \A c \in Call : call'[c] \in {"idle", "done", "failed"} /\ queued'[c] = queued[c]
    BY <2>1, <2>3
  <2>7. \A c \in Call : call'[c] = "idle" => queued[c] = 0
    BY <1>1, <2>2, <2>3 DEF CallOK
  <2> QED
    BY <1>1, <2>1, <2>4, <2>5, <2>6, <2>7 DEF AgentOK, CallOK
<1> QED
  BY <1>3, <1>4, <1>6, <1>8, <1>9, <1>10, <1>11
  DEF EventsNext, Handling, HandlingFails, allVars, eventVars

\* The types hold of every behaviour of agent and service together, and a call
\* that pushes has a connection whatever restarts of the agent came between.
THEOREM EventsTypeCorrect == EventsSpec => []EventsTypeOK
<1>1. EventsInit => EventsTypeOK
  <2>1. Init => TypeOK
    BY DelivererAssumption DEF Init, TypeOK, Coherent
  <2>2. ASSUME EventsInit
        PROVE  AgentOK
    <3>1. deliver \in BOOLEAN
      BY <2>2 DEF EventsInit, DeliverWebhook
    <3> QED
      BY <2>2, <3>1, UrlsLength DEF EventsInit, AgentOK, CallOK
  <2> QED
    BY <2>1, <2>2 DEF EventsInit, EventsTypeOK
<1>2. EventsTypeOK /\ [EventsNext]_allVars => EventsTypeOK'
  BY EventsNextIsAnyStep, TypeStep, AgentStep DEF EventsTypeOK
<1> QED
  BY <1>1, <1>2, PTL DEF EventsSpec

-----------------------------------------------------------------------------
(* What the service may lift from the Deliverer module *)

\* A webhook is given up only after six attempts, however many calls queued it
\* and whatever was lost or killed.
THEOREM WebhooksGivenUpLate == EventsSpec => []GivenUpAfterAllAttempts
<1>1. EventsInit => AttemptsBack
  BY DelivererAssumption, EmptySeq DEF EventsInit, Init, AttemptsBack, ListBacked,
     SetBacked, RowsBacked, HandsBacked, GivenUpAfterAllAttempts
<1>2. EventsTypeOK /\ AttemptsBack /\ [EventsNext]_allVars => AttemptsBack'
  BY AttemptsBackStep, EventsNextIsAnyStep DEF EventsTypeOK
<1>3. AttemptsBack => GivenUpAfterAllAttempts
  BY DEF AttemptsBack
<1> QED
  BY <1>1, <1>2, <1>3, EventsTypeCorrect, PTL DEF EventsSpec

-----------------------------------------------------------------------------
(* Announced events *)

\* The message was queued at some time.
Announced(b) == outcome[b] # "new"

\* The service handles no message that was not queued.
ListAnnounced == \A i \in DOMAIN outbound : Announced(outbound[i].body)
SetAnnounced == \A e \in Envelope : retry[e] # "absent" => Announced(e.body)
RowsAnnounced == \A d \in Process : row[d] \in Envelope => Announced(row[d].body)
HandsAnnounced == \A d \in Process : msg[d] \in Envelope => Announced(msg[d].body)
AttemptsAnnounced == \A b \in Body : attempts[b] > 0 => Announced(b)

ServiceAnnounced ==
  ListAnnounced /\ SetAnnounced /\ RowsAnnounced /\ HandsAnnounced /\ AttemptsAnnounced

\* What the calls have queued, and what that says of the events.
CallsAnnounce ==
  /\ \A c \in Call :
       /\ call[c] = "webhooks" \/ queued[c] > 0 => c \in recorded
       /\ \A i \in 1 .. queued[c] : Announced(<<c[1], i>>)
       /\ deliver /\ call[c] = "done" => queued[c] = Len(Urls)
  /\ \A w \in Webhook :
       Announced(w) => \E c \in recorded : c[1] = w[1] /\ queued[c] >= w[2] - 1

\* The inductive invariant behind AnnouncedIsRecorded and EndpointsInOrder.
Announcements == ServiceAnnounced /\ CallsAnnounce

\* No message is forgotten.
LEMMA AnnouncedStays ==
  ASSUME TypeOK, AnyStep, NEW b \in Body, Announced(b)
  PROVE  Announced(b)'
<1>1. CASE UNCHANGED outcome
  BY <1>1 DEF Announced
<1>2. ASSUME NEW c \in Body, NEW o \in {"open", "dropped", "sent", "givenUp"},
             outcome' = [outcome EXCEPT ![c] = o]
      PROVE  Announced(b)'
  BY <1>2 DEF Announced, TypeOK
<1>3. ASSUME NEW c \in Body, Opened(c)
      PROVE  Announced(b)'
  BY <1>1, <1>2, <1>3 DEF Opened, Announced, TypeOK
<1>4. ASSUME NEW d \in Process, Deliver(d)
      PROVE  Announced(b)'
  BY <1>2, <1>4, InHand DEF Deliver, Sending, Log
<1>5. ASSUME NEW d \in Process, PostFails(d)
      PROVE  Announced(b)'
  BY <1>1, <1>2, <1>5, InHand DEF PostFails, Sending, Log
<1> QED
  BY <1>1, <1>2, <1>3, <1>4, <1>5 DEF AnyStep, Service, DeliveryStep, RetriesStep,
     LostAnswer, Enqueue, Aside, Poll, PollError, Uncaught, Unsupported, AddRetry,
     AddRetryError, Scan, Skip, Take, TakeError, PushBack, PushBackError, Crash,
     Restart, Ripen

\* The service announces nothing of its own.
LEMMA ServiceAnnouncesNothing ==
  ASSUME TypeOK, ServiceAnnounced, Service, NEW b \in Body, Announced(b)'
  PROVE  Announced(b)
<1>1. CASE UNCHANGED outcome
  BY <1>1 DEF Announced
<1>2. ASSUME NEW d \in Process, delivery[d] = "send", NEW o,
             outcome' = [outcome EXCEPT ![msg[d].body] = o]
      PROVE  Announced(b)
  <2>1. Announced(msg[d].body)
    BY <1>2, InHand DEF ServiceAnnounced, HandsAnnounced
  <2> QED
    BY <1>2, <2>1 DEF Announced, TypeOK
<1>3. ASSUME NEW d \in Process, Deliver(d) \/ PostFails(d)
      PROVE  Announced(b)
  BY <1>1, <1>2, <1>3 DEF Deliver, PostFails, Sending, Log
<1> QED
  BY <1>1, <1>3 DEF Service, DeliveryStep, RetriesStep, LostAnswer, Poll, PollError,
     Uncaught, Unsupported, AddRetry, AddRetryError, Scan, Skip, Take, TakeError,
     PushBack, PushBackError, Crash, Restart, Ripen

LEMMA ListAnnouncedStep ==
  ASSUME TypeOK, AnyStep, ServiceAnnounced
  PROVE  ListAnnounced'
<1>1. \A i \in DOMAIN outbound : outcome'[outbound[i].body] # "new"
  <2>1. \A i \in DOMAIN outbound : outbound[i] \in Envelope
    BY ElementOfSeq, LenProperties DEF TypeOK
  <2>2. ASSUME NEW e \in Envelope, Announced(e.body)
        PROVE  outcome'[e.body] # "new"
    BY <2>2, AnnouncedStays DEF Announced, Envelope
  <2> QED
    BY <2>1, <2>2 DEF ServiceAnnounced, ListAnnounced
<1>2. CASE UNCHANGED outbound
  BY <1>1, <1>2 DEF ListAnnounced, Announced
<1>3. ASSUME outbound # <<>>, outbound' = Tail(outbound)
      PROVE  ListAnnounced'
  BY <1>1, <1>3, PopType DEF ListAnnounced, Announced, TypeOK
<1>4. ASSUME NEW e \in Envelope, Announced(e.body)', outbound' = Append(outbound, e)
      PROVE  ListAnnounced'
  BY <1>1, <1>4, PushType DEF ListAnnounced, Announced, TypeOK
<1>5. ASSUME NEW b \in Body, Enqueue(b)
      PROVE  ListAnnounced'
  <2>1. [body |-> b, retries |-> 0] \in Envelope
    BY EnvelopeType
  <2>2. Announced(b)'
    BY <1>5 DEF Enqueue, Opened, Announced, TypeOK
  <2> QED
    BY <1>4, <1>5, <2>1, <2>2 DEF Enqueue, Pushed, Announced
<1>6. ASSUME NEW d \in Process, PushBack(d) \/ PushBackError(d)
      PROVE  ListAnnounced'
  <2>1. PICK e \in Envelope : e = row[d] /\ e.body \in Body
    BY <1>6 DEF PushBack, PushBackError, TypeOK, Coherent, Envelope
  <2>2. Announced(e.body)'
    BY <2>1, AnnouncedStays DEF ServiceAnnounced, RowsAnnounced
  <2>3. outbound' = Append(outbound, e)
    BY <1>6, <2>1 DEF PushBack, PushBackError
  <2> QED
    BY <1>4, <2>2, <2>3
<1> QED
  BY <1>2, <1>3, <1>5, <1>6 DEF AnyStep, Service, DeliveryStep, RetriesStep,
     LostAnswer, Aside, Poll, PollError, Deliver, PostFails, Uncaught, Unsupported,
     AddRetry, AddRetryError, Scan, Skip, Take, TakeError, Crash, Restart, Ripen

LEMMA SetAnnouncedStep ==
  ASSUME TypeOK, AnyStep, ServiceAnnounced
  PROVE  SetAnnounced'
<1>1. ASSUME NEW e \in Envelope, Announced(e.body)
      PROVE  Announced(e.body)'
  BY <1>1, AnnouncedStays DEF Envelope
<1>2. ASSUME NEW d \in Process, AddRetry(d) \/ AddRetryError(d)
      PROVE  SetAnnounced'
  <2>1. msg[d] \in Envelope /\ MayRetry(msg[d])
    BY <1>2, InHand DEF AddRetry, AddRetryError, TypeOK, Coherent, MayRetry
  <2>2. PICK e \in Envelope : e = Retried(msg[d])
    BY <2>1, EnvelopeType
  <2>3. Announced(e.body)
    BY <2>1, <2>2, EnvelopeType DEF ServiceAnnounced, HandsAnnounced
  <2>4. retry' = [retry EXCEPT ![e] = "waiting"]
    BY <1>2, <2>2 DEF AddRetry, AddRetryError
  <2> QED
    BY <1>1, <2>3, <2>4 DEF ServiceAnnounced, SetAnnounced, TypeOK
<1>3. ASSUME \A e \in Envelope : retry'[e] # "absent" => retry[e] # "absent"
      PROVE  SetAnnounced'
  BY <1>1, <1>3 DEF ServiceAnnounced, SetAnnounced
<1>4. ASSUME NEW d \in Process, Take(d) \/ TakeError(d)
      PROVE  SetAnnounced'
  <2>1. PICK e \in rows[d] : retry' = [retry EXCEPT ![e] = "absent"]
    BY <1>4 DEF Take, TakeError
  <2> QED
    BY <1>3, <2>1 DEF TypeOK
<1>5. ASSUME NEW e \in Envelope, Ripen(e)
      PROVE  SetAnnounced'
  BY <1>3, <1>5 DEF Ripen, TypeOK
<1>6. CASE UNCHANGED retry
  BY <1>3, <1>6
<1> QED
  BY <1>2, <1>4, <1>5, <1>6 DEF AnyStep, Service, DeliveryStep, RetriesStep,
     LostAnswer, Enqueue, Aside, Poll, PollError, Deliver, PostFails, Uncaught,
     Unsupported, Scan, Skip, PushBack, PushBackError, Crash, Restart

LEMMA RowsAnnouncedStep ==
  ASSUME TypeOK, AnyStep, ServiceAnnounced
  PROVE  RowsAnnounced'
<1>1. ASSUME NEW e \in Envelope, Announced(e.body)
      PROVE  Announced(e.body)'
  BY <1>1, AnnouncedStays DEF Envelope
<1>2. ASSUME \A d \in Process : row'[d] \in Envelope => row'[d] = row[d]
      PROVE  RowsAnnounced'
  <2>1. ASSUME NEW d \in Process, row'[d] \in Envelope
        PROVE  outcome'[row'[d].body] # "new"
    <3>1. PICK e \in Envelope : e = row[d] /\ e = row'[d]
      BY <1>2, <2>1
    <3> QED
      BY <1>1, <3>1 DEF ServiceAnnounced, RowsAnnounced, Announced
  <2> QED
    BY <2>1 DEF RowsAnnounced, Announced
<1>3. CASE UNCHANGED row
  BY <1>2, <1>3
<1>4. ASSUME NEW d \in Process, row' = [row EXCEPT ![d] = NoEnvelope]
      PROVE  RowsAnnounced'
  BY <1>2, <1>4, DelivererAssumption DEF TypeOK
<1>5. ASSUME NEW d \in Process, Take(d)
      PROVE  RowsAnnounced'
  <2>1. PICK e \in rows[d] : retry[e] # "absent" /\ row' = [row EXCEPT ![d] = e]
    BY <1>5 DEF Take, Removed
  <2>2. e \in Envelope /\ outcome' = outcome /\ Announced(e.body)
    BY <1>5, <2>1 DEF Take, TypeOK, ServiceAnnounced, SetAnnounced
  <2> QED
    BY <2>1, <2>2 DEF ServiceAnnounced, RowsAnnounced, Announced, TypeOK
<1>6. ASSUME NEW d \in Process, Uncaught(d)
      PROVE  RowsAnnounced'
  BY <1>3, <1>4, <1>6 DEF Uncaught, EndMain, StopRetries
<1> QED
  BY <1>3, <1>4, <1>5, <1>6 DEF AnyStep, Service, DeliveryStep, RetriesStep,
     LostAnswer, Enqueue, Aside, Poll, PollError, Deliver, PostFails, Unsupported,
     AddRetry, AddRetryError, Scan, Skip, TakeError, PushBack, PushBackError,
     Crash, StopRetries, Restart, Ripen, perProcess

LEMMA HandsAnnouncedStep ==
  ASSUME TypeOK, AnyStep, ServiceAnnounced
  PROVE  HandsAnnounced'
<1>1. ASSUME NEW e \in Envelope, Announced(e.body)
      PROVE  Announced(e.body)'
  BY <1>1, AnnouncedStays DEF Envelope
<1>2. ASSUME \A d \in Process : msg'[d] \in Envelope => msg'[d] = msg[d]
      PROVE  HandsAnnounced'
  <2>1. ASSUME NEW d \in Process, msg'[d] \in Envelope
        PROVE  outcome'[msg'[d].body] # "new"
    <3>1. PICK e \in Envelope : e = msg[d] /\ e = msg'[d]
      BY <1>2, <2>1
    <3> QED
      BY <1>1, <3>1 DEF ServiceAnnounced, HandsAnnounced, Announced
  <2> QED
    BY <2>1 DEF HandsAnnounced, Announced
<1>3. CASE UNCHANGED msg
  BY <1>2, <1>3
<1>4. ASSUME NEW d \in Process, msg' = [msg EXCEPT ![d] = NoEnvelope]
      PROVE  HandsAnnounced'
  BY <1>2, <1>4, DelivererAssumption DEF TypeOK
<1>5. ASSUME NEW d \in Process, Poll(d)
      PROVE  HandsAnnounced'
  <2>1. PICK i \in DOMAIN outbound : Head(outbound) = outbound[i]
    BY <1>5, PopType DEF Poll, TypeOK
  <2>2. Announced(Head(outbound).body)
    BY <2>1 DEF ServiceAnnounced, ListAnnounced
  <2> QED
    BY <1>5, <2>2 DEF Poll, ServiceAnnounced, HandsAnnounced, Announced, TypeOK
<1>6. ASSUME NEW d \in Process, PostFails(d)
      PROVE  HandsAnnounced'
  BY <1>3, <1>4, <1>6 DEF PostFails, Finish
<1> QED
  BY <1>3, <1>4, <1>5, <1>6 DEF AnyStep, Service, DeliveryStep, RetriesStep,
     LostAnswer, Enqueue, Aside, PollError, Deliver, Uncaught, Unsupported,
     AddRetry, AddRetryError, Scan, Skip, Take, TakeError, PushBack, PushBackError,
     Crash, Restart, Ripen, Finish, StopDelivery, perProcess

LEMMA AttemptsAnnouncedStep ==
  ASSUME TypeOK, AnyStep, ServiceAnnounced
  PROVE  AttemptsAnnounced'
<1>1. CASE UNCHANGED attempts
  BY <1>1, AnnouncedStays DEF ServiceAnnounced, AttemptsAnnounced, Announced
<1>2. ASSUME NEW d \in Process, Deliver(d) \/ PostFails(d) \/ Uncaught(d)
      PROVE  AttemptsAnnounced'
  <2>1. delivery[d] = "send" /\ attempts' = [attempts EXCEPT ![msg[d].body] = @ + 1]
    BY <1>2 DEF Deliver, PostFails, Uncaught, Sending, Attempt
  <2>2. PICK c \in Body : c = msg[d].body /\ Announced(c)
    BY <2>1, InHand DEF ServiceAnnounced, HandsAnnounced
  <2>3. attempts' = [attempts EXCEPT ![c] = @ + 1]
    BY <2>1, <2>2
  <2>4. ASSUME NEW b \in Body, attempts'[b] > 0
        PROVE  Announced(b)'
    <3>1. CASE b = c
      BY <2>2, <3>1, AnnouncedStays
    <3>2. CASE b # c
      <4>1. attempts[b] > 0
        BY <2>3, <2>4, <3>2 DEF TypeOK
      <4> QED
        BY <4>1, AnnouncedStays DEF ServiceAnnounced, AttemptsAnnounced
    <3> QED
      BY <3>1, <3>2
  <2> QED
    BY <2>4 DEF AttemptsAnnounced, Announced
<1> QED
  BY <1>1, <1>2 DEF AnyStep, Service, DeliveryStep, RetriesStep,
     LostAnswer, Enqueue, Aside, Poll, PollError, Unsupported, AddRetry,
     AddRetryError, Scan, Skip, Take, TakeError, PushBack, PushBackError, Crash,
     Restart, Ripen

LEMMA ServiceAnnouncedStep ==
  ASSUME TypeOK, AnyStep, ServiceAnnounced
  PROVE  ServiceAnnounced'
BY ListAnnouncedStep, SetAnnouncedStep, RowsAnnouncedStep, HandsAnnouncedStep,
   AttemptsAnnouncedStep DEF ServiceAnnounced

\* What a push does to the messages.
LEMMA MessagePushed ==
  ASSUME EventsTypeOK, NEW m \in Webhook, Opened(m) \/ UNCHANGED outcome
  PROVE  /\ \A w \in Webhook : Announced(w) => Announced(w)'
         /\ \A w \in Webhook : Announced(w)' => Announced(w) \/ w = m
         /\ Opened(m) => Announced(m)'
<1>1. outcome \in [Webhook -> {"new", "open", "dropped", "sent", "givenUp"}]
  BY WebhooksAssumption DEF EventsTypeOK, TypeOK
<1> QED
  BY <1>1 DEF Opened, Announced

LEMMA CallsAnnounceStep ==
  ASSUME EventsTypeOK, ServiceAnnounced, CallsAnnounce, [EventsNext]_allVars
  PROVE  CallsAnnounce'
<1>1. /\ AgentOK /\ AgentOK'
      /\ Len(Urls) \in Nat /\ (Urls = <<>> => Len(Urls) = 0)
  BY AgentStep, UrlsLength, EmptySeq DEF EventsTypeOK
<1>2. \A c \in Call : \A i \in 1 .. queued[c] : <<c[1], i>> \in Webhook
  <2>1. ASSUME NEW c \in Call, NEW i \in 1 .. queued[c]
        PROVE  <<c[1], i>> \in Webhook
    <3>1. c[1] \in Event /\ queued[c] \in 0 .. Len(Urls)
      BY <1>1, CallType DEF AgentOK
    <3>2. i \in Endpoint
      BY <1>1, <3>1, UrlsLength
    <3> QED
      BY <3>1, <3>2 DEF Webhook
  <2> QED
    BY <2>1
<1>3. ASSUME \A w \in Webhook : Announced(w)' <=> Announced(w),
             UNCHANGED <<deliver, queued>>, recorded \subseteq recorded',
             \A c \in Call : call'[c] = "webhooks" => c \in recorded',
             \A c \in Call : deliver /\ call'[c] = "done" => queued[c] = Len(Urls)
      PROVE  CallsAnnounce'
  <2>1. ASSUME NEW c \in Call, NEW i \in 1 .. queued'[c]
        PROVE  Announced(<<c[1], i>>)'
    BY <1>2, <1>3, <2>1 DEF CallsAnnounce
  <2>2. ASSUME NEW w \in Webhook, Announced(w)'
        PROVE  \E c \in recorded' : c[1] = w[1] /\ queued'[c] >= w[2] - 1
    BY <1>3, <2>2 DEF CallsAnnounce
  <2> QED
    BY <1>3, <2>1, <2>2 DEF CallsAnnounce, Announced
<1>4. ASSUME UNCHANGED <<outcome, deliver, queued, recorded>>,
             \A c \in Call : call'[c] \in {"webhooks", "done"} => call'[c] = call[c]
      PROVE  CallsAnnounce'
  BY <1>3, <1>4 DEF CallsAnnounce, Announced
<1>5. CASE Service /\ UNCHANGED eventVars
  <2>1. \A w \in Webhook : Announced(w)' <=> Announced(w)
    <3>1. AnyStep /\ TypeOK /\ Body = Webhook
      BY <1>5, WebhooksAssumption DEF AnyStep, EventsTypeOK
    <3> QED
      BY <1>5, <3>1, AnnouncedStays, ServiceAnnouncesNothing
  <2> QED
    BY <1>3, <1>5, <2>1 DEF CallsAnnounce, eventVars
<1>6. CASE UNCHANGED allVars
  BY <1>4, <1>6 DEF allVars, vars, eventVars
<1>7. CASE Startup
  BY <1>4, <1>7 DEF Startup, vars
<1>8. CASE AgentStops
  BY <1>4, <1>8 DEF AgentStops, vars
<1>9. ASSUME NEW c \in Call,
             HandleEvent(c) \/ Setup(c) \/ SetupError(c) \/ Reject(c)
      PROVE  CallsAnnounce'
  <2>1. /\ UNCHANGED <<outcome, deliver, queued, recorded>>
        /\ \E p \in {"setup", "event", "failed"} : call' = [call EXCEPT ![c] = p]
    BY <1>9 DEF HandleEvent, Setup, SetupError, Reject, Goto, vars
  <2> QED
    BY <1>1, <1>4, <2>1 DEF AgentOK
<1>10. ASSUME NEW c \in Call, PushEvent(c) \/ PushEventError(c)
       PROVE  CallsAnnounce'
  <2>1. /\ UNCHANGED <<outcome, deliver, queued>> /\ recorded \subseteq recorded'
        /\ call[c] = "event"
        /\ \/ call' = [call EXCEPT ![c] = "failed"]
           \/ call' = [call EXCEPT ![c] = "webhooks"] /\ c \in recorded'
           \/ call' = [call EXCEPT ![c] = "done"] /\ ~(deliver /\ Urls # <<>>)
    BY <1>10 DEF PushEvent, PushEventError, Goto, OnError, vars
  <2>2. queued[c] = 0
    BY <1>1, <2>1 DEF AgentOK, CallOK
  <2>3. \A b \in Call : call'[b] = "webhooks" => b \in recorded'
    BY <1>1, <2>1 DEF AgentOK, CallsAnnounce
  <2>4. \A b \in Call : deliver /\ call'[b] = "done" => queued[b] = Len(Urls)
    BY <1>1, <2>1, <2>2 DEF AgentOK, CallsAnnounce
  <2> QED
    BY <1>3, <2>1, <2>3, <2>4 DEF Announced
<1>11. ASSUME NEW c \in Call, PushWebhook(c)
       PROVE  CallsAnnounce'
  <2>1. /\ call[c] = "webhooks" /\ Opened(Message(c))
        /\ queued' = [queued EXCEPT ![c] = Turn(c)]
        /\ call' = [call EXCEPT ![c] = IF Last(Turn(c)) THEN "done" ELSE "webhooks"]
        /\ UNCHANGED <<deliver, recorded>>
    BY <1>11 DEF PushWebhook, Goto
  <2>2. c \in recorded /\ queued[c] \in Nat /\ Turn(c) = queued[c] + 1
    BY <1>1, <2>1 DEF CallsAnnounce, AgentOK, Turn
  <2> PICK m \in Webhook : m = <<c[1], Turn(c)>> /\ m = Message(c)
    BY <2>1, MessageType, WebhooksAssumption DEF Message
  <2>3. ASSUME NEW b \in Call, NEW i \in 1 .. queued'[b]
        PROVE  Announced(<<b[1], i>>)'
    <3>1. CASE i \in 1 .. queued[b]
      BY <1>2, <2>1, <3>1, MessagePushed DEF CallsAnnounce
    <3>2. CASE i \notin 1 .. queued[b]
      <4>1. <<b[1], i>> = m
        BY <1>1, <2>1, <2>2, <2>3, <3>2 DEF AgentOK
      <4> QED
        BY <2>1, <4>1, MessagePushed
    <3> QED
      BY <3>1, <3>2
  <2>4. ASSUME NEW w \in Webhook, Announced(w)'
        PROVE  \E b \in recorded' : b[1] = w[1] /\ queued'[b] >= w[2] - 1
    <3>1. CASE w = m
      BY <1>1, <2>1, <2>2, <3>1 DEF AgentOK
    <3>2. CASE Announced(w)
      <4>1. PICK b \in recorded : b[1] = w[1] /\ queued[b] >= w[2] - 1
        BY <3>2 DEF CallsAnnounce
      <4>2. b \in Call /\ queued[b] \in Nat /\ queued'[b] \in Nat /\ queued'[b] >= queued[b]
        BY <1>1, <2>1, <2>2 DEF AgentOK
      <4>3. w[2] \in Int
        BY <1>1, UrlsLength DEF Webhook
      <4> QED
        BY <2>1, <4>1, <4>2, <4>3
    <3> QED
      BY <2>1, <2>4, <3>1, <3>2, MessagePushed
  <2>5. ASSUME NEW b \in Call
        PROVE  /\ call'[b] = "webhooks" \/ queued'[b] > 0 => b \in recorded'
               /\ deliver' /\ call'[b] = "done" => queued'[b] = Len(Urls)
    BY <1>1, <2>1, <2>2 DEF CallsAnnounce, AgentOK, Last
  <2> QED
    BY <2>3, <2>4, <2>5 DEF CallsAnnounce, Announced
<1>12. ASSUME NEW c \in Call, PushWebhookError(c)
       PROVE  CallsAnnounce'
  <2>1. /\ call[c] = "webhooks"
        /\ Opened(Message(c)) \/ UNCHANGED outcome
        /\ call' = [call EXCEPT ![c] = "failed"]
        /\ UNCHANGED <<queued, deliver, recorded>>
    BY <1>12 DEF PushWebhookError, Goto, OnError
  <2>2. c \in recorded /\ queued[c] \in Nat /\ Turn(c) = queued[c] + 1
    BY <1>1, <2>1 DEF CallsAnnounce, AgentOK, Turn
  <2> PICK m \in Webhook : m = <<c[1], Turn(c)>> /\ m = Message(c)
    BY <2>1, MessageType, WebhooksAssumption DEF Message
  <2>3. ASSUME NEW b \in Call, NEW i \in 1 .. queued'[b]
        PROVE  Announced(<<b[1], i>>)'
    BY <1>2, <2>1, <2>3, MessagePushed DEF CallsAnnounce
  <2>4. ASSUME NEW w \in Webhook, Announced(w)'
        PROVE  \E b \in recorded' : b[1] = w[1] /\ queued'[b] >= w[2] - 1
    <3>1. CASE w = m
      BY <2>1, <2>2, <3>1
    <3>2. CASE Announced(w)
      BY <2>1, <3>2 DEF CallsAnnounce
    <3> QED
      BY <2>1, <2>4, <3>1, <3>2, MessagePushed
  <2>5. ASSUME NEW b \in Call
        PROVE  /\ call'[b] = "webhooks" \/ queued'[b] > 0 => b \in recorded'
               /\ deliver' /\ call'[b] = "done" => queued'[b] = Len(Urls)
    BY <1>1, <2>1 DEF CallsAnnounce, AgentOK
  <2> QED
    BY <2>3, <2>4, <2>5 DEF CallsAnnounce, Announced
<1> QED
  BY <1>5, <1>6, <1>7, <1>8, <1>9, <1>10, <1>11, <1>12
  DEF EventsNext, Handling, HandlingFails

LEMMA AnnouncementsStep ==
  EventsTypeOK /\ Announcements /\ [EventsNext]_allVars => Announcements'
BY ServiceAnnouncedStep, CallsAnnounceStep, EventsNextIsAnyStep
   DEF EventsTypeOK, Announcements

LEMMA AnnouncementsInit == EventsInit => Announcements
<1> SUFFICES ASSUME EventsInit
             PROVE  Announcements
  OBVIOUS
<1>1. ServiceAnnounced
  BY DelivererAssumption, EmptySeq DEF EventsInit, Init, ServiceAnnounced,
     ListAnnounced, SetAnnounced, RowsAnnounced, HandsAnnounced, AttemptsAnnounced
<1>2. \A w \in Webhook : ~Announced(w)
  BY WebhooksAssumption DEF EventsInit, Init, Announced
<1>3. CallsAnnounce
  BY <1>2 DEF EventsInit, CallsAnnounce
<1> QED
  BY <1>1, <1>3 DEF Announcements

\* No endpoint hears of an event that is on no list for the controllers, with
\* any number of events, patterns, endpoints and delivery processes.
THEOREM AnnouncedEventsAreRecorded == EventsSpec => []AnnouncedIsRecorded
<1>1. ASSUME Announcements
      PROVE  AnnouncedIsRecorded
  <2>1. ASSUME NEW w \in Webhook, attempts[w] > 0
        PROVE  \E c \in recorded : c[1] = w[1]
    BY <1>1, <2>1, WebhooksAssumption
    DEF Announcements, ServiceAnnounced, AttemptsAnnounced, CallsAnnounce
  <2> QED
    BY <2>1 DEF AnnouncedIsRecorded
<1> QED
  BY <1>1, AnnouncementsInit, AnnouncementsStep, EventsTypeCorrect, PTL DEF EventsSpec

\* The endpoints that never hear of an event because of an error or a kill are
\* the last ones of admin.webhook_urls, and there are none after a full call.
THEOREM EndpointsServedInOrder == EventsSpec => []EndpointsInOrder
<1>1. ASSUME EventsTypeOK, Announcements
      PROVE  EndpointsInOrder
  <2>1. AgentOK /\ CallsAnnounce /\ Len(Urls) \in Nat /\ Endpoint = 1 .. Len(Urls)
    BY <1>1, UrlsLength DEF EventsTypeOK, Announcements
  <2>2. ASSUME NEW e \in Event, NEW i \in Endpoint, Announced(<<e, i>>), NEW j \in 1 .. i
        PROVE  Announced(<<e, j>>)
    <3>1. <<e, i>> \in Webhook
      BY DEF Webhook
    <3>2. PICK c \in recorded : c[1] = e /\ queued[c] >= i - 1
      BY <2>1, <2>2, <3>1 DEF CallsAnnounce
    <3>3. c \in Call /\ queued[c] \in Nat
      BY <2>1 DEF AgentOK
    <3>4. j = i \/ j \in 1 .. queued[c]
      BY <2>1, <3>2, <3>3
    <3> QED
      BY <2>1, <2>2, <3>2, <3>3, <3>4 DEF CallsAnnounce
  <2>3. ASSUME NEW e \in Event, NEW i \in Endpoint, Handled(e)
        PROVE  Announced(<<e, i>>)
    BY <2>1, <2>3 DEF Handled, CallsAnnounce
  <2> QED
    BY <2>2, <2>3 DEF EndpointsInOrder, Announced
<1> QED
  BY <1>1, AnnouncementsInit, AnnouncementsStep, EventsTypeCorrect, PTL DEF EventsSpec

-----------------------------------------------------------------------------
(* AttemptsBounded *)

\* The copies of a message, each with the number of attempts made with it.
Tries(d) == IF delivery[d] = "zadd" THEN msg[d].retries + 1 ELSE msg[d].retries

ListCopies(w) == {<<"list", i, outbound[i].retries>> : i \in InList(w)}
SetCopies(w) == {<<"set", e, e.retries>> : e \in InSet(w)}
MsgCopies(w) == {<<"msg", d, Tries(d)>> : d \in InMsg(w)}
RowCopies(w) == {<<"row", d, row[d].retries>> : d \in InRow(w)}

Copies(w) == ListCopies(w) \union SetCopies(w) \union MsgCopies(w) \union RowCopies(w)

\* What is left of a copy that collapsed, or is gone: its attempts are over.
NoCopy == <<"gone", 0, MaxRetries + 1>>

\* The attempts that the calls Q have paid for and that were made, if at says
\* which copy is whose.
Spent(Q, at) == {x \in Q \X (0 .. MaxRetries) : x[2] < at[x[1]][3]}

\* Every copy in C belongs to a call of Q, and n attempts are not more than was
\* made with these.
Paid(C, Q, n) ==
  \E at \in [Q -> C \union {NoCopy}] :
    /\ \A p \in C : \E c \in Q : at[c] = p
    /\ n <= Cardinality(Spent(Q, at))

\* The calls that have queued a message.
Payers(w) == {c \in Call : c[1] = w[1] /\ queued[c] >= w[2]}

\* The inductive invariant behind AttemptsBounded.
AllPaid == \A w \in Webhook : Paid(Copies(w), Payers(w), attempts[w])


Levels(C) == \A p \in C : p[3] \in 0 .. MaxRetries + 1

LEMMA Tallies ==
  /\ IsFiniteSet(0 .. MaxRetries) /\ Cardinality(0 .. MaxRetries) = MaxRetries + 1
  /\ \A Q : IsFiniteSet(Q) =>
       /\ IsFiniteSet(Q \X (0 .. MaxRetries))
       /\ Cardinality(Q \X (0 .. MaxRetries)) = Cardinality(Q) * (MaxRetries + 1)
<1>1. 0 \in Int /\ MaxRetries \in Int /\ ~(0 > MaxRetries) /\ MaxRetries - 0 + 1 = MaxRetries + 1
  BY DEF MaxRetries
<1>2. /\ IsFiniteSet(0 .. MaxRetries)
      /\ Cardinality(0 .. MaxRetries) = IF 0 > MaxRetries THEN 0 ELSE MaxRetries - 0 + 1
  BY <1>1, FS_Interval
<1>3. IsFiniteSet(0 .. MaxRetries) /\ Cardinality(0 .. MaxRetries) = MaxRetries + 1
  BY <1>1, <1>2
<1> QED
  BY <1>3, FS_Product

\* Copies that never lose attempts keep what is spent.
LEMMA SpentGrows ==
  ASSUME NEW Q, IsFiniteSet(Q), NEW at, NEW at2,
         \A c \in Q : at[c][3] \in Nat /\ at2[c][3] \in Nat /\ at[c][3] <= at2[c][3]
  PROVE  /\ IsFiniteSet(Spent(Q, at)) /\ IsFiniteSet(Spent(Q, at2))
         /\ Spent(Q, at) \subseteq Spent(Q, at2)
         /\ Cardinality(Spent(Q, at)) \in Nat /\ Cardinality(Spent(Q, at2)) \in Nat
         /\ Cardinality(Spent(Q, at)) <= Cardinality(Spent(Q, at2))
<1>1. IsFiniteSet(Q \X (0 .. MaxRetries))
  BY Tallies
<1>2. \A f : Spent(Q, f) \in SUBSET (Q \X (0 .. MaxRetries))
  BY DEF Spent
<1>3. IsFiniteSet(Spent(Q, at)) /\ IsFiniteSet(Spent(Q, at2))
  BY <1>1, <1>2, FS_Subset
<1>4. Spent(Q, at) \subseteq Spent(Q, at2)
  <2> SUFFICES ASSUME NEW x \in Q \X (0 .. MaxRetries), x[2] < at[x[1]][3]
               PROVE  x[2] < at2[x[1]][3]
    BY DEF Spent
  <2>1. x[1] \in Q /\ x[2] \in Nat
    OBVIOUS
  <2> QED
    BY <2>1
<1> QED
  BY <1>3, <1>4, FS_Subset, FS_CardinalityType

\* When copies move, and none loses attempts, no call has to pay.
LEMMA PaidMoves ==
  ASSUME NEW Q, IsFiniteSet(Q), NEW C, NEW D, NEW n \in Nat, Paid(C, Q, n),
         Levels(C), Levels(D), NEW mv \in [C -> D \union {NoCopy}],
         \A p \in C : p[3] <= mv[p][3],
         \A q \in D : \E p \in C : mv[p] = q
  PROVE  Paid(D, Q, n)
<1>1. PICK at \in [Q -> C \union {NoCopy}] :
         /\ \A p \in C : \E c \in Q : at[c] = p
         /\ n <= Cardinality(Spent(Q, at))
  BY DEF Paid
<1> DEFINE at2 == [c \in Q |-> IF at[c] \in C THEN mv[at[c]] ELSE NoCopy]
<1>2. at2 \in [Q -> D \union {NoCopy}]
  OBVIOUS
<1>3. \A q \in D : \E c \in Q : at2[c] = q
  <2> TAKE q \in D
  <2>1. PICK p \in C : mv[p] = q
    OBVIOUS
  <2>2. PICK c \in Q : at[c] = p
    BY <1>1
  <2> QED
    BY <2>1, <2>2
<1>4. NoCopy[3] = MaxRetries + 1 /\ MaxRetries + 1 \in Nat
  BY DEF NoCopy, MaxRetries
<1>5. \A c \in Q : at[c][3] \in Nat /\ at2[c][3] \in Nat /\ at[c][3] <= at2[c][3]
  <2> TAKE c \in Q
  <2>1. CASE at[c] \in C
    <3>1. at2[c] = mv[at[c]] /\ at2[c] \in D \union {NoCopy} /\ at[c][3] <= at2[c][3]
      BY <1>2, <2>1
    <3> QED
      BY <1>4, <2>1, <3>1 DEF Levels
  <2>2. CASE at[c] \notin C
    BY <1>4, <2>2
  <2> QED
    BY <2>1, <2>2
<1> HIDE DEF at2
<1>6. n <= Cardinality(Spent(Q, at2))
  BY <1>1, <1>5, SpentGrows
<1> QED
  BY <1>2, <1>3, <1>6 DEF Paid

\* One copy changes its place, or vanishes.
LEMMA PaidMove ==
  ASSUME NEW Q, IsFiniteSet(Q), NEW C, NEW D, NEW n \in Nat, Paid(C, Q, n),
         Levels(C), Levels(D), NEW p \in C, NEW q, D \subseteq (C \ {p}) \union {q},
         q \in D => p[3] <= q[3]
  PROVE  Paid(D, Q, n)
<1> DEFINE to(x) == IF x = p THEN q ELSE x
           mv == [x \in C |-> IF to(x) \in D THEN to(x) ELSE NoCopy]
<1>1. mv \in [C -> D \union {NoCopy}]
  OBVIOUS
<1>2. NoCopy[3] = MaxRetries + 1 /\ MaxRetries + 1 \in Nat
  BY DEF NoCopy, MaxRetries
<1>3. \A x \in C : x[3] <= mv[x][3]
  BY <1>2 DEF Levels
<1>4. \A y \in D : \E x \in C : mv[x] = y
  <2> TAKE y \in D
  <2>1. CASE y = q
    <3>1. mv[p] = y
      BY <2>1
    <3> QED
      BY <3>1
  <2>2. CASE y # q
    <3>1. y \in C /\ mv[y] = y
      BY <2>2
    <3> QED
      BY <3>1
  <2> QED
    BY <2>1, <2>2
<1> HIDE DEF mv
<1> QED
  BY <1>1, <1>3, <1>4, PaidMoves

LEMMA PaidFewer ==
  ASSUME NEW Q, IsFiniteSet(Q), NEW C, NEW D, NEW n \in Nat, Paid(C, Q, n),
         Levels(C), D \subseteq C
  PROVE  Paid(D, Q, n)
<1> DEFINE mv == [x \in C |-> IF x \in D THEN x ELSE NoCopy]
<1>1. mv \in [C -> D \union {NoCopy}]
  OBVIOUS
<1>2. NoCopy[3] = MaxRetries + 1 /\ MaxRetries + 1 \in Nat
  BY DEF NoCopy, MaxRetries
<1>3. \A x \in C : x[3] <= mv[x][3]
  BY <1>2 DEF Levels
<1>4. \A y \in D : \E x \in C : mv[x] = y
  OBVIOUS
<1>5. Levels(D)
  BY DEF Levels
<1> QED
  BY <1>1, <1>3, <1>4, <1>5, PaidMoves

\* An attempt with a copy, after which it has one more or is gone.
LEMMA PaidAttempt ==
  ASSUME NEW Q, IsFiniteSet(Q), NEW C, NEW D, NEW n \in Nat, Paid(C, Q, n),
         Levels(C), Levels(D), NEW p \in C, p[3] <= MaxRetries,
         NEW q, D \subseteq (C \ {p}) \union {q}, q \in D => p[3] < q[3]
  PROVE  Paid(D, Q, n + 1)
<1>1. PICK at \in [Q -> C \union {NoCopy}] :
         /\ \A x \in C : \E c \in Q : at[c] = x
         /\ n <= Cardinality(Spent(Q, at))
  BY DEF Paid
<1> DEFINE to(x) == IF x = p THEN q ELSE x
           at2 == [c \in Q |-> IF at[c] \in C /\ to(at[c]) \in D THEN to(at[c]) ELSE NoCopy]
<1>2. at2 \in [Q -> D \union {NoCopy}]
  OBVIOUS
<1>3. \A y \in D : \E c \in Q : at2[c] = y
  <2> TAKE y \in D
  <2>1. PICK x \in C : to(x) = y
    OBVIOUS
  <2>2. PICK c \in Q : at[c] = x
    BY <1>1
  <2> QED
    BY <2>1, <2>2
<1>4. NoCopy[3] = MaxRetries + 1 /\ MaxRetries \in Nat
  BY DEF NoCopy, MaxRetries
<1>5. \A c \in Q : /\ at[c][3] \in Nat /\ at2[c][3] \in Nat /\ at[c][3] <= at2[c][3]
                   /\ at[c] = p => at[c][3] < at2[c][3]
  <2> TAKE c \in Q
  <2>1. CASE at[c] \notin C
    BY <1>4, <2>1
  <2>2. CASE at[c] \in C /\ to(at[c]) \notin D
    <3>1. at2[c] = NoCopy /\ at[c][3] \in 0 .. MaxRetries + 1
      BY <2>2 DEF Levels
    <3> QED
      BY <1>4, <3>1
  <2>3. CASE at[c] \in C /\ to(at[c]) \in D
    <3>1. at2[c] = to(at[c]) /\ at[c][3] \in Nat /\ at2[c][3] \in Nat
      BY <1>4, <2>3 DEF Levels
    <3>2. CASE at[c] = p
      BY <2>3, <3>1, <3>2
    <3>3. CASE at[c] # p
      BY <2>3, <3>1, <3>3
    <3> QED
      BY <3>2, <3>3
  <2> QED
    BY <2>1, <2>2, <2>3
<1>6. PICK c \in Q : at[c] = p
  BY <1>1
<1> HIDE DEF at2
<1>7. <<c, p[3]>> \in Spent(Q, at2) /\ <<c, p[3]>> \notin Spent(Q, at)
  <2>1. p[3] \in 0 .. MaxRetries
    BY <1>4 DEF Levels
  <2> QED
    BY <1>5, <1>6, <2>1 DEF Spent
<1>8. /\ IsFiniteSet(Spent(Q, at)) /\ IsFiniteSet(Spent(Q, at2))
      /\ Spent(Q, at) \subseteq Spent(Q, at2)
      /\ Cardinality(Spent(Q, at)) \in Nat /\ Cardinality(Spent(Q, at2)) \in Nat
  BY <1>5, SpentGrows
<1>9. /\ Cardinality(Spent(Q, at) \union {<<c, p[3]>>}) = Cardinality(Spent(Q, at)) + 1
      /\ Spent(Q, at) \union {<<c, p[3]>>} \in SUBSET Spent(Q, at2)
  BY <1>7, <1>8, FS_AddElement
<1>10. n + 1 <= Cardinality(Spent(Q, at2))
  <2>1. Cardinality(Spent(Q, at) \union {<<c, p[3]>>}) <= Cardinality(Spent(Q, at2))
    BY <1>8, <1>9, FS_Subset
  <2> QED
    BY <1>1, <1>8, <1>9, <2>1
<1> QED
  BY <1>2, <1>3, <1>10 DEF Paid

\* A call that pays for a copy of its own.
LEMMA PaidPush ==
  ASSUME NEW Q, IsFiniteSet(Q), NEW C, NEW D, NEW n \in Nat, Paid(C, Q, n),
         Levels(C), Levels(D), NEW c, c \notin Q, NEW q, D = C \union {q}
  PROVE  Paid(D, Q \union {c}, n)
<1>1. PICK at \in [Q -> C \union {NoCopy}] :
         /\ \A x \in C : \E k \in Q : at[k] = x
         /\ n <= Cardinality(Spent(Q, at))
  BY DEF Paid
<1> DEFINE R == Q \union {c}
           at2 == [k \in R |-> IF k = c THEN q ELSE at[k]]
<1>2. at2 \in [R -> D \union {NoCopy}]
  OBVIOUS
<1>3. \A y \in D : \E k \in R : at2[k] = y
  <2> TAKE y \in D
  <2>1. CASE y = q
    BY <2>1
  <2>2. CASE y # q
    <3>1. PICK k \in Q : at[k] = y
      BY <1>1, <2>2
    <3> QED
      BY <3>1
  <2> QED
    BY <2>1, <2>2
<1>4. IsFiniteSet(R)
  BY FS_AddElement
<1>5. \A k \in R : at2[k][3] \in Nat
  BY <1>2 DEF Levels, NoCopy, MaxRetries
<1>6. Spent(Q, at) \subseteq Spent(R, at2)
  <2> SUFFICES ASSUME NEW x \in Q \X (0 .. MaxRetries), x[2] < at[x[1]][3]
               PROVE  x \in Spent(R, at2)
    BY DEF Spent
  <2>1. x[1] \in Q /\ x \in R \X (0 .. MaxRetries)
    OBVIOUS
  <2>2. at2[x[1]] = at[x[1]]
    BY <2>1
  <2> HIDE DEF at2
  <2> QED
    BY <2>1, <2>2 DEF Spent
<1> HIDE DEF at2, R
<1>7. IsFiniteSet(Spent(R, at2)) /\ Cardinality(Spent(R, at2)) \in Nat
  BY <1>4, <1>5, SpentGrows
<1>8. Cardinality(Spent(Q, at)) <= Cardinality(Spent(R, at2))
  BY <1>6, <1>7, FS_Subset
<1>9. Cardinality(Spent(Q, at)) \in Nat
  BY <1>6, <1>7, FS_Subset, FS_CardinalityType
<1>10. n <= Cardinality(Spent(R, at2))
  BY <1>1, <1>7, <1>8, <1>9
<1> QED
  BY <1>2, <1>3, <1>10 DEF Paid, R

LEMMA PaidBound ==
  ASSUME NEW Q, IsFiniteSet(Q), NEW C, NEW n \in Nat, Paid(C, Q, n)
  PROVE  n <= (MaxRetries + 1) * Cardinality(Q)
<1> DEFINE All == Q \X (0 .. MaxRetries)
<1>1. PICK at \in [Q -> C \union {NoCopy}] : n <= Cardinality(Spent(Q, at))
  BY DEF Paid
<1>2. Spent(Q, at) \in SUBSET All
  BY DEF Spent
<1>4. IsFiniteSet(All) /\ Cardinality(All) = Cardinality(Q) * (MaxRetries + 1)
  BY Tallies
<1>5. /\ Cardinality(Spent(Q, at)) <= Cardinality(All)
      /\ Cardinality(Spent(Q, at)) \in Nat /\ Cardinality(All) \in Nat
  BY <1>2, <1>4, FS_Subset, FS_CardinalityType
<1>6. Cardinality(Q) \in Nat /\ MaxRetries + 1 \in Nat
  BY FS_CardinalityType DEF MaxRetries
<1>7. Cardinality(Q) * (MaxRetries + 1) = (MaxRetries + 1) * Cardinality(Q)
  BY <1>6
<1> QED
  BY <1>1, <1>4, <1>5, <1>7


LEMMA CopiesLevels ==
  ASSUME NEW w \in Body
  PROVE  /\ TypeOK => Levels(Copies(w))
         /\ TypeOK' => Levels(Copies(w)')
<1> DEFINE Few == 0 .. MaxRetries + 1
<1>1. ASSUME TypeOK
      PROVE  Levels(Copies(w))
  <2>1. \A e \in Envelope : e.retries \in Few
    BY DEF Envelope, MaxRetries
  <2>2. \A i \in InList(w) : outbound[i].retries \in Few
    BY <1>1, <2>1, ElementOfSeq, LenProperties DEF InList, TypeOK
  <2>3. \A e \in InSet(w) : e.retries \in Few
    BY <2>1 DEF InSet
  <2>4. \A d \in InMsg(w) : Tries(d) \in Few
    BY <1>1 DEF InMsg, TypeOK, Coherent, Tries, Envelope, MaxRetries
  <2>5. \A d \in InRow(w) : row[d].retries \in Few
    BY <1>1, <2>1 DEF InRow, TypeOK
  <2> QED
    BY <2>2, <2>3, <2>4, <2>5 DEF Levels, Copies, ListCopies, SetCopies, MsgCopies, RowCopies
<1>2. ASSUME TypeOK'
      PROVE  Levels(Copies(w)')
  <2>1. \A e \in Envelope : e.retries \in Few
    BY DEF Envelope, MaxRetries
  <2>2. \A i \in InList(w)' : outbound'[i].retries \in Few
    BY <1>2, <2>1, ElementOfSeq, LenProperties DEF InList, TypeOK
  <2>3. \A e \in InSet(w)' : e.retries \in Few
    BY <2>1 DEF InSet
  <2>4. \A d \in InMsg(w)' : Tries(d)' \in Few
    BY <1>2 DEF InMsg, TypeOK, Coherent, Tries, Envelope, MaxRetries
  <2>5. \A d \in InRow(w)' : row'[d].retries \in Few
    BY <1>2, <2>1 DEF InRow, TypeOK
  <2> QED
    BY <2>2, <2>3, <2>4, <2>5 DEF Levels, Copies, ListCopies, SetCopies, MsgCopies, RowCopies
<1> QED
  BY <1>1, <1>2

\* The places of copies are told apart by their first component.
LEMMA CopiesApart ==
  ASSUME NEW w \in Body
  PROVE  /\ \A x \in ListCopies(w) \union ListCopies(w)' : x[1] = "list"
         /\ \A x \in SetCopies(w) \union SetCopies(w)' : x[1] = "set"
         /\ \A x \in MsgCopies(w) \union MsgCopies(w)' : x[1] = "msg"
         /\ \A x \in RowCopies(w) \union RowCopies(w)' : x[1] = "row"
<1>1. \A x \in ListCopies(w) \union ListCopies(w)' : x[1] = "list"
  BY DEF ListCopies
<1>2. \A x \in SetCopies(w) \union SetCopies(w)' : x[1] = "set"
  BY DEF SetCopies
<1>3. \A x \in MsgCopies(w) \union MsgCopies(w)' : x[1] = "msg"
  BY DEF MsgCopies
<1>4. \A x \in RowCopies(w) \union RowCopies(w)' : x[1] = "row"
  BY DEF RowCopies
<1> QED
  BY <1>1, <1>2, <1>3, <1>4

\* What leaves a part of Copies as it was.
LEMMA ListKept ==
  ASSUME UNCHANGED outbound, NEW w \in Body
  PROVE  ListCopies(w)' = ListCopies(w)
BY DEF ListCopies, InList

LEMMA RowsKept ==
  ASSUME UNCHANGED row, NEW w \in Body
  PROVE  RowCopies(w)' = RowCopies(w)
BY DEF RowCopies, InRow

LEMMA SetKept ==
  ASSUME NEW w \in Body,
         \A e \in Envelope : e.body = w => (retry'[e] = "absent" <=> retry[e] = "absent")
  PROVE  SetCopies(w)' = SetCopies(w)
<1>1. InSet(w)' = InSet(w)
  BY DEF InSet
<1> QED
  BY <1>1 DEF SetCopies

LEMMA MsgLeft ==
  ASSUME NEW w \in Body, NEW d \in Process, msg'[d] = NoEnvelope,
         \A c \in Process : c # d => msg'[c] = msg[c] /\ delivery'[c] = delivery[c]
  PROVE  MsgCopies(w)' \subseteq {x \in MsgCopies(w) : x[2] # d}
<1>1. \A c \in InMsg(w)' : c \in InMsg(w) /\ c # d /\ Tries(c)' = Tries(c)
  BY DEF InMsg, Tries
<1> QED
  BY <1>1 DEF MsgCopies


LEMMA PaidPoll ==
  ASSUME TypeOK, TypeOK', NEW d \in Process, Poll(d), NEW w \in Body,
         NEW Q, IsFiniteSet(Q), Paid(Copies(w), Q, attempts[w])
  PROVE  Paid(Copies(w)', Q, attempts'[w])
<1>1. /\ outbound \in Seq(Envelope) /\ outbound # <<>> /\ outbound' = Tail(outbound)
      /\ msg' = [msg EXCEPT ![d] = Head(outbound)]
      /\ delivery' = [delivery EXCEPT ![d] = "send"]
      /\ UNCHANGED <<retry, row, attempts>>
      /\ msg[d] = NoEnvelope /\ attempts[w] \in Nat
  BY DEF Poll, TypeOK, Coherent
<1>2. /\ 1 \in DOMAIN outbound /\ Head(outbound) = outbound[1]
      /\ DOMAIN outbound \subseteq Nat \ {0}
      /\ \A i \in DOMAIN outbound' :
           i \in Nat \ {0} /\ i + 1 \in DOMAIN outbound /\ outbound'[i] = outbound[i + 1]
      /\ \A j \in DOMAIN outbound \ {1} :
           j - 1 \in DOMAIN outbound' /\ outbound'[j - 1] = outbound[j]
  BY <1>1, PopShape
<1> DEFINE one == outbound[1]
           C == Copies(w)
           D == Copies(w)'
           first == <<"msg", d, one.retries>>
           to(x) == IF x[1] # "list" THEN x
                    ELSE IF x[2] = 1 THEN first
                    ELSE <<"list", x[2] - 1, x[3]>>
           mv == [x \in C |-> to(x)]
<1>3. one \in Envelope /\ one # NoEnvelope
  BY <1>1, <1>2, ElementOfSeq, LenProperties, DelivererAssumption
<1>4. /\ \A c \in Process : c # d => msg'[c] = msg[c] /\ delivery'[c] = delivery[c]
      /\ msg'[d] = one /\ delivery'[d] = "send"
  BY <1>1, <1>2 DEF TypeOK
<1>5. SetCopies(w)' = SetCopies(w) /\ RowCopies(w)' = RowCopies(w)
  BY <1>1, SetKept, RowsKept
<1>6. MsgCopies(w)' = MsgCopies(w) \union (IF one.body = w THEN {first} ELSE {})
  <2>1. InMsg(w)' = InMsg(w) \union (IF one.body = w THEN {d} ELSE {})
    BY <1>1, <1>3, <1>4 DEF InMsg
  <2>2. d \notin InMsg(w)
    BY <1>1 DEF InMsg
  <2>3. \A c \in InMsg(w) : Tries(c)' = Tries(c)
    BY <1>4, <2>2 DEF Tries, InMsg
  <2>4. Tries(d)' = one.retries
    BY <1>4 DEF Tries
  <2> QED
    BY <2>1, <2>3, <2>4 DEF MsgCopies
<1>7. \A x \in ListCopies(w) : IF x[2] = 1 THEN one.body = w /\ to(x) = first /\ x[3] = one.retries
                               ELSE to(x) \in ListCopies(w)'
  <2> TAKE x \in ListCopies(w)
  <2>1. PICK i \in InList(w) : x = <<"list", i, outbound[i].retries>>
    BY DEF ListCopies
  <2>2. CASE i = 1
    BY <2>1, <2>2 DEF InList
  <2>3. CASE i # 1
    <3>1. i \in DOMAIN outbound \ {1} /\ outbound[i].body = w
      BY <2>3 DEF InList
    <3>2. i - 1 \in InList(w)' /\ outbound'[i - 1] = outbound[i]
      BY <1>2, <3>1 DEF InList
    <3>3. to(x) = <<"list", i - 1, outbound'[i - 1].retries>>
      BY <2>1, <2>3, <3>2
    <3> QED
      BY <2>1, <2>3, <3>2, <3>3 DEF ListCopies
  <2> QED
    BY <2>2, <2>3
<1>8. \A y \in ListCopies(w)' : \E x \in ListCopies(w) : to(x) = y
  <2> TAKE y \in ListCopies(w)'
  <2>1. PICK i \in InList(w)' : y = <<"list", i, outbound'[i].retries>>
    BY DEF ListCopies
  <2>2. i \in Nat \ {0} /\ i + 1 \in InList(w) /\ outbound'[i] = outbound[i + 1]
    BY <1>2 DEF InList
  <2> DEFINE x == <<"list", i + 1, outbound[i + 1].retries>>
  <2>3. x \in ListCopies(w)
    BY <2>2 DEF ListCopies
  <2>4. x[1] = "list" /\ x[2] # 1 /\ x[2] - 1 = i /\ x[3] = outbound'[i].retries
    BY <2>2
  <2> HIDE DEF x
  <2> QED
    BY <2>1, <2>3, <2>4
<1>9. /\ \A x \in C : x[1] = "list" => x \in ListCopies(w)
      /\ \A x \in C : x[1] # "list" => x \in D
      /\ \A x \in ListCopies(w) : x[1] = "list"
  BY <1>5, <1>6, CopiesApart DEF Copies
<1>10. one.body = w => first \in D /\ <<"list", 1, one.retries>> \in ListCopies(w)
  BY <1>2, <1>6 DEF Copies, ListCopies, InList
<1>11. \A x \in C : to(x) \in D /\ to(x)[3] = x[3]
  <2> TAKE x \in C
  <2>1. CASE x[1] # "list"
    BY <1>9, <2>1
  <2>2. CASE x[1] = "list"
    <3>1. x \in ListCopies(w)
      BY <1>9, <2>2
    <3>2. CASE x[2] = 1
      BY <1>7, <1>10, <3>1, <3>2
    <3>3. CASE x[2] # 1
      BY <1>7, <2>2, <3>1, <3>3 DEF Copies
    <3> QED
      BY <3>2, <3>3
  <2> QED
    BY <2>1, <2>2
<1>12. \A y \in D : \E x \in C : to(x) = y
  <2> TAKE y \in D
  <2>1. CASE y \in ListCopies(w)'
    BY <1>8, <2>1 DEF Copies
  <2>2. CASE y = first /\ one.body = w
    <3> DEFINE x == <<"list", 1, one.retries>>
    <3>1. x \in C /\ x[1] = "list" /\ x[2] = 1
      BY <1>10, <2>2 DEF Copies
    <3> HIDE DEF x
    <3> QED
      BY <2>2, <3>1
  <2>3. CASE y \in SetCopies(w) \union MsgCopies(w) \union RowCopies(w)
    <3>1. y \in C /\ y[1] # "list"
      BY <2>3, CopiesApart DEF Copies
    <3> QED
      BY <3>1
  <2> QED
    BY <1>5, <1>6, <2>1, <2>2, <2>3 DEF Copies
<1>13. Levels(C) /\ Levels(D)
  BY CopiesLevels
<1> HIDE DEF C, D, to
<1>14. mv \in [C -> D \union {NoCopy}] /\ \A y \in D : \E x \in C : mv[x] = y
  BY <1>11, <1>12
<1>15. \A x \in C : x[3] <= mv[x][3]
  BY <1>11, <1>13 DEF Levels
<1> HIDE DEF mv
<1>16. Paid(D, Q, attempts[w])
  BY <1>1, <1>13, <1>14, <1>15, PaidMoves DEF C
<1> QED
  BY <1>1, <1>16 DEF D

LEMMA PaidAddRetry ==
  ASSUME TypeOK, TypeOK', NEW d \in Process, AddRetry(d), NEW w \in Body,
         NEW Q, IsFiniteSet(Q), Paid(Copies(w), Q, attempts[w])
  PROVE  Paid(Copies(w)', Q, attempts'[w])
<1> DEFINE e == Retried(msg[d])
           p == <<"msg", d, Tries(d)>>
           q == <<"set", e, e.retries>>
<1>1. /\ delivery[d] = "zadd" /\ msg[d] \in Envelope /\ attempts[w] \in Nat
      /\ e \in Envelope /\ e.body = msg[d].body /\ e.retries = msg[d].retries + 1
  BY EnvelopeType DEF AddRetry, TypeOK, Coherent, MayRetry
<1>2. /\ retry' = [retry EXCEPT ![e] = "waiting"]
      /\ msg' = [msg EXCEPT ![d] = NoEnvelope] /\ delivery' = [delivery EXCEPT ![d] = "poll"]
      /\ UNCHANGED <<outbound, row, attempts>>
  BY DEF AddRetry, Finish
<1> HIDE DEF e
<1>3. MsgCopies(w)' \subseteq {x \in MsgCopies(w) : x[2] # d}
  <2>1. /\ msg'[d] = NoEnvelope
        /\ \A c \in Process : c # d => msg'[c] = msg[c] /\ delivery'[c] = delivery[c]
    BY <1>2 DEF TypeOK
  <2> QED
    BY <2>1, MsgLeft
<1>4. ListCopies(w)' = ListCopies(w) /\ RowCopies(w)' = RowCopies(w)
  BY <1>2, ListKept, RowsKept
<1>5. CASE msg[d].body # w
  <2>1. SetCopies(w)' = SetCopies(w)
    <3>1. \A f \in Envelope : f.body = w => retry'[f] = retry[f]
      BY <1>1, <1>2, <1>5 DEF TypeOK
    <3> QED
      BY <3>1, SetKept
  <2>2. Copies(w)' \subseteq Copies(w)
    BY <1>3, <1>4, <2>1 DEF Copies
  <2> QED
    BY <1>1, <1>2, <2>2, CopiesLevels, PaidFewer
<1>6. CASE msg[d].body = w
  <2>1. p \in MsgCopies(w) /\ p[3] = e.retries
    BY <1>1, <1>6, DelivererAssumption DEF MsgCopies, InMsg, Tries
  <2>2. SetCopies(w)' \subseteq SetCopies(w) \union {q}
    <3>1. InSet(w)' \subseteq InSet(w) \union {e}
      BY <1>1, <1>2 DEF InSet, TypeOK
    <3> QED
      BY <3>1 DEF SetCopies
  <2>3. Copies(w)' \subseteq (Copies(w) \ {p}) \union {q}
    <3>1. p \notin ListCopies(w) /\ p \notin SetCopies(w) /\ p \notin RowCopies(w)
      BY <2>1, CopiesApart
    <3> QED
      BY <1>3, <1>4, <2>2, <3>1 DEF Copies
  <2>4. p \in Copies(w) /\ p[3] <= q[3]
    BY <1>1, <2>1 DEF Copies, Envelope
  <2> HIDE DEF p, q
  <2> QED
    BY <1>1, <1>2, <2>3, <2>4, CopiesLevels, PaidMove
<1> QED
  BY <1>5, <1>6


LEMMA PaidTake ==
  ASSUME TypeOK, TypeOK', NEW d \in Process, Take(d), NEW w \in Body,
         NEW Q, IsFiniteSet(Q), Paid(Copies(w), Q, attempts[w])
  PROVE  Paid(Copies(w)', Q, attempts'[w])
<1>1. PICK e \in rows[d] : /\ retry[e] # "absent"
                           /\ retry' = [retry EXCEPT ![e] = "absent"]
                           /\ row' = [row EXCEPT ![d] = e]
  BY DEF Take, Removed
<1>2. /\ e \in Envelope /\ e # NoEnvelope /\ attempts[w] \in Nat
      /\ UNCHANGED <<outbound, delivery, msg, attempts>>
  BY DelivererAssumption DEF Take, TypeOK
<1> DEFINE p == <<"set", e, e.retries>>
           q == <<"row", d, e.retries>>
<1>3. ListCopies(w)' = ListCopies(w) /\ MsgCopies(w)' = MsgCopies(w)
  BY <1>2, ListKept DEF MsgCopies, InMsg, Tries
<1>4. InRow(w)' \subseteq InRow(w) \union (IF e.body = w THEN {d} ELSE {})
  BY <1>1, <1>2 DEF InRow, TypeOK
<1>5. \A c \in InRow(w)' : IF c = d THEN row'[c] = e ELSE row'[c] = row[c]
  BY <1>1 DEF InRow, TypeOK
<1>6. CASE e.body # w
  <2>1. SetCopies(w)' = SetCopies(w)
    <3>1. \A f \in Envelope : f.body = w => retry'[f] = retry[f]
      BY <1>1, <1>2, <1>6 DEF TypeOK
    <3> QED
      BY <3>1, SetKept
  <2>2. \A c \in InRow(w)' : c # d
    BY <1>1, <1>6 DEF InRow, TypeOK
  <2>3. RowCopies(w)' \subseteq RowCopies(w)
    BY <1>4, <1>5, <1>6, <2>2 DEF RowCopies
  <2>4. Copies(w)' \subseteq Copies(w)
    BY <1>3, <2>1, <2>3 DEF Copies
  <2> QED
    BY <1>2, <2>4, CopiesLevels, PaidFewer
<1>7. CASE e.body = w
  <2>1. p \in SetCopies(w)
    BY <1>1, <1>2, <1>7 DEF SetCopies, InSet
  <2>2. SetCopies(w)' \subseteq SetCopies(w) \ {p}
    <3>1. InSet(w)' = InSet(w) \ {e}
      BY <1>1, <1>2 DEF InSet, TypeOK
    <3> QED
      BY <3>1 DEF SetCopies
  <2>3. RowCopies(w)' \subseteq RowCopies(w) \union {q}
    BY <1>4, <1>5, <1>7 DEF RowCopies
  <2>4. Copies(w)' \subseteq (Copies(w) \ {p}) \union {q}
    <3>1. p \notin ListCopies(w) /\ p \notin MsgCopies(w) /\ p \notin RowCopies(w)
      BY <2>1, CopiesApart
    <3> QED
      BY <1>3, <2>2, <2>3, <3>1 DEF Copies
  <2>5. p \in Copies(w) /\ p[3] <= q[3]
    BY <1>2, <2>1 DEF Copies, Envelope
  <2> HIDE DEF p, q
  <2> QED
    BY <1>2, <2>4, <2>5, CopiesLevels, PaidMove
<1> QED
  BY <1>6, <1>7

\* The row in hand goes to the end of the list.
LEMMA PaidPushBack ==
  ASSUME TypeOK, TypeOK', NEW d \in Process, PushBack(d), NEW w \in Body,
         NEW Q, IsFiniteSet(Q), Paid(Copies(w), Q, attempts[w])
  PROVE  Paid(Copies(w)', Q, attempts'[w])
<1> DEFINE e == row[d]
           last == Len(outbound) + 1
           p == <<"row", d, e.retries>>
           q == <<"list", last, e.retries>>
<1>1. /\ outbound \in Seq(Envelope) /\ e \in Envelope /\ e # NoEnvelope
      /\ outbound' = Append(outbound, e)
      /\ row' = [row EXCEPT ![d] = NoEnvelope]
      /\ UNCHANGED <<retry, delivery, msg, attempts>> /\ attempts[w] \in Nat
  BY DelivererAssumption DEF PushBack, TypeOK, Coherent
<1> HIDE DEF e
<1>2. /\ DOMAIN outbound' = DOMAIN outbound \union {last}
      /\ \A i \in DOMAIN outbound : outbound'[i] = outbound[i]
      /\ outbound'[last] = e
  BY <1>1, PushShape
<1>3. SetCopies(w)' = SetCopies(w) /\ MsgCopies(w)' = MsgCopies(w)
  BY <1>1, SetKept DEF MsgCopies, InMsg, Tries
<1>4. RowCopies(w)' \subseteq {x \in RowCopies(w) : x[2] # d}
  <2>1. \A c \in InRow(w)' : c \in InRow(w) /\ c # d /\ row'[c] = row[c]
    BY <1>1 DEF InRow, TypeOK
  <2> QED
    BY <2>1 DEF RowCopies
<1>5. \A i \in InList(w)' : \/ i \in InList(w) /\ outbound'[i] = outbound[i]
                            \/ i = last /\ outbound'[i] = e /\ e.body = w
  BY <1>2 DEF InList
<1>6. CASE e.body # w
  <2>1. ListCopies(w)' \subseteq ListCopies(w)
    BY <1>5, <1>6 DEF ListCopies
  <2>2. Copies(w)' \subseteq Copies(w)
    BY <1>3, <1>4, <2>1 DEF Copies
  <2> QED
    BY <1>1, <2>2, CopiesLevels, PaidFewer
<1>7. CASE e.body = w
  <2>1. p \in RowCopies(w)
    BY <1>1, <1>7 DEF RowCopies, InRow, e
  <2>2. ListCopies(w)' \subseteq ListCopies(w) \union {q}
    BY <1>5 DEF ListCopies
  <2>3. Copies(w)' \subseteq (Copies(w) \ {p}) \union {q}
    <3>1. p \notin ListCopies(w) /\ p \notin MsgCopies(w) /\ p \notin SetCopies(w)
      BY <2>1, CopiesApart
    <3> QED
      BY <1>3, <1>4, <2>2, <3>1 DEF Copies
  <2>4. p \in Copies(w) /\ p[3] <= q[3]
    BY <1>1, <2>1 DEF Copies, Envelope
  <2> HIDE DEF p, q
  <2> QED
    BY <1>1, <2>3, <2>4, CopiesLevels, PaidMove
<1> QED
  BY <1>6, <1>7

\* A failed post that will be tried again.
LEMMA PaidPostFails ==
  ASSUME TypeOK, TypeOK', NEW d \in Process, PostFails(d), MayRetry(msg[d]), NEW w \in Body,
         NEW Q, IsFiniteSet(Q), Paid(Copies(w), Q, attempts[w])
  PROVE  Paid(Copies(w)', Q, attempts'[w])
<1> DEFINE p == <<"msg", d, Tries(d)>>
           q == <<"msg", d, Tries(d)'>>
<1>1. /\ delivery[d] = "send" /\ delivery' = [delivery EXCEPT ![d] = "zadd"]
      /\ msg[d] \in Envelope /\ msg[d] # NoEnvelope
      /\ msg[d].body \in Body /\ msg[d].retries \in Nat
      /\ attempts' = [attempts EXCEPT ![msg[d].body] = @ + 1]
      /\ UNCHANGED <<outbound, retry, msg, row>> /\ attempts[w] \in Nat
  BY InHand, DelivererAssumption DEF PostFails, Sending, Attempt, TypeOK
<1>2. /\ ListCopies(w)' = ListCopies(w) /\ RowCopies(w)' = RowCopies(w)
      /\ SetCopies(w)' = SetCopies(w)
  BY <1>1, ListKept, RowsKept, SetKept
<1>3. /\ InMsg(w)' = InMsg(w)
      /\ \A c \in Process : c # d => Tries(c)' = Tries(c)
      /\ Tries(d) = msg[d].retries /\ Tries(d)' = msg[d].retries + 1
  BY <1>1 DEF InMsg, Tries, TypeOK
<1>4. CASE msg[d].body # w
  <2>1. MsgCopies(w)' = MsgCopies(w) /\ attempts'[w] = attempts[w]
    BY <1>1, <1>3, <1>4 DEF MsgCopies, InMsg, TypeOK
  <2>2. Copies(w)' \subseteq Copies(w)
    BY <1>2, <2>1 DEF Copies
  <2> QED
    BY <1>1, <2>1, <2>2, CopiesLevels, PaidFewer
<1>5. CASE msg[d].body = w
  <2>1. p \in MsgCopies(w) /\ attempts'[w] = attempts[w] + 1
    BY <1>1, <1>5 DEF MsgCopies, InMsg, TypeOK
  <2>2. MsgCopies(w)' \subseteq (MsgCopies(w) \ {p}) \union {q}
    <3> SUFFICES ASSUME NEW x \in MsgCopies(w)'
                 PROVE  x \in (MsgCopies(w) \ {p}) \union {q}
      OBVIOUS
    <3>1. PICK c \in InMsg(w) : x = <<"msg", c, Tries(c)'>>
      BY <1>3 DEF MsgCopies
    <3>2. CASE c = d
      BY <3>1, <3>2
    <3>3. CASE c # d
      <4>1. x = <<"msg", c, Tries(c)>> /\ c \in Process
        BY <1>3, <3>1, <3>3 DEF InMsg
      <4>2. x # p
        BY <3>3, <4>1
      <4> QED
        BY <4>1, <4>2, <3>1 DEF MsgCopies
    <3> QED
      BY <3>2, <3>3
  <2>3. Copies(w)' \subseteq (Copies(w) \ {p}) \union {q}
    <3>1. p \notin ListCopies(w) /\ p \notin SetCopies(w) /\ p \notin RowCopies(w)
      BY <2>1, CopiesApart
    <3> QED
      BY <1>2, <2>2, <3>1 DEF Copies
  <2>4. p \in Copies(w) /\ p[3] < q[3] /\ p[3] <= MaxRetries
    BY <1>1, <1>3, <2>1 DEF Copies, Envelope, MaxRetries
  <2> HIDE DEF p, q
  <2> QED
    BY <1>1, <2>1, <2>3, <2>4, CopiesLevels, PaidAttempt
<1> QED
  BY <1>4, <1>5

\* Processes that let go of what they hold, after an attempt or without one.
LEMMA PaidLetsGo ==
  ASSUME TypeOK, TypeOK', NEW d \in Process, NEW w \in Body,
         UNCHANGED <<outbound, retry>>, msg' = [msg EXCEPT ![d] = NoEnvelope],
         \A c \in Process : c # d => delivery'[c] = delivery[c],
         \A c \in Process : row'[c] \in {row[c], NoEnvelope}
  PROVE  /\ Copies(w)' \subseteq Copies(w)
         /\ \A x \in Copies(w)' : x[1] = "msg" => x[2] # d
<1>1. MsgCopies(w)' \subseteq {x \in MsgCopies(w) : x[2] # d}
  <2>1. /\ msg'[d] = NoEnvelope
        /\ \A c \in Process : c # d => msg'[c] = msg[c] /\ delivery'[c] = delivery[c]
    BY DEF TypeOK
  <2> QED
    BY <2>1, MsgLeft
<1>2. RowCopies(w)' \subseteq RowCopies(w)
  <2>1. \A c \in InRow(w)' : c \in InRow(w) /\ row'[c] = row[c]
    BY DEF InRow
  <2> QED
    BY <2>1 DEF RowCopies
<1>3. ListCopies(w)' = ListCopies(w) /\ SetCopies(w)' = SetCopies(w)
  BY ListKept, SetKept
<1>4. \A x \in Copies(w)' : x[1] = "msg" => x \in MsgCopies(w)'
  BY CopiesApart DEF Copies
<1> QED
  BY <1>1, <1>2, <1>3, <1>4 DEF Copies

LEMMA PaidEnding ==
  ASSUME TypeOK, TypeOK', NEW d \in Process, Ending(d), NEW w \in Body,
         NEW Q, IsFiniteSet(Q), Paid(Copies(w), Q, attempts[w])
  PROVE  Paid(Copies(w)', Q, attempts'[w])
<1> DEFINE p == <<"msg", d, Tries(d)>>
<1>1. /\ delivery[d] = "send" /\ msg[d] \in Envelope /\ msg[d].body \in Body
      /\ attempts' = attempts \/ attempts' = [attempts EXCEPT ![msg[d].body] = @ + 1]
      /\ attempts[w] \in Nat /\ msg[d] # NoEnvelope
  BY EndingEnds, DelivererAssumption DEF TypeOK
<1>2. /\ Copies(w)' \subseteq Copies(w)
      /\ \A x \in Copies(w)' : x[1] = "msg" => x[2] # d
  <2>1. \A c \in Process : c # d => delivery'[c] = delivery[c]
    <3>1. delivery' \in {[delivery EXCEPT ![d] = "poll"], [delivery EXCEPT ![d] = "dead"]}
      BY EndingEnds
    <3> QED
      BY <3>1 DEF TypeOK
  <2>2. /\ UNCHANGED <<outbound, retry>> /\ msg' = [msg EXCEPT ![d] = NoEnvelope]
        /\ \A c \in Process : row'[c] \in {row[c], NoEnvelope}
    BY EndingEnds
  <2> QED
    BY <2>1, <2>2, PaidLetsGo
<1>3. CASE attempts'[w] = attempts[w]
  BY <1>1, <1>2, <1>3, CopiesLevels, PaidFewer
<1>4. CASE attempts'[w] # attempts[w]
  <2>1. msg[d].body = w /\ attempts'[w] = attempts[w] + 1
    BY <1>1, <1>4 DEF TypeOK
  <2>2. p \in Copies(w) /\ p[3] <= MaxRetries
    BY <1>1, <2>1 DEF Copies, MsgCopies, InMsg, Tries, Envelope
  <2>3. Copies(w)' \subseteq (Copies(w) \ {p}) \union {NoCopy}
    BY <1>2
  <2>4. p[3] < NoCopy[3]
    BY <2>2, CopiesLevels DEF Levels, NoCopy, MaxRetries
  <2> HIDE DEF p
  <2> QED
    BY <1>1, <2>1, <2>2, <2>3, <2>4, CopiesLevels, PaidAttempt
<1> QED
  BY <1>3, <1>4

\* A step that moves nothing and attempts nothing.
LEMMA PaidStays ==
  ASSUME TypeOK, UNCHANGED <<outbound, msg, row, attempts>>, NEW w \in Body,
         \A e \in Envelope : retry'[e] = "absent" <=> retry[e] = "absent",
         \A d \in Process : msg[d] # NoEnvelope => delivery'[d] = delivery[d],
         NEW Q, Paid(Copies(w), Q, attempts[w])
  PROVE  Paid(Copies(w)', Q, attempts'[w])
<1>1. InMsg(w)' = InMsg(w) /\ \A d \in InMsg(w) : Tries(d)' = Tries(d)
  BY DEF InMsg, Tries
<1>2. Copies(w)' = Copies(w)
  BY <1>1, ListKept, SetKept, RowsKept DEF Copies, MsgCopies
<1> QED
  BY <1>2


\* The service, as long as Redis answers.
LEMMA PaidService ==
  ASSUME TypeOK, TypeOK', Service, faults' = 0
  PROVE  /\ faults = 0
         /\ \A w \in Body : \A Q :
              IsFiniteSet(Q) /\ Paid(Copies(w), Q, attempts[w])
                => Paid(Copies(w)', Q, attempts'[w])
<1>1. faults = 0
  BY QuietSoFar DEF Next
<1>2. ~ \E d \in Process : LostAnswer(d)
  BY <1>1 DEF LostAnswer, PollError, AddRetryError, TakeError, PushBackError, Fault
<1> SUFFICES ASSUME NEW w \in Body, NEW Q, IsFiniteSet(Q), Paid(Copies(w), Q, attempts[w])
             PROVE  Paid(Copies(w)', Q, attempts'[w])
  BY <1>1
<1>3. ASSUME NEW d \in Process, Scan(d) \/ Skip(d)
      PROVE  Paid(Copies(w)', Q, attempts'[w])
  <2>1. UNCHANGED <<outbound, retry, delivery, msg, row, attempts>>
    BY <1>3 DEF Scan, Skip
  <2> QED
    BY <2>1, PaidStays
<1>4. ASSUME NEW d \in Process, Restart(d)
      PROVE  Paid(Copies(w)', Q, attempts'[w])
  <2>1. UNCHANGED <<outbound, retry, msg, row, attempts>>
    BY <1>4 DEF Restart
  <2>2. \A c \in Process : msg[c] # NoEnvelope => delivery'[c] = delivery[c]
    <3>1. msg[d] = NoEnvelope /\ delivery' = [delivery EXCEPT ![d] = "poll"]
      BY <1>4 DEF Restart, Up, TypeOK, Coherent
    <3> QED
      BY <3>1 DEF TypeOK
  <2> QED
    BY <2>1, <2>2, PaidStays
<1>5. ASSUME NEW e \in Envelope, Ripen(e)
      PROVE  Paid(Copies(w)', Q, attempts'[w])
  <2>1. UNCHANGED <<outbound, delivery, msg, row, attempts>>
    BY <1>5 DEF Ripen, perProcess
  <2>2. \A f \in Envelope : retry'[f] = "absent" <=> retry[f] = "absent"
    BY <1>5 DEF Ripen, TypeOK
  <2> QED
    BY <2>1, <2>2, PaidStays
<1>6. ASSUME NEW d \in Process, Crash(d)
      PROVE  Paid(Copies(w)', Q, attempts'[w])
  <2>1. \A c \in Process : c # d => delivery'[c] = delivery[c]
    BY <1>6, CrashLetsGo DEF TypeOK
  <2>2. Copies(w)' \subseteq Copies(w) /\ attempts'[w] = attempts[w] /\ attempts[w] \in Nat
    <3>1. /\ UNCHANGED <<outbound, retry, attempts>> /\ msg' = [msg EXCEPT ![d] = NoEnvelope]
          /\ \A c \in Process : row'[c] \in {row[c], NoEnvelope}
      BY <1>6, CrashLetsGo
    <3>2. Copies(w)' \subseteq Copies(w)
      BY <2>1, <3>1, PaidLetsGo
    <3> QED
      BY <3>1, <3>2 DEF TypeOK
  <2> QED
    BY <2>2, CopiesLevels, PaidFewer
<1>7. ASSUME NEW d \in Process, DeliveryStep(d)
      PROVE  Paid(Copies(w)', Q, attempts'[w])
  <2>1. CASE Poll(d)
    BY <2>1, PaidPoll
  <2>2. CASE AddRetry(d)
    BY <2>2, PaidAddRetry
  <2>3. CASE PostFails(d) /\ MayRetry(msg[d])
    BY <2>3, PaidPostFails
  <2>4. CASE Ending(d)
    BY <2>4, PaidEnding
  <2> QED
    BY <1>7, <2>1, <2>2, <2>3, <2>4 DEF DeliveryStep, Ending
<1>8. ASSUME NEW d \in Process, Take(d) \/ PushBack(d)
      PROVE  Paid(Copies(w)', Q, attempts'[w])
  BY <1>8, PaidTake, PaidPushBack
<1> QED
  BY <1>2, <1>3, <1>4, <1>5, <1>6, <1>7, <1>8 DEF Service, RetriesStep

LEMMA PayersFinite ==
  ASSUME NEW w \in Webhook
  PROVE  IsFiniteSet(Payers(w)) /\ IsFiniteSet(Payers(w))'
<1>1. IsFiniteSet({w[1]} \X (1 .. 9))
  <2>1. IsFiniteSet({w[1]})
    BY FS_Singleton
  <2>2. 1 \in Int /\ 9 \in Int
    OBVIOUS
  <2>3. IsFiniteSet(1 .. 9)
    BY <2>2, FS_Interval
  <2> QED
    BY <2>1, <2>3, FS_Product
<1>2. Payers(w) \in SUBSET ({w[1]} \X (1 .. 9)) /\ Payers(w)' \in SUBSET ({w[1]} \X (1 .. 9))
  BY DEF Payers, Call
<1> QED
  BY <1>1, <1>2, FS_Subset

\* One more message on the list, from one more call.
LEMMA PaidPushed ==
  ASSUME EventsTypeOK, EventsTypeOK', NEW c \in Call, PushWebhook(c), AllPaid
  PROVE  AllPaid'
<1> SUFFICES ASSUME NEW w \in Webhook
             PROVE  Paid(Copies(w)', Payers(w)', attempts'[w])
  BY DEF AllPaid
<1> DEFINE v == Message(c)
           e == [body |-> v, retries |-> 0]
           last == Len(outbound) + 1
           q == <<"list", last, 0>>
<1>1. /\ v \in Body /\ v = <<c[1], queued[c] + 1>> /\ e \in Envelope
      /\ w \in Body /\ w = <<w[1], w[2]>> /\ w[2] \in Nat
      /\ outbound \in Seq(Envelope) /\ outbound' = Append(outbound, e)
      /\ queued' = [queued EXCEPT ![c] = queued[c] + 1]
      /\ UNCHANGED <<retry, delivery, msg, row, attempts>> /\ attempts[w] \in Nat
  BY MessageType, EnvelopeType, UrlsLength, WebhooksAssumption
  DEF PushWebhook, Pushed, Message, Turn, perProcess, EventsTypeOK, TypeOK, Webhook
<1>2. queued \in [Call -> Nat]
  BY UrlsLength DEF EventsTypeOK, AgentOK
<1>3. TypeOK /\ TypeOK'
  BY DEF EventsTypeOK
<1>4. Paid(Copies(w), Payers(w), attempts[w]) /\ IsFiniteSet(Payers(w))
  BY PayersFinite DEF AllPaid
<1> HIDE DEF v, e
<1>5. /\ DOMAIN outbound' = DOMAIN outbound \union {last}
      /\ \A i \in DOMAIN outbound : outbound'[i] = outbound[i]
      /\ outbound'[last] = e /\ last \notin DOMAIN outbound
  BY <1>1, PushShape
<1>6. /\ SetCopies(w)' = SetCopies(w) /\ MsgCopies(w)' = MsgCopies(w)
      /\ RowCopies(w)' = RowCopies(w)
  BY <1>1, SetKept, RowsKept DEF MsgCopies, InMsg, Tries
<1>7. e.body = v /\ e.retries = 0
  BY DEF e
<1>8. CASE w # v
  <2>1. InList(w)' = InList(w)
    BY <1>5, <1>7, <1>8 DEF InList
  <2>2. ListCopies(w)' = ListCopies(w)
    BY <1>5, <2>1 DEF ListCopies, InList
  <2>3. Copies(w)' = Copies(w)
    BY <1>6, <2>2 DEF Copies
  <2>4. Payers(w)' = Payers(w)
    <3>1. \A k \in Call : k[1] = w[1] => (queued'[k] >= w[2] <=> queued[k] >= w[2])
      <4> SUFFICES ASSUME NEW k \in Call, k[1] = w[1]
                   PROVE  queued'[k] >= w[2] <=> queued[k] >= w[2]
        OBVIOUS
      <4>1. CASE k # c
        BY <1>1, <1>2, <4>1
      <4>2. CASE k = c
        <5>1. queued'[c] = queued[c] + 1 /\ queued[c] \in Nat
          BY <1>1, <1>2
        <5>2. w[2] # queued[c] + 1
          BY <1>1, <1>8, <4>2
        <5> QED
          BY <1>1, <4>2, <5>1, <5>2
      <4> QED
        BY <4>1, <4>2
    <3> QED
      BY <3>1 DEF Payers
  <2> QED
    BY <1>1, <1>4, <2>3, <2>4
<1>9. CASE w = v
  <2>1. InList(w)' = InList(w) \union {last}
    BY <1>5, <1>7, <1>9 DEF InList
  <2>2. ListCopies(w)' = ListCopies(w) \union {q}
    <3>1. \A i \in InList(w) : outbound'[i].retries = outbound[i].retries
      BY <1>5 DEF InList
    <3>2. outbound'[last].retries = 0
      BY <1>5, <1>7
    <3> QED
      BY <2>1, <3>1, <3>2 DEF ListCopies
  <2>3. Copies(w)' = Copies(w) \union {q}
    BY <1>6, <2>2 DEF Copies
  <2>4. w[1] = c[1] /\ w[2] = queued[c] + 1
    BY <1>1, <1>9
  <2>5. c \notin Payers(w)
    BY <1>2, <2>4 DEF Payers
  <2>6. Payers(w)' = Payers(w) \union {c}
    <3>1. \A k \in Call : k # c => queued'[k] = queued[k]
      BY <1>1, <1>2
    <3>2. queued'[c] >= w[2]
      BY <1>1, <1>2, <2>4
    <3> QED
      BY <2>4, <3>1, <3>2 DEF Payers
  <2>7. Levels(Copies(w)) /\ Levels(Copies(w)') /\ attempts'[w] = attempts[w]
    BY <1>1, <1>3, CopiesLevels
  <2> HIDE DEF q
  <2>8. Paid(Copies(w)', Payers(w) \union {c}, attempts[w])
    BY <1>1, <1>4, <2>3, <2>5, <2>7, PaidPush
  <2> QED
    BY <2>6, <2>7, <2>8
<1> QED
  BY <1>8, <1>9

LEMMA AllPaidStep ==
  ASSUME EventsTypeOK, EventsTypeOK', [EventsNext]_allVars, faults = 0 => AllPaid
  PROVE  faults' = 0 => AllPaid'
<1> SUFFICES ASSUME faults' = 0
             PROVE  AllPaid'
  OBVIOUS
<1>1. ~ Fault
  BY DEF Fault, EventsTypeOK, TypeOK
<1>2. ASSUME UNCHANGED <<vars, queued>>
      PROVE  AllPaid'
  <2>1. \A w \in Webhook : /\ Copies(w)' = Copies(w) /\ Payers(w)' = Payers(w)
                           /\ attempts'[w] = attempts[w]
    BY <1>2 DEF vars, perProcess, Copies, ListCopies, SetCopies, MsgCopies, RowCopies,
       InList, InSet, InMsg, InRow, Tries, Payers
  <2>2. faults = 0
    BY <1>2 DEF vars
  <2> QED
    BY <2>1, <2>2 DEF AllPaid
<1>3. ASSUME Service, UNCHANGED eventVars
      PROVE  AllPaid'
  <2>1. TypeOK /\ TypeOK' /\ Body = Webhook
    BY WebhooksAssumption DEF EventsTypeOK
  <2>2. \A w \in Webhook : Payers(w)' = Payers(w)
    BY <1>3 DEF Payers, eventVars
  <2>3. faults = 0
    BY <1>3, <2>1, PaidService
  <2>4. \A w \in Webhook : Paid(Copies(w)', Payers(w), attempts'[w])
    BY <1>3, <2>1, <2>3, PaidService, PayersFinite DEF AllPaid
  <2> QED
    BY <2>2, <2>4 DEF AllPaid
<1>4. ASSUME NEW c \in Call, PushWebhook(c)
      PROVE  AllPaid'
  BY <1>4, PaidPushed DEF PushWebhook
<1>5. ASSUME NEW c \in Call, HandleEvent(c) \/ Setup(c) \/ PushEvent(c) \/ Reject(c)
      PROVE  UNCHANGED <<vars, queued>>
  BY <1>5 DEF HandleEvent, Setup, PushEvent, Reject
<1>6. ASSUME NEW c \in Call, HandlingFails(c)
      PROVE  Reject(c)
  BY <1>1, <1>6 DEF HandlingFails, SetupError, PushEventError, PushWebhookError
<1>7. Startup \/ AgentStops \/ UNCHANGED allVars => UNCHANGED <<vars, queued>>
  BY DEF Startup, AgentStops, allVars, eventVars
<1> QED
  BY <1>2, <1>3, <1>4, <1>5, <1>6, <1>7 DEF EventsNext, Handling

LEMMA AllPaidInit == EventsInit => AllPaid
<1> SUFFICES ASSUME EventsInit, NEW w \in Webhook
             PROVE  Paid(Copies(w), Payers(w), attempts[w])
  BY DEF AllPaid
<1>1. Copies(w) = {} /\ attempts[w] = 0
  BY WebhooksAssumption DEF EventsInit, Init, Copies, ListCopies, SetCopies, MsgCopies,
     RowCopies, InList, InSet, InMsg, InRow
<1> DEFINE at == [c \in Payers(w) |-> NoCopy]
<1>2. at \in [Payers(w) -> {} \union {NoCopy}]
  OBVIOUS
<1>3. \A c \in Payers(w) : at[c][3] \in Nat
  BY DEF NoCopy, MaxRetries
<1> HIDE DEF at
<1>4. Cardinality(Spent(Payers(w), at)) \in Nat
  BY <1>3, PayersFinite, SpentGrows
<1> QED
  BY <1>1, <1>2, <1>4 DEF Paid

\* However often an event is announced, and however the copies of a message meet
\* in the retry set: as long as Redis answers, no more attempts are made than six
\* for each call that queued it.
THEOREM AttemptsAreBounded == EventsSpec => []AttemptsBounded
<1> DEFINE IInv == faults = 0 => AllPaid
<1>1. EventsInit => IInv
  BY AllPaidInit
<1>2. EventsTypeOK /\ EventsTypeOK' /\ IInv /\ [EventsNext]_allVars => IInv'
  BY AllPaidStep
<1>3. EventsTypeOK /\ IInv => AttemptsBounded
  <2> SUFFICES ASSUME EventsTypeOK, IInv, faults = 0, NEW w \in Webhook
               PROVE  attempts[w] <= (MaxRetries + 1) * Cardinality(Payers(w))
    BY DEF AttemptsBounded, Payers
  <2>1. attempts[w] \in Nat
    BY WebhooksAssumption DEF EventsTypeOK, TypeOK
  <2> QED
    BY <2>1, PayersFinite, PaidBound DEF AllPaid
<1> QED
  BY <1>1, <1>2, <1>3, EventsTypeCorrect, PTL DEF EventsSpec
=============================================================================
