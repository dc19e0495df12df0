------------------------------ MODULE Deliverer ------------------------------
(***************************************************************************)
(* redis_deliverer/deliver/deliver.py: any number of delivery processes on *)
(* one outbound list and one retry set.  Each runs two coroutines:         *)
(* process_delivery pops a message and posts it, or puts it in the retry   *)
(* set; process_retries moves messages whose time has come back to the     *)
(* list.  One action is one Redis command or one attempt, with the local   *)
(* code up to the next one.                                                *)
(***************************************************************************)
EXTENDS Integers, Sequences, FiniteSets

CONSTANTS
  Body,        \* outbound messages: endpoint, payload and headers
  Scheme,      \* the scheme of each message's endpoint
  NullHeader,  \* messages with a header whose value is null
  Process,     \* the delivery processes
  NoEnvelope,
  Status,      \* TRUE: the status endpoints are served
  Page,        \* num of ZRANGEBYSCORE: 10 in the code
  MaxFaults,   \* bound: Redis answers lost
  MaxCrashes   \* bound: processes killed

\* retries < 5 in process_delivery.
MaxRetries == 5

Envelope == [body : Body, retries : 0 .. MaxRetries]

ASSUME DelivererAssumption ==
  /\ Scheme \in [Body -> {"http", "ws", "other"}]
  /\ NullHeader \subseteq Body
  /\ NoEnvelope \notin Envelope
  /\ Status \in BOOLEAN
  /\ Page \in Nat \ {0}
  /\ MaxFaults \in Nat
  /\ MaxCrashes \in Nat

VARIABLES
  outbound,  \* the Redis list
  retry,     \* the sorted set: absent, waiting for its score, or due
  delivery,  \* per process, where process_delivery is
  msg,       \* per process, the envelope it delivers
  retries,   \* per process, where process_retries is
  rows,      \* per process, the members it has still to remove
  row,       \* per process, the member it removed and must push
  attempts,  \* per message, the attempts made
  outcome,   \* per message, what the log says
  faults, crashes

perProcess == <<delivery, msg, retries, rows, row>>
vars == <<outbound, retry, perProcess, attempts, outcome, faults, crashes>>

Init ==
  /\ outbound = <<>>
  /\ retry = [e \in Envelope |-> "absent"]
  /\ delivery = [d \in Process |-> "poll"]
  /\ msg = [d \in Process |-> NoEnvelope]
  /\ retries = [d \in Process |-> "scan"]
  /\ rows = [d \in Process |-> {}]
  /\ row = [d \in Process |-> NoEnvelope]
  /\ attempts = [b \in Body |-> 0]
  /\ outcome = [b \in Body |-> "new"]
  /\ faults = 0
  /\ crashes = 0

Fault == faults < MaxFaults /\ faults' = faults + 1

-----------------------------------------------------------------------------
(* RPUSH to the outbound list, here from RedisOutboundQueue.handle_message of *)
(* redis_queue/v1_0/outbound.py                                               *)

Pushed(b) == outbound' = Append(outbound, [body |-> b, retries |-> 0])
Opened(b) == outcome' = [outcome EXCEPT ![b] = IF @ = "new" THEN "open" ELSE @]

Submit(b) ==
  /\ outcome[b] = "new"
  /\ Pushed(b) /\ Opened(b)
  /\ UNCHANGED <<retry, perProcess, attempts, faults, crashes>>

\* The push raises and was not applied: the error is logged, and the agent does
\* not try again.  One that was applied and raises is a Submit.
SubmitError(b) ==
  /\ outcome[b] = "new"
  /\ outcome' = [outcome EXCEPT ![b] = "dropped"]
  /\ UNCHANGED <<outbound, retry, perProcess, attempts, faults, crashes>>

-----------------------------------------------------------------------------
(* process_delivery *)

\* BLPOP.
Poll(d) ==
  /\ delivery[d] = "poll"
  /\ outbound # <<>>
  /\ msg' = [msg EXCEPT ![d] = Head(outbound)]
  /\ outbound' = Tail(outbound)
  /\ delivery' = [delivery EXCEPT ![d] = "send"]
  /\ UNCHANGED <<retry, retries, rows, row, attempts, outcome, faults, crashes>>

\* BLPOP popped the head and its answer was lost: the coroutine pops again.
PollError(d) ==
  /\ delivery[d] = "poll"
  /\ outbound # <<>>
  /\ Fault
  /\ outbound' = Tail(outbound)
  /\ UNCHANGED <<retry, perProcess, attempts, outcome, crashes>>

\* The coroutine sends the envelope in hand, of the given scheme.
Sending(d, scheme) == delivery[d] = "send" /\ Scheme[msg[d].body] = scheme

\* It is done with the envelope in hand.
Finish(d) ==
  /\ delivery' = [delivery EXCEPT ![d] = "poll"]
  /\ msg' = [msg EXCEPT ![d] = NoEnvelope]

Attempt(b) == attempts' = [attempts EXCEPT ![b] = @ + 1]
Log(b, o) == outcome' = [outcome EXCEPT ![b] = o]

\* The endpoint, http or ws, takes the message.
Deliver(d) ==
  LET b == msg[d].body IN
  /\ Sending(d, "http") \/ Sending(d, "ws")
  /\ b \notin NullHeader
  /\ Attempt(b)
  /\ Log(b, "sent")
  /\ Finish(d)
  /\ UNCHANGED <<outbound, retry, retries, rows, row, faults, crashes>>

\* A failed post is to be retried, or is given up.
MayRetry_OneMore(e) == e.retries <= MaxRetries
MayRetry_OneLess(e) == e.retries < MaxRetries - 1
MayRetry(e) == e.retries < MaxRetries

\* No answer in time, a client error, or a status outside 2xx: the endpoint may
\* have the message all the same.
PostFails(d) ==
  LET b == msg[d].body IN
  /\ Sending(d, "http")
  /\ Attempt(b)
  /\ IF MayRetry(msg[d])
     THEN /\ delivery' = [delivery EXCEPT ![d] = "zadd"]
          /\ UNCHANGED <<msg, outcome>>
     ELSE Log(b, "givenUp") /\ Finish(d)
  /\ UNCHANGED <<outbound, retry, retries, rows, row, faults, crashes>>

StopDelivery(d) ==
  /\ delivery' = [delivery EXCEPT ![d] = "dead"]
  /\ msg' = [msg EXCEPT ![d] = NoEnvelope]
StopRetries(d) ==
  /\ retries' = [retries EXCEPT ![d] = "dead"]
  /\ rows' = [rows EXCEPT ![d] = {}]
  /\ row' = [row EXCEPT ![d] = NoEnvelope]

\* main ends with a coroutine that raises, unless it sits inside the status
\* server (nest_asyncio), where the other coroutine goes on.
EndMain_Always(d) == StopRetries(d)
EndMain(d) ==
  IF Status THEN UNCHANGED <<retries, rows, row>> ELSE StopRetries(d)

\* process_delivery ends with what it does not catch: any exception of a
\* websocket, and the TypeError of aiohttp when it writes a null header.
Uncaught(d) ==
  /\ \/ Sending(d, "ws")
     \/ Sending(d, "http") /\ msg[d].body \in NullHeader
  /\ Attempt(msg[d].body)
  /\ StopDelivery(d)
  /\ EndMain(d)
  /\ UNCHANGED <<outbound, retry, outcome, faults, crashes>>

\* Any other scheme, wss among them, is logged as unsupported.
Unsupported(d) ==
  /\ Sending(d, "other")
  /\ Finish(d)
  /\ UNCHANGED <<outbound, retry, retries, rows, row, attempts, outcome, faults,
                 crashes>>

\* add_retry: ZADD with a score 5^(1 + (retries - 1) / 4) seconds ahead.
Retried_Same(e) == e
Retried(e) == [e EXCEPT !.retries = @ + 1]

AddRetry(d) ==
  /\ delivery[d] = "zadd"
  /\ retry' = [retry EXCEPT ![Retried(msg[d])] = "waiting"]
  /\ Finish(d)
  /\ UNCHANGED <<outbound, retries, rows, row, attempts, outcome, faults, crashes>>

\* ZADD was applied and its answer was lost: it is sent again.
AddRetryError(d) ==
  /\ delivery[d] = "zadd"
  /\ Fault
  /\ retry' = [retry EXCEPT ![Retried(msg[d])] = "waiting"]
  /\ UNCHANGED <<outbound, perProcess, attempts, outcome, crashes>>

-----------------------------------------------------------------------------
(* process_retries *)

Due_All == {e \in Envelope : retry[e] # "absent"}
Due == {e \in Envelope : retry[e] = "due"}

\* ZRANGEBYSCORE from 0 to now, at most Page members.
Scan(d) ==
  /\ retries[d] = "scan"
  /\ \E found \in SUBSET Due \ {{}} :
       /\ \/ Cardinality(found) = Page
          \/ Cardinality(found) < Page /\ found = Due
       /\ rows' = [rows EXCEPT ![d] = found]
  /\ retries' = [retries EXCEPT ![d] = "zrem"]
  /\ UNCHANGED <<outbound, retry, delivery, msg, row, attempts, outcome, faults,
                 crashes>>

\* The coroutine goes on with the rows left.
NextRow_NoScan(d, left) ==
  /\ rows' = [rows EXCEPT ![d] = left]
  /\ retries' = [retries EXCEPT ![d] = "zrem"]
NextRow(d, left) ==
  /\ rows' = [rows EXCEPT ![d] = left]
  /\ retries' = [retries EXCEPT ![d] = IF left = {} THEN "scan" ELSE "zrem"]

\* ZREM returns 1: the member was there.
Removed_Always(e) == TRUE
Removed(e) == retry[e] # "absent"

\* It returns 0: the message was removed by another process.
Skip(d) ==
  /\ retries[d] = "zrem"
  /\ \E e \in rows[d] : ~Removed(e) /\ NextRow(d, rows[d] \ {e})
  /\ UNCHANGED <<outbound, retry, delivery, msg, row, attempts, outcome, faults,
                 crashes>>

Take(d) ==
  /\ retries[d] = "zrem"
  /\ \E e \in rows[d] :
       /\ Removed(e)
       /\ retry' = [retry EXCEPT ![e] = "absent"]
       /\ rows' = [rows EXCEPT ![d] = @ \ {e}]
       /\ row' = [row EXCEPT ![d] = e]
  /\ retries' = [retries EXCEPT ![d] = "rpush"]
  /\ UNCHANGED <<outbound, delivery, msg, attempts, outcome, faults, crashes>>

\* ZREM removed the member and its answer was lost: it is sent again.
TakeError(d) ==
  /\ retries[d] = "zrem"
  /\ Fault
  /\ \E e \in rows[d] : Removed(e) /\ retry' = [retry EXCEPT ![e] = "absent"]
  /\ UNCHANGED <<outbound, perProcess, attempts, outcome, crashes>>

\* RPUSH to the outbound list.
PushBack(d) ==
  /\ retries[d] = "rpush"
  /\ outbound' = Append(outbound, row[d])
  /\ row' = [row EXCEPT ![d] = NoEnvelope]
  /\ NextRow(d, rows[d])
  /\ UNCHANGED <<retry, delivery, msg, attempts, outcome, faults, crashes>>

\* RPUSH was applied and its answer was lost: it is sent again.
PushBackError(d) ==
  /\ retries[d] = "rpush"
  /\ Fault
  /\ outbound' = Append(outbound, row[d])
  /\ UNCHANGED <<retry, perProcess, attempts, outcome, crashes>>

-----------------------------------------------------------------------------
(* The environment *)

\* The score of a member of the retry set passes.
Ripen(e) ==
  /\ retry[e] = "waiting"
  /\ retry' = [retry EXCEPT ![e] = "due"]
  /\ UNCHANGED <<outbound, perProcess, attempts, outcome, faults, crashes>>

\* The process is up; Deliverer.running is then TRUE.
Up(d) == retries[d] # "dead"

\* A process is killed: what its coroutines hold is gone.
Crash(d) ==
  /\ Up(d)
  /\ crashes < MaxCrashes
  /\ crashes' = crashes + 1
  /\ StopDelivery(d) /\ StopRetries(d)
  /\ UNCHANGED <<outbound, retry, attempts, outcome, faults>>

\* main and run of a process that is started again.
Restart(d) ==
  /\ ~Up(d)
  /\ delivery' = [delivery EXCEPT ![d] = "poll"]
  /\ retries' = [retries EXCEPT ![d] = "scan"]
  /\ UNCHANGED <<outbound, retry, msg, rows, row, attempts, outcome, faults,
                 crashes>>

-----------------------------------------------------------------------------

DeliveryStep(d) ==
  \/ Poll(d) \/ Deliver(d) \/ PostFails(d) \/ Uncaught(d) \/ Unsupported(d)
  \/ AddRetry(d)

RetriesStep(d) == Scan(d) \/ Skip(d) \/ Take(d) \/ PushBack(d)

LostAnswer(d) ==
  PollError(d) \/ AddRetryError(d) \/ TakeError(d) \/ PushBackError(d)

Service ==
  \/ \E d \in Process :
       DeliveryStep(d) \/ RetriesStep(d) \/ LostAnswer(d) \/ Crash(d) \/ Restart(d)
  \/ \E e \in Envelope : Ripen(e)

Next == Service \/ \E b \in Body : Submit(b) \/ SubmitError(b)

Spec == Init /\ [][Next]_vars

(* The coroutines run, an attempt ends in one way or another, time passes, and *)
(* a process that stopped is started again.                                    *)
Fairness ==
  /\ \A d \in Process :
       WF_vars(DeliveryStep(d)) /\ WF_vars(RetriesStep(d)) /\ WF_vars(Restart(d))
  /\ WF_vars(\E e \in Envelope : Ripen(e))

-----------------------------------------------------------------------------
(* Properties *)

\* What the two coroutines of a process hold.
Coherent(d) ==
  /\ msg[d] \in Envelope <=> delivery[d] \in {"send", "zadd"}
  /\ delivery[d] = "zadd" => msg[d].retries < MaxRetries
  /\ row[d] \in Envelope <=> retries[d] = "rpush"
  /\ retries[d] = "dead" => delivery[d] = "dead"

TypeOK ==
  /\ outbound \in Seq(Envelope)
  /\ retry \in [Envelope -> {"absent", "waiting", "due"}]
  /\ delivery \in [Process -> {"poll", "send", "zadd", "dead"}]
  /\ msg \in [Process -> Envelope \union {NoEnvelope}]
  /\ retries \in [Process -> {"scan", "zrem", "rpush", "dead"}]
  /\ rows \in [Process -> SUBSET Envelope]
  /\ row \in [Process -> Envelope \union {NoEnvelope}]
  /\ attempts \in [Body -> Nat]
  /\ outcome \in [Body -> {"new", "open", "dropped", "sent", "givenUp"}]
  /\ faults \in Nat
  /\ crashes \in Nat
  /\ \A d \in Process : Coherent(d)

\* Where a message is: in the list, in the retry set, or with a process.
Places(b) ==
  {<<"list", i>> : i \in {i \in DOMAIN outbound : outbound[i].body = b}}
  \union {<<"set", e.retries>> : e \in
            {e \in Envelope : e.body = b /\ retry[e] # "absent"}}
  \union {<<"msg", d>> : d \in
            {d \in Process : msg[d] # NoEnvelope /\ msg[d].body = b}}
  \union {<<"row", d>> : d \in
            {d \in Process : row[d] # NoEnvelope /\ row[d].body = b}}

\* As long as Redis answers, ZREM hands a due message to one process only: a
\* message is in one place while it is open and in none once it is settled,
\* whatever processes scan the same rows or crash.
SingleCopy ==
  \A b \in Body :
    /\ \A p, q \in Places(b) : p = q
    /\ Places(b) # {} => outcome[b] = "open"

\* While no process is killed, no message for an http endpoint is lost between
\* the list, the retry set and the coroutines, not even when another message
\* ends a delivery coroutine inside the status server.
NothingLost ==
  crashes = 0 => \A b \in Body \ NullHeader :
    Scheme[b] = "http" /\ outcome[b] = "open" => Places(b) # {}

\* A message is given up only after six attempts, even when lost answers or
\* crashes multiply it or lose it.
GivenUpAfterAllAttempts ==
  \A b \in Body : outcome[b] = "givenUp" => attempts[b] >= MaxRetries + 1

\* A message in the retry set stays there until its time has come, although
\* the rows a process removes were read earlier.
RetriesWaitTheirTime ==
  [][\A e \in Envelope : retry[e] = "waiting" => retry'[e] # "absent"]_vars

\* What has become of each message.
Fate ==
  [b \in Body |-> IF outcome[b] = "open" /\ Places(b) = {} THEN "lost" ELSE outcome[b]]

\* One attempt after the other, six at most, none after the message is settled.
Contract == INSTANCE DeliveryContract WITH
  MaxAttempts <- MaxRetries + 1, status <- Fate

ImplementsContract == Contract!Spec

\* No copy of a message for an http endpoint goes round for ever, or stays in
\* the list, in the retry set or with a coroutine: whichever answers are lost,
\* and although processes end with what they do not catch and are started again.
EveryCopyLeaves ==
  \A b \in {c \in Body : Scheme[c] = "http"} : Places(b) # {} ~> Places(b) = {}

(* What the source says of itself, and does not do.                         *)

\* deliver.py:54, "Check if delivery service agent is running properly": a
\* process that reports it is running delivers messages.
RunningMeansDelivering == \A d \in Process : Up(d) => delivery[d] # "dead"
=============================================================================
