------------------------------ MODULE Webhooks ------------------------------
(***************************************************************************)
(* redis_queue/v1_0/events: every event of the agent is pushed to a list   *)
(* of its own and, if configured, once per endpoint of admin.webhook_urls  *)
(* to the outbound list, from which the processes of module Deliverer post *)
(* it.  The event bus of ACA-Py (external) calls handle_event once for     *)
(* each subscribed pattern an event matches, one call after the other, and *)
(* drops the exceptions of a call; different events are handled            *)
(* concurrently.  The outbound list holds nothing but webhooks here.       *)
(***************************************************************************)
EXTENDS Deliverer

CONSTANTS
  Event,    \* events for which a pattern is subscribed
  Matches,  \* the number of patterns that match each
  Urls,     \* admin.webhook_urls: the scheme of each, and whether a #key follows
  Setting   \* values that deliver_webhook may have in the plugin's configuration

Endpoint == DOMAIN Urls
Call == {c \in Event \X (1 .. 9) : c[2] <= Matches[c[1]]}

\* All calls for an event queue the same messages.
Webhook == Event \X Endpoint

\* if not api_key: headers["x-api-key"] = api_key
Unkeyed == {w \in Webhook : ~Urls[w[2]].key}

ASSUME WebhooksAssumption ==
  /\ Matches \in [Event -> 1 .. 9]
  /\ Urls \in Seq([scheme : {"http", "ws", "other"}, key : BOOLEAN])
  /\ Body = Webhook
  /\ \A w \in Webhook : Scheme[w] = Urls[w[2]].scheme
  /\ NullHeader = Unkeyed
  /\ Setting \subseteq {"absent", "null", "true", "false"}

VARIABLES
  agent,     \* "starting", or whether its profile has a RedisCluster bound
  deliver,   \* deliver_webhook of the EventConfig
  call,      \* per call of handle_event, the next Redis command it sends
  queued,    \* per call, the endpoints it has queued its event for
  recorded   \* calls whose event is on the list of their pattern

eventVars == <<agent, deliver, call, queued, recorded>>
allVars == <<vars, eventVars>>

\* get_config: null (NoneDefaultModel), an absent field and an absent section
\* stand for the default.
DeliverWebhook(s) == s # "false"

EventsInit ==
  /\ Init
  /\ agent = "starting"
  /\ deliver \in {DeliverWebhook(s) : s \in Setting}
  /\ call = [c \in Call |-> "idle"]
  /\ queued = [c \in Call |-> 0]
  /\ recorded = {}

Goto(c, p) == call' = [call EXCEPT ![c] = p]

-----------------------------------------------------------------------------
(* redis_setup *)

\* on_startup; the bus drops the TransportError of a Redis that is not there.
Startup ==
  /\ agent = "starting"
  /\ agent' \in {"bound", "unbound"}
  /\ UNCHANGED <<vars, deliver, call, queued, recorded>>

Setup(c) ==
  /\ call[c] = "setup"
  /\ agent' = "bound"
  /\ Goto(c, "event")
  /\ UNCHANGED <<vars, deliver, queued, recorded>>

\* The TransportError is not caught by handle_event.
SetupError(c) ==
  /\ call[c] = "setup"
  /\ Fault
  /\ Goto(c, "failed")
  /\ UNCHANGED <<outbound, retry, perProcess, attempts, outcome, crashes,
                 agent, deliver, queued, recorded>>

-----------------------------------------------------------------------------
(* handle_event *)

Ended(c) == call[c] \in {"done", "failed"}

\* The bus calls; without a bound RedisCluster the handler connects first.
HandleEvent(c) ==
  /\ agent # "starting"
  /\ call[c] = "idle"
  /\ \A n \in 1 .. c[2] - 1 : Ended(<<c[1], n>>)
  /\ Goto(c, IF agent = "bound" THEN "event" ELSE "setup")
  /\ UNCHANGED <<vars, agent, deliver, queued, recorded>>

\* The payload cannot be decoded, or the template of the topic names a variable
\* that is not there.
Reject(c) ==
  /\ call[c] = "event"
  /\ Goto(c, "failed")
  /\ UNCHANGED <<vars, agent, deliver, queued, recorded>>

\* RPUSH to the list of the pattern.
PushEvent(c) ==
  /\ call[c] = "event"
  /\ recorded' = recorded \union {c}
  /\ Goto(c, IF deliver /\ Urls # <<>> THEN "webhooks" ELSE "done")
  /\ UNCHANGED <<vars, agent, deliver, queued>>

\* The endpoint whose turn it is in the loop, and the message for it.
Turn(c) == queued[c] + 1
Message(c) == <<c[1], Turn(c)>>

\* The loop is over after this endpoint.
Last_TooLate(i) == i > Len(Urls)
Last_OneEarly(i) == i >= Len(Urls) - 1
Last(i) == i = Len(Urls)

\* RPUSH to the outbound list.
PushWebhook(c) ==
  /\ call[c] = "webhooks"
  /\ Pushed(Message(c)) /\ Opened(Message(c))
  /\ queued' = [queued EXCEPT ![c] = Turn(c)]
  /\ Goto(c, IF Last(Turn(c)) THEN "done" ELSE "webhooks")
  /\ UNCHANGED <<retry, perProcess, attempts, faults, crashes,
                 agent, deliver, recorded>>

\* An error of either RPUSH, applied or not, is logged and ends the call: the
\* try statement is around the loop.
OnError_GoesOn == "webhooks"
OnError == "failed"

PushEventError(c) ==
  /\ call[c] = "event"
  /\ Fault
  /\ recorded' \in {recorded, recorded \union {c}}
  /\ Goto(c, OnError)
  /\ UNCHANGED <<outbound, retry, perProcess, attempts, outcome, crashes,
                 agent, deliver, queued>>

PushWebhookError(c) ==
  /\ call[c] = "webhooks"
  /\ Fault
  /\ \/ Pushed(Message(c)) /\ Opened(Message(c))
     \/ UNCHANGED <<outbound, outcome>>
  /\ Goto(c, OnError)
  /\ UNCHANGED <<retry, perProcess, attempts, crashes,
                 agent, deliver, queued, recorded>>

\* The agent is killed: the call under way for an event ends where it is, those
\* still to come for it are not made, and it starts again with a new profile.
\* Without an event left to handle, a kill changes nothing modelled here.
AgentStops ==
  /\ agent # "starting"
  /\ \E c \in Call : ~Ended(c)
  /\ agent' = "starting"
  /\ call' = [c \in Call |->
                IF call[c] = "done" \/ call[<<c[1], 1>>] = "idle"
                THEN call[c] ELSE "failed"]
  /\ UNCHANGED <<vars, deliver, queued, recorded>>

-----------------------------------------------------------------------------

Handling(c) == Setup(c) \/ PushEvent(c) \/ PushWebhook(c)

HandlingFails(c) ==
  SetupError(c) \/ Reject(c) \/ PushEventError(c) \/ PushWebhookError(c)

EventsNext ==
  \/ \E c \in Call : HandleEvent(c) \/ Handling(c) \/ HandlingFails(c)
  \/ Startup \/ AgentStops
  \/ Service /\ UNCHANGED eventVars

EventsSpec == EventsInit /\ [][EventsNext]_allVars

(* The agent resumes a call whose command Redis answered; the processes of the *)
(* delivery service are fair as in module Deliverer.                           *)
EventsFairSpec ==
  EventsSpec /\ Fairness /\ \A c \in Call : WF_allVars(Handling(c))

-----------------------------------------------------------------------------
(* Properties *)

\* Where a call is between its commands: the calls before it are over, one that
\* is about to push has a connection, and one in the loop has an endpoint left.
CallOK(c) ==
  /\ call[c] # "idle" => \A n \in 1 .. c[2] - 1 : Ended(<<c[1], n>>)
  /\ call[c] \in {"idle", "setup", "event"} => queued[c] = 0
  /\ call[c] \in {"event", "webhooks"} => agent = "bound"
  /\ call[c] = "webhooks" => deliver /\ queued[c] < Len(Urls)

AgentOK ==
  /\ agent \in {"starting", "unbound", "bound"}
  /\ deliver \in BOOLEAN
  /\ call \in [Call -> {"idle", "setup", "event", "webhooks", "done", "failed"}]
  /\ queued \in [Call -> 0 .. Len(Urls)]
  /\ recorded \subseteq Call
  /\ \A c \in Call : CallOK(c)

EventsTypeOK == TypeOK /\ AgentOK

\* No endpoint hears of an event before the event is on a list for the
\* controllers, whatever the agent and the delivery processes do in between.
AnnouncedIsRecorded ==
  \A w \in Webhook : attempts[w] > 0 => \E c \in recorded : c[1] = w[1]

\* A call for the event ended without an error, and has webhooks to deliver.
Handled(e) == deliver /\ \E c \in Call : c[1] = e /\ call[c] = "done"

\* What an error or a kill leaves out is a tail of the endpoints, and a call
\* that ends without one leaves out none.
EndpointsInOrder ==
  \A e \in Event, i \in Endpoint :
    /\ outcome[<<e, i>>] # "new" => \A j \in 1 .. i : outcome[<<e, j>>] # "new"
    /\ Handled(e) => outcome[<<e, i>>] # "new"

\* Two patterns queue the same message twice.  Its copies collapse in the retry
\* set or not, but never make more attempts than six each.
AttemptsBounded ==
  faults = 0 =>
    \A w \in Webhook :
      attempts[w] <= (MaxRetries + 1) *
        Cardinality({c \in Call : c[1] = w[1] /\ queued[c] >= w[2]})

Settled(w) == outcome[w] \in {"sent", "givenUp"}
Http == {w \in Webhook : Scheme[w] = "http"}

\* While Redis answers and no delivery process ends, an event that was handled
\* reaches the end of its attempts at every http endpoint with a key.
KeyedWebhooksAreSettled ==
  [](faults = 0 /\ \A d \in Process : delivery[d] # "dead") =>
    \A w \in Http \ NullHeader : Handled(w[1]) ~> Settled(w)

(* What README.md says, and the code does not do.                            *)

\* README.md:182, "When set to true, this will deliver webhooks to endpoints
\* specified in `admin.webhook_urls`".
WebhooksAreDelivered ==
  [](faults = 0 /\ crashes = 0) => \A w \in Http : Handled(w[1]) ~> Settled(w)
=============================================================================
