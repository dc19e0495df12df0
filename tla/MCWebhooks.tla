----------------------------- MODULE MCWebhooks -----------------------------
(* Instances of Webhooks for TLC. *)
EXTENDS Webhooks

CONSTANTS e1, d1

Url(scheme, key) == [scheme |-> scheme, key |-> key]

ThreeUrls == <<Url("other", TRUE), Url("ws", TRUE), Url("http", TRUE)>>
NotKeyed == <<Url("http", FALSE)>>

\* An event that two patterns match, as the acapy::record events do by default.
Once == [e \in Event |-> 1]
Twice == [e \in Event |-> 2]

Schemes == [b \in Webhook |-> Urls[b[2]].scheme]
=============================================================================
