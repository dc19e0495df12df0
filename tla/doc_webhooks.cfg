\* README.md:182 on an endpoint without a key.
SPECIFICATION EventsFairSpec

CONSTANTS
  e1 = e1
  d1 = d1
  Event = {e1}
  Matches <- Once
  Urls <- NotKeyed
  Setting = {"true"}
  Body <- Webhook
  Process = {d1}
  Scheme <- Schemes
  NullHeader <- Unkeyed
  NoEnvelope = NoEnvelope
  Status = TRUE
  Page = 2
  MaxFaults = 0
  MaxCrashes = 0

PROPERTIES
  WebhooksAreDelivered

\* The service is idle when every message is settled.
CHECK_DEADLOCK FALSE
