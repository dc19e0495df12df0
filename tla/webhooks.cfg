\* Two patterns match an event for three endpoints; a lost answer.
SPECIFICATION EventsFairSpec

CONSTANTS
  e1 = e1
  d1 = d1
  Event = {e1}
  Matches <- Twice
  Urls <- ThreeUrls
  Setting = {"null", "false"}
  Body <- Webhook
  Process = {d1}
  Scheme <- Schemes
  NullHeader <- Unkeyed
  NoEnvelope = NoEnvelope
  Status = FALSE
  Page = 2
  MaxFaults = 1
  MaxCrashes = 0

INVARIANTS
  EventsTypeOK
  AnnouncedIsRecorded
  EndpointsInOrder
  GivenUpAfterAllAttempts
  AttemptsBounded

\* The service is idle when every message is settled.
CHECK_DEADLOCK FALSE

PROPERTIES
  EveryCopyLeaves
  KeyedWebhooksAreSettled
