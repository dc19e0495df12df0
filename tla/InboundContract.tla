--------------------------- MODULE InboundContract ---------------------------
(***************************************************************************)
(* What the inbound path promises when Redis never fails: a message whose  *)
(* push was acknowledged is handed to a plugin's session at most once, and *)
(* is dropped only in the hands of a plugin that stopped.  With Fairness   *)
(* every accepted message ends in one of the two ways.                     *)
(***************************************************************************)
EXTENDS Naturals

CONSTANT Msg

VARIABLES
  accepted,   \* messages whose push was acknowledged
  deliveries, \* how often each was handed to a session
  dropped     \* messages that were popped and never handed over

cvars == <<accepted, deliveries, dropped>>

Open(m) == m \in accepted \ dropped /\ deliveries[m] = 0

Init == accepted = {} /\ deliveries = [m \in Msg |-> 0] /\ dropped = {}

Accept(m) ==
  /\ m \notin accepted
  /\ accepted' = accepted \union {m}
  /\ UNCHANGED <<deliveries, dropped>>

Deliver(m) ==
  /\ Open(m)
  /\ deliveries' = [deliveries EXCEPT ![m] = 1]
  /\ UNCHANGED <<accepted, dropped>>

Drop(m) ==
  /\ Open(m)
  /\ dropped' = dropped \union {m}
  /\ UNCHANGED <<accepted, deliveries>>

Next == \E m \in Msg : Accept(m) \/ Deliver(m) \/ Drop(m)

Spec == Init /\ [][Next]_cvars

Fairness == \A m \in Msg : WF_cvars(Deliver(m) \/ Drop(m))
=============================================================================
