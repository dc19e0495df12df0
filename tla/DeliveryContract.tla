-------------------------- MODULE DeliveryContract --------------------------
(***************************************************************************)
(* What the delivery service promises for every outbound message: unless   *)
(* the agent fails to submit it, it is tried until an attempt succeeds,    *)
(* given up when six have failed, and never tried again once it is         *)
(* settled.                                                                *)
(***************************************************************************)
EXTENDS Naturals

CONSTANTS Body, MaxAttempts

VARIABLES
  status,   \* "new", "dropped", "open", "sent", "givenUp" or "lost"
  attempts  \* attempts made

dvars == <<status, attempts>>

Init == status = [b \in Body |-> "new"] /\ attempts = [b \in Body |-> 0]

Become(b, s) == status' = [status EXCEPT ![b] = s]
Attempt(b) == attempts' = [attempts EXCEPT ![b] = @ + 1]

Submit(b) ==
  /\ status[b] = "new"
  /\ Become(b, "open") \/ Become(b, "dropped")
  /\ UNCHANGED attempts

Succeed(b) == status[b] = "open" /\ Become(b, "sent") /\ Attempt(b)

Fail(b) ==
  /\ status[b] = "open"
  /\ Attempt(b)
  /\ IF attempts[b] + 1 < MaxAttempts
     THEN UNCHANGED status
     ELSE Become(b, "givenUp")

\* Open messages go with the process that held them, during an attempt or not.
Lose(b) ==
  \E gone \in SUBSET {c \in Body : status[c] = "open"} :
    /\ b \in gone
    /\ status' = [c \in Body |-> IF c \in gone THEN "lost" ELSE status[c]]
    /\ UNCHANGED attempts \/ \E c \in gone : Attempt(c)

Settle(b) == Succeed(b) \/ Fail(b) \/ Lose(b)

Next == \E b \in Body : Submit(b) \/ Settle(b)

Spec == Init /\ [][Next]_dvars
=============================================================================
