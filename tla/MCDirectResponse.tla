-------------------------- MODULE MCDirectResponse --------------------------
(* Instances of DirectResponse for TLC. *)
EXTENDS DirectResponse, TLC

CONSTANTS t1, t2, t3, h1, h2, w, u1, u2

\* All requests at one handler, or one each at two and one over a websocket.
OneHandler == [t \in Txn |-> h1]
ThreeHandlers == t1 :> h1 @@ t2 :> h2 @@ t3 :> w
=============================================================================
