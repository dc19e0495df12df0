----------------------------- MODULE MCDeliverer -----------------------------
(* Instances of Deliverer for TLC. *)
EXTENDS Deliverer, TLC

CONSTANTS b1, b2, d1, d2

AllHttp == [b \in Body |-> "http"]
HttpAndOther == b1 :> "http" @@ b2 :> "other"
HttpAndWs == b1 :> "http" @@ b2 :> "ws"

Symmetry == Permutations(Process)
=============================================================================
