----------------------------- MODULE MCInbound -----------------------------
(* Instances of InboundTransport for TLC. *)
EXTENDS InboundTransport, TLC

CONSTANTS m1, m2, m3, k1, k2, u1, u2, u3

\* Two messages for one key around one for another, their first two only, and
\* one key for all.
ThreeMessages == m1 :> k1 @@ m2 :> k2 @@ m3 :> k1
TwoMessages == m1 :> k1 @@ m2 :> k2
OneKey == [m \in Msg |-> k1]

\* Plugins are interchangeable when all or none may stop, and messages are when
\* they have the same key.
Symmetry == Permutations(Uid) \union Permutations({m1, m3})
OneKeySymmetry == Permutations(Uid) \union Permutations(Msg)
=============================================================================
