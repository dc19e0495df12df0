---------------------------- MODULE MCRoundRobin ----------------------------
(* Instances of RoundRobin for TLC. *)
EXTENDS RoundRobin, TLC

CONSTANTS c1, c2, u1, u2, u3

\* The second caller replaces the first plugin.
IgnoreFirst == c1 :> NoUid @@ c2 :> u1
=============================================================================
