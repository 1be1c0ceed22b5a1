------------------------------ MODULE MCTryout -------------------------------
(* Instances of Tryout for TLC. *)
EXTENDS Tryout, TLC

CONSTANTS u1, p1, r1, f1, v1, q1, x

(* Two subtests, one time unit each. *)
EqualDurations == [s \in Subtests |-> 1]
=============================================================================
