-------------------------- MODULE MCTryoutAttempt ---------------------------
(* Instances of TryoutAttempt for TLC. *)
EXTENDS TryoutAttempt, TLC

CONSTANTS u1, p1, p2, r1, r2, q1, x

(* Two subtests, one time unit each. *)
EqualDurations == [s \in Subtests |-> 1]
Symmetry == Permutations(Requests) \cup Permutations(Jawaban)
=============================================================================
