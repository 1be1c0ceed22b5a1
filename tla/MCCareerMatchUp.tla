-------------------------- MODULE MCCareerMatchUp ---------------------------
(* An instance of CareerMatchUp for TLC: two tabs. *)
EXTENDS CareerMatchUp

CONSTANTS t1, t2
=============================================================================
