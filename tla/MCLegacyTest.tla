---------------------------- MODULE MCLegacyTest -----------------------------
(* An instance of LegacyTest for TLC. *)
EXTENDS LegacyTest

CONSTANTS q1, q2, a, b

Choice == [pilihan_ganda |-> {a}, true_false |-> {}, uraian |-> {}, required |-> 1]
Rated == [pilihan_ganda |-> {}, true_false |-> {a, b}, uraian |-> {}, required |-> 1]

RatedAndChoice == [q \in Soal |-> IF q = q1 THEN Rated ELSE Choice]
=============================================================================
