-------------------------- MODULE MCQuestionScreen ---------------------------
(* Instances of QuestionScreen for TLC. *)
EXTENDS QuestionScreen, TLC

CONSTANTS q1, a, b, t1, t2

Choice == [pilihan_ganda |-> {a, b}, true_false |-> {}, uraian |-> {}, required |-> 1]
Text == [pilihan_ganda |-> {}, true_false |-> {}, uraian |-> {a}, required |-> 1]

OneChoice == [q \in {q1} |-> Choice]
OneText == [q \in {q1} |-> Text]

Symmetry == Permutations({t1, t2})
=============================================================================
