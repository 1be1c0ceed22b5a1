CONSTANTS
  u1 = u1 p1 = p1 p2 = p2 r1 = r1 r2 = r2 q1 = q1 x = x
  Users = {u1}
  Pakets = {p1, p2}
  Requests = {r1, r2}
  NumSubtests = 2
  SubtestDuration <- EqualDurations
  Soal = {q1}
  Jawaban = {x}
  NoJawaban = NoJawaban
  BadAnswers = BadAnswers
  MaxTime = 1
SYMMETRY Symmetry
SPECIFICATION Spec
INVARIANTS AtMostOneOngoing
