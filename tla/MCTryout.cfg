CONSTANTS
  u1 = u1 p1 = p1 r1 = r1 f1 = f1 v1 = v1 q1 = q1 x = x
  Users = {u1}
  Pakets = {p1}
  Requests = {r1}
  Refreshers = {f1}
  Viewers = {v1}
  NumSubtests = 2
  SubtestDuration <- EqualDurations
  Soal = {q1}
  Jawaban = {x}
  NoJawaban = NoJawaban
  BadAnswers = BadAnswers
  NoScore = NoScore
  MaxTime = 3
SPECIFICATION TryoutSpec
INVARIANTS ScoreOfFinalAnswers FinalScoreExact
