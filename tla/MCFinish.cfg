CONSTANTS
  q1 = q1 a = a b = b t1 = t1 t2 = t2
  Soal = {q1}
  BackendSoal <- OneChoice
  NumSubtests = 2
  Slots = {t1, t2}
  Dashboard = Dashboard Progress = Progress Login = Login
  MaxInputs = 4 MaxFaults = 1
  NoCache = NoCache
  NoRequest = NoRequest
SPECIFICATION Spec
PROPERTIES FinishIsComplete
CHECK_DEADLOCK FALSE
