CONSTANTS
  q1 = q1 q2 = q2 a = a b = b
  Soal = {q1, q2}
  LastSoal = q1
  BackendSoal <- RatedAndChoice
  NumSubtests = 2
  Slots = {1, 2}
  NoItem = NoItem
  MaxInputs = 3 MaxFaults = 1
SPECIFICATION Spec
INVARIANTS TypeOK SyncedIsSaved NeverAhead
PROPERTIES HandsInShown TimeUpLeaves LoadsEnd
CHECK_DEADLOCK FALSE
