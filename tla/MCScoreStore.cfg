CONSTANTS
  a1 = a1 w1 = w1 w2 = w2 w3 = w3 sheet = sheet
  Attempts = {a1}
  Workers = {w1, w2, w3}
  NumSubtests = 2
  Sheets = {sheet}
  NoScore = NoScore
SPECIFICATION FairSpec
INVARIANTS TypeOK FullRecountExact NeverOvercounts
PROPERTIES CallsReturn
CHECK_DEADLOCK FALSE
