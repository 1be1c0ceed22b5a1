CONSTANTS
  r1 = r1 r2 = r2 f1 = f1 f2 = f2
  Requests = {r1, r2}
  Flights = {f1, f2}
  NoFlight = NoFlight
  MaxTokens = 2
SPECIFICATION FairSpec
INVARIANTS TypeOK OneFlight NeverBothValid OwnSuccessor
PROPERTIES WaitersAnswered
