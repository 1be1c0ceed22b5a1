CONSTANTS
  r1 = r1 r2 = r2 r3 = r3
  Requests = {r1, r2, r3}
  Limit = 3
  Expiration = 2
  MaxTime = 4
  MaxCount = 0
SYMMETRY Symmetry
SPECIFICATION Spec
INVARIANTS RetryAfter
