SPECIFICATION Spec
CONSTANTS
  Requests = {r1, r2}
  Limits = {0, 2}
  WindowSeconds = 2
  Second = 2
  MaxTime = 6
INVARIANTS TypeOK WindowBounded RetryAfterHonest
SYMMETRY MCSymmetry
