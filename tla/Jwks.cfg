SPECIFICATION Spec
CONSTANTS
  Requests = {r1, r2}
  Keys = {k1, k2}
  CacheSeconds = 2
  MaxTime = 4
  None = None
INVARIANTS TypeOK PublishedKeyFound
PROPERTY StalenessBounded
SYMMETRY MCSymmetry
