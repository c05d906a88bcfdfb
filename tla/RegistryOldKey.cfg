SPECIFICATION Spec
CONSTANTS
  Tasks = {t1, t2}
  Ids = {i1}
  Digests = {d1, d2, d3}
  Roles = {"operator"}
  Suspending = TRUE
  None = None
INVARIANT RotatedKeyDead
SYMMETRY MCSymmetry
