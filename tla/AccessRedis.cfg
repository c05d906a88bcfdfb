SPECIFICATION MCSpec
CONSTANTS
  Tasks = {t1, t2}
  Ids = {i1}
  Digests = {d1, d2, d3, d4}
  Roles = {"viewer", "admin"}
  Suspending = TRUE
  None = None
  Blank = Blank
  NotBearer = NotBearer
  k1 = k1
  k2 = k2
  Secrets <- FewSecrets
  Tokens <- NoTokens
  Endpoints = {"manage"}
  Credentials <- FewCredentials
  DefaultRole = "viewer"
SYMMETRY MCSymmetry
INVARIANTS TypeOK KeyInHands
PROPERTIES RemovalsLast RolesGranted
