SPECIFICATION MCSpec
CONSTANTS
  Tasks = {t1, t2}
  Ids = {i1}
  Digests = {d1, d2}
  Roles = {"viewer", "admin"}
  Suspending = FALSE
  None = None
  Blank = Blank
  NotBearer = NotBearer
  k1 = k1
  k2 = k2
  Secrets <- MCSecrets
  Tokens <- MCTokens
  Endpoints = {"read", "chat", "manage"}
  Credentials <- AllCredentials
  DefaultRole = "viewer"
SYMMETRY MCSymmetry
INVARIANTS RotatedKeyDead OneKeyPerClient DeleteIsFinal
PROPERTIES OnlyOwnRoles ActsWhileEntitled
