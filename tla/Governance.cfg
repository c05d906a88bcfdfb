SPECIFICATION MCSpec
CONSTANTS
  Admins = {a1, a2}
  Requests = {r1}
  alias = alias
  pool = pool
  price = price
  policy = policy
  v = v
  Fields <- MCFields
  SectionOf <- MCSectionOf
  Static <- MCStatic
  Permanent = {policy}
  Values = {v, bad}
  Malformed = {bad}
  Keep = 2
  MaxWrites = 3
  None = None
SYMMETRY MCSymmetry
INVARIANTS TypeOK AuditWindow LogBounded AuditComplete LogTellsState
INVARIANTS SnapshotInOrder PriceOfAnswer OneSnapshotInMemory
