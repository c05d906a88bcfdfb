SPECIFICATION ReadsSpec
CONSTANTS
  Admins = {a1}
  Requests = {r1}
  alias = alias
  pool = pool
  price = price
  policy = policy
  v = v
  Fields <- MCFields
  SectionOf <- MCSectionOf
  Static <- MCStatic
  Permanent = {}
  Values = {v}
  Malformed = {}
  Keep = 1
  MaxWrites = 2
  None = None
INVARIANT OneEffectiveSnapshot
SYMMETRY MCSymmetry
