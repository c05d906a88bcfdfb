SPECIFICATION FairSpec
CONSTANTS
  Requests = {r1, r2}
  CandidateLists <- MCLists
  HopelessLists <- MCHopeless
  MaxCost = 2
  Limit <- MCLimit
  LastDay = 1
  PeriodOf <- MCPeriodOf
INVARIANTS TypeOK OvershootBounded AnswersAccounted
PROPERTY HandlerEnds
