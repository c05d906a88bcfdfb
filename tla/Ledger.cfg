SPECIFICATION Spec
CONSTANTS
  Tasks = {t1, t2}
  Models <- MCModels
  Costs = {2}
  Dates <- MCDates
  Periods <- MCPeriods
  PeriodsOf <- MCPeriodsOf
  RecentSize = 2
  MaxRecords = 3
INVARIANTS BackendsAgree SnapshotBounds
SYMMETRY MCSymmetry
