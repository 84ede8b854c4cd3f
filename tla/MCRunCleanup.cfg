SPECIFICATION Spec
CONSTANTS
  Cleaners = {c1, c2}
  Resources = {r1, r2}
  Sessions = {s1}
  Requests <- MCRequests
  MaxTip = 2
  MaxChanges = 2
SYMMETRY Symmetry
INVARIANTS TypeOK PlanStaysTrue SparesActiveWorkers
PROPERTIES DeletesFrozenTip SparesWork DeletesRecordLast
CHECK_DEADLOCK FALSE
