SPECIFICATION Spec
CONSTANTS
  d1 = d1
  d2 = d2
  d3 = d3
  w1 = w1
  w2 = w2
  w3 = w3
  Gone = Gone
  Foreign = Foreign
  Dirs = {d1, d2, d3}
  Workspaces = {w1, w2, w3}
  InvalidIds = {w3}
  Requests <- MCRequests
  Routes <- MCRoutes
  Worlds <- MCWorlds
  MaxChanges = 1
INVARIANTS TypeOK DoneIsGone
PROPERTIES RefreshIsScoped DeletesOwnWorkspaces PlansTogether
CHECK_DEADLOCK FALSE
