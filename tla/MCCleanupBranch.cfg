SPECIFICATION Spec
CONSTANTS
  Cleaners = {c1}
  Resources = {r1}
  Sessions = {s1}
  Requests <- MCRequests
  MaxTip = 2
  MaxChanges = 1
PROPERTY BranchAfterWorktree
CHECK_DEADLOCK FALSE
